----------------------- MODULE WatchquaggaSupervision -----------------------
(***************************************************************************)
(* What holds of the supervision of the daemons by watchquagga, for every  *)
(* set of daemons and every setting of its options: the types, and, as     *)
(* long as connect(2) on the vty sockets does not block, the books that    *)
(* are kept on each daemon.                                                *)
(***************************************************************************)
EXTENDS Watchquagga, FiniteSetTheorems, TLAPS

-----------------------------------------------------------------------------
(* Types. *)

DmnType ==
    /\ state \in [Daemons -> States]
    /\ t_read \in [Daemons -> BOOLEAN]
    /\ t_write \in [Daemons -> BOOLEAN]
    /\ t_wakeup \in [Daemons -> Wakeups \cup {"NULL"}]
    /\ pending \in [Daemons -> [Wakeups -> Nat]]
    /\ echo_sent \in [Daemons -> {"none", "sent", "late"}]
    /\ connect_tries \in [Daemons -> 0..2]
    /\ numdown \in Int
    /\ sent \in BOOLEAN

\* t_wakeup is NULL or points at a timer that is queued, so that cancelling it
\* takes one away.
WakeupQueued ==
    \A d \in Daemons : t_wakeup[d] # "NULL" => pending[d][t_wakeup[d]] > 0

JobTypes ==
    /\ pid \in [Restarts -> BOOLEAN]
    /\ t_kill \in [Restarts -> BOOLEAN]
    /\ kills \in [Restarts -> 0..1]
    /\ interval \in [Restarts -> Nat]
    /\ elapsed \in [Restarts -> 0..LongAgo]
    /\ numpids \in Int
    /\ write_pid \in BOOLEAN

EnvType ==
    /\ proc \in [Children -> {"none", "running", "zombie"}]
    /\ caught \in BOOLEAN
    /\ handling \in BOOLEAN

\* The inductive invariant behind TypeOK.
TypeInv == DmnType /\ WakeupQueued /\ JobTypes /\ EnvType

LEMMA LongAgoNat == LongAgo \in Nat
BY WatchAssumption DEF LongAgo

LEMMA TypeInit == Init => TypeInv
<1> SUFFICES ASSUME Init PROVE TypeInv
  OBVIOUS
<1>1. Cardinality(Daemons) \in Nat
  BY WatchAssumption, FS_CardinalityType
<1>2. DmnType
  <2>1. pending = [d \in Daemons |-> [w \in Wakeups |-> IF w = "init" THEN 1 ELSE 0]]
    BY DEF Init
  <2>2. pending \in [Daemons -> [Wakeups -> Nat]]
    BY <2>1
  <2>3. /\ state \in [Daemons -> States]
        /\ t_wakeup \in [Daemons -> Wakeups \cup {"NULL"}]
        /\ echo_sent \in [Daemons -> {"none", "sent", "late"}]
        /\ connect_tries \in [Daemons -> 0..2]
    BY DEF Init, States, Wakeups
  <2>4. /\ t_read \in [Daemons -> BOOLEAN]
        /\ t_write \in [Daemons -> BOOLEAN]
        /\ sent \in BOOLEAN
    BY DEF Init
  <2>5. numdown \in Int
    BY <1>1 DEF Init
  <2> QED
    BY <2>2, <2>3, <2>4, <2>5 DEF DmnType
<1>3. WakeupQueued
  BY DEF Init, WakeupQueued, Wakeups
<1>4. JobTypes
  <2>1. /\ interval \in [Restarts -> Nat]
        /\ elapsed \in [Restarts -> 0..LongAgo]
    BY WatchAssumption, LongAgoNat DEF Init
  <2>2. /\ kills \in [Restarts -> 0..1]
        /\ numpids \in Int
    BY DEF Init
  <2>3. /\ pid \in [Restarts -> BOOLEAN]
        /\ t_kill \in [Restarts -> BOOLEAN]
        /\ write_pid \in BOOLEAN
    BY DEF Init
  <2> QED
    BY <2>1, <2>2, <2>3 DEF JobTypes
<1>5. EnvType
  BY DEF Init, EnvType
<1> QED
  BY <1>2, <1>3, <1>4, <1>5 DEF TypeInv

LEMMA QueueTypes ==
    ASSUME NEW b \in [Wakeups -> Nat], NEW w \in Wakeups
    PROVE  /\ More(b, w) \in [Wakeups -> Nat]
           /\ More(b, w)[w] > 0
           /\ \A x \in Wakeups : b[x] > 0 => More(b, w)[x] > 0
           /\ b[w] > 0 => Less(b, w) \in [Wakeups -> Nat]
           /\ Less(b, "NULL") = b
BY DEF More, Less, Wakeups

\* A handler that sets one more wake-up, and one that sets none.
LEMMA WakeupSet ==
    ASSUME DmnType, WakeupQueued, NEW d \in Daemons, NEW b \in [Wakeups -> Nat],
           NEW w \in Wakeups,
           pending' = [pending EXCEPT ![d] = More(b, w)],
           t_wakeup' = [t_wakeup EXCEPT ![d] = w]
    PROVE  /\ pending' \in [Daemons -> [Wakeups -> Nat]]
           /\ t_wakeup' \in [Daemons -> Wakeups \cup {"NULL"}]
           /\ WakeupQueued'
BY QueueTypes DEF DmnType, WakeupQueued

LEMMA WakeupNone ==
    ASSUME DmnType, WakeupQueued, NEW d \in Daemons, NEW b \in [Wakeups -> Nat],
           pending' = [pending EXCEPT ![d] = b],
           t_wakeup' = [t_wakeup EXCEPT ![d] = "NULL"]
    PROVE  /\ pending' \in [Daemons -> [Wakeups -> Nat]]
           /\ t_wakeup' \in [Daemons -> Wakeups \cup {"NULL"}]
           /\ WakeupQueued'
BY DEF DmnType, WakeupQueued

\* try_connect() called with a well-formed queue.
LEMMA TryConnectType ==
    ASSUME DmnType, WakeupQueued, NEW d \in Daemons, NEW s \in States, NEW rd \in BOOLEAN,
           NEW wr \in BOOLEAN, NEW b \in [Wakeups -> Nat], NEW n \in Int,
           try_connect(d, s, rd, wr, b, n), UNCHANGED echo_sent
    PROVE  DmnType' /\ WakeupQueued'
<1>3. /\ pending' \in [Daemons -> [Wakeups -> Nat]]
      /\ t_wakeup' \in [Daemons -> Wakeups \cup {"NULL"}]
      /\ WakeupQueued'
  BY WakeupSet, WakeupNone DEF try_connect, daemon_up, Wakeups
<1>4. state' \in [Daemons -> States]
  BY DEF try_connect, daemon_up, DmnType, States
<1>5. /\ t_read' \in [Daemons -> BOOLEAN]
      /\ t_write' \in [Daemons -> BOOLEAN]
  BY DEF try_connect, DmnType
<1>6. connect_tries' \in [Daemons -> 0..2]
  <2>1. OneMoreTry(d) \/ connect_tries' = [connect_tries EXCEPT ![d] = 0]
    BY DEF try_connect, daemon_up
  <2> QED
    BY <2>1 DEF DmnType, OneMoreTry
<1>7. numdown' \in Int
  <2>1. numdown' \in {n, n - 1}
    BY DEF try_connect, daemon_up
  <2> QED
    BY <2>1
<1>8. sent' \in BOOLEAN
  <2>1. sent' = sent \/ sent' = (sent \/ n - 1 = 0)
    BY DEF try_connect, daemon_up
  <2> QED
    BY <2>1 DEF DmnType
<1> QED
  BY <1>3, <1>4, <1>5, <1>6, <1>7, <1>8 DEF DmnType

LEMMA QueueAfter ==
    ASSUME DmnType, WakeupQueued, NEW d \in Daemons
    PROVE  /\ \A w \in Wakeups : Fires(d, w) => AfterFiring(d, w) \in [Wakeups -> Nat]
           /\ AfterCancel(d) \in [Wakeups -> Nat]
           /\ pending[d] \in [Wakeups -> Nat]
<1>1. pending[d] \in [Wakeups -> Nat]
  BY DEF DmnType
<1>2. \A w \in Wakeups : Fires(d, w) => AfterFiring(d, w) \in [Wakeups -> Nat]
  BY <1>1, QueueTypes DEF Fires, AfterFiring
<1>3. CASE t_wakeup[d] = "NULL"
  BY <1>1, <1>2, <1>3, QueueTypes DEF AfterCancel, Less
<1>4. CASE t_wakeup[d] \in Wakeups
  BY <1>1, <1>2, <1>4, QueueTypes DEF AfterCancel, WakeupQueued, Wakeups
<1> QED
  BY <1>1, <1>2, <1>3, <1>4 DEF DmnType

LEMMA DaemonDownType ==
    ASSUME DmnType, WakeupQueued, NEW d \in Daemons, NEW b, NEW p,
           Less(b, p) \in [Wakeups -> Nat], daemon_down(d, b, p)
    PROVE  DmnType' /\ WakeupQueued'
<1> DEFINE n == IF IS_UP(d) THEN numdown + 1 ELSE numdown
<1>1. n \in Int
  BY DEF DmnType
<1>2. try_connect(d, "DOWN", FALSE, FALSE, Less(b, p), n) /\ UNCHANGED echo_sent
  BY DEF daemon_down
<1> QED
  BY <1>1, <1>2, TryConnectType DEF States

LEMMA TimersType ==
    ASSUME DmnType, WakeupQueued, NEW d \in Daemons, Timers(d)
    PROVE  DmnType' /\ WakeupQueued'
<1>1. CASE wakeup_init(d)
  <2>1. AfterFiring(d, "init") \in [Wakeups -> Nat]
    BY <1>1, QueueAfter DEF wakeup_init, Wakeups
  <2> QED
    BY <1>1, <2>1, TryConnectType DEF wakeup_init, DmnType, States
<1>2. CASE wakeup_down(d)
  <2>1. AfterFiring(d, "down") \in [Wakeups -> Nat]
    BY <1>2, QueueAfter DEF wakeup_down, Wakeups
  <2>2. /\ state[d] \in States /\ t_read[d] \in BOOLEAN
        /\ t_write[d] \in BOOLEAN /\ numdown \in Int
    BY DEF DmnType
  <2> QED
    BY <1>2, <2>1, <2>2, TryConnectType DEF wakeup_down
<1>3. CASE wakeup_connect_hanging(d)
  <2>1. Less(AfterFiring(d, "connect_hanging"), "NULL") \in [Wakeups -> Nat]
    BY <1>3, QueueAfter DEF wakeup_connect_hanging, Less, Wakeups
  <2> QED
    BY <1>3, <2>1, DaemonDownType DEF wakeup_connect_hanging
<1>4. CASE wakeup_send_echo(d)
  <2>1. AfterFiring(d, "send_echo") \in [Wakeups -> Nat]
    BY <1>4, QueueAfter DEF wakeup_send_echo, Wakeups
  <2>2. CASE daemon_down(d, AfterFiring(d, "send_echo"), "NULL")
    BY <2>1, <2>2, DaemonDownType DEF Less
  <2>3. CASE /\ echo_sent' = [echo_sent EXCEPT ![d] = "sent"]
             /\ pending' = [pending EXCEPT ![d] = More(AfterFiring(d, "send_echo"), "no_answer")]
             /\ t_wakeup' = [t_wakeup EXCEPT ![d] = "no_answer"]
             /\ UNCHANGED <<state, t_read, t_write, connect_tries, numdown, sent>>
    <3>1. /\ pending' \in [Daemons -> [Wakeups -> Nat]]
          /\ t_wakeup' \in [Daemons -> Wakeups \cup {"NULL"}]
          /\ WakeupQueued'
      BY <2>1, <2>3, WakeupSet DEF Wakeups
    <3> QED
      BY <2>3, <3>1 DEF DmnType
  <2> QED
    BY <1>4, <2>2, <2>3 DEF wakeup_send_echo
<1>5. CASE wakeup_no_answer(d)
  <2>1. AfterFiring(d, "no_answer") \in [Wakeups -> Nat]
    BY <1>5, QueueAfter DEF wakeup_no_answer, Wakeups
  <2>2. /\ pending' \in [Daemons -> [Wakeups -> Nat]]
        /\ t_wakeup' \in [Daemons -> Wakeups \cup {"NULL"}]
        /\ WakeupQueued'
    BY <1>5, <2>1, WakeupSet, WakeupNone DEF wakeup_no_answer, Wakeups
  <2>3. echo_sent' \in [Daemons -> {"none", "sent", "late"}]
    BY <1>5 DEF wakeup_no_answer, DmnType
  <2> QED
    BY <1>5, <2>2, <2>3 DEF wakeup_no_answer, DmnType, States
<1>6. CASE wakeup_unresponsive(d)
  <2>1. AfterFiring(d, "unresponsive") \in [Wakeups -> Nat]
    BY <1>6, QueueAfter DEF wakeup_unresponsive, Wakeups
  <2>2. CASE state[d] = "UNRESPONSIVE"
    <3>1. /\ t_wakeup' = [t_wakeup EXCEPT ![d] = "unresponsive"] /\ UNCHANGED pending
          /\ pending[d]["unresponsive"] > 0
      BY <1>6, <2>2 DEF wakeup_unresponsive, Fires
    <3>2. t_wakeup' \in [Daemons -> Wakeups \cup {"NULL"}] /\ WakeupQueued'
      BY <3>1 DEF DmnType, WakeupQueued, Wakeups
    <3> QED
      BY <1>6, <3>1, <3>2 DEF wakeup_unresponsive, DmnType
  <2>3. CASE state[d] # "UNRESPONSIVE"
    <3>1. /\ pending' \in [Daemons -> [Wakeups -> Nat]]
          /\ t_wakeup' \in [Daemons -> Wakeups \cup {"NULL"}]
          /\ WakeupQueued'
      BY <1>6, <2>1, <2>3, WakeupNone DEF wakeup_unresponsive
    <3> QED
      BY <1>6, <3>1 DEF wakeup_unresponsive, DmnType
  <2> QED
    BY <2>2, <2>3
<1> QED
  BY <1>1, <1>2, <1>3, <1>4, <1>5, <1>6 DEF Timers

LEMMA SocketsType ==
    ASSUME DmnType, WakeupQueued, NEW d \in Daemons, Sockets(d)
    PROVE  DmnType' /\ WakeupQueued'
<1>1. Less(pending[d], t_wakeup[d]) \in [Wakeups -> Nat]
  BY QueueAfter DEF AfterCancel
<1>2. CASE daemon_down(d, pending[d], t_wakeup[d])
  BY <1>1, <1>2, DaemonDownType
<1>3. CASE /\ daemon_up(d, pending[d], t_wakeup[d], numdown)
           /\ t_write' = [t_write EXCEPT ![d] = FALSE]
           /\ UNCHANGED <<t_read, echo_sent>>
  <2>1. /\ pending' \in [Daemons -> [Wakeups -> Nat]]
        /\ t_wakeup' \in [Daemons -> Wakeups \cup {"NULL"}]
        /\ WakeupQueued'
    <3>1. CASE DoPing
      BY <1>3, <3>1, QueueAfter, WakeupSet DEF daemon_up, Wakeups
    <3>2. CASE ~DoPing
      BY <1>3, <3>2 DEF daemon_up, DmnType, WakeupQueued
    <3> QED
      BY <3>1, <3>2
  <2>2. state' \in [Daemons -> States] /\ connect_tries' \in [Daemons -> 0..2]
    BY <1>3 DEF daemon_up, DmnType, States
  <2>3. numdown' \in Int
    BY <1>3 DEF daemon_up, DmnType
  <2>4. sent' \in BOOLEAN
    BY <1>3 DEF daemon_up, DmnType
  <2>5. t_write' \in [Daemons -> BOOLEAN]
    BY <1>3 DEF DmnType
  <2> QED
    BY <1>3, <2>1, <2>2, <2>3, <2>4, <2>5 DEF DmnType
<1>4. CASE handle_read_echo(d)
  <2>1. /\ pending' \in [Daemons -> [Wakeups -> Nat]]
        /\ t_wakeup' \in [Daemons -> Wakeups \cup {"NULL"}]
        /\ WakeupQueued'
    BY <1>4, QueueAfter, WakeupSet DEF handle_read_echo, Wakeups
  <2>2. state' \in [Daemons -> States]
    BY <1>4 DEF handle_read_echo, DmnType, States
  <2> QED
    BY <1>4, <2>1, <2>2 DEF handle_read_echo, DmnType
<1> QED
  BY <1>2, <1>3, <1>4 DEF Sockets, check_connect, handle_read_down

LEMMA RunJobType ==
    ASSUME JobTypes, EnvType, NEW r \in Restarts, run_job(r)
    PROVE  JobTypes' /\ proc' \in [Children -> {"none", "running", "zombie"}]
<1>1. CASE NoJob
  BY <1>1 DEF NoJob, jobVars, JobTypes, EnvType
<1>2. CASE ~NoJob
  <2>1. NextInterval(r) \in Nat
    BY WatchAssumption DEF NextInterval, JobTypes
  <2>2. /\ elapsed' \in [Restarts -> 0..LongAgo]
        /\ kills' \in [Restarts -> 0..1]
        /\ interval' \in [Restarts -> Nat]
    BY <1>2, <2>1, LongAgoNat DEF run_job, JobTypes
  <2>3. /\ pid' \in [Restarts -> BOOLEAN]
        /\ t_kill' \in [Restarts -> BOOLEAN]
        /\ write_pid' \in BOOLEAN
        /\ proc' \in [Children -> {"none", "running", "zombie"}]
    BY <1>2 DEF run_job, JobTypes, EnvType, Children
  <2>4. numpids' \in Int
    BY <1>2 DEF run_job, JobTypes
  <2> QED
    BY <2>2, <2>3, <2>4 DEF JobTypes
<1> QED
  BY <1>1, <1>2

LEMMA TryRestartType ==
    ASSUME JobTypes, EnvType, NEW d \in Daemons, try_restart(d) \/ NoJob
    PROVE  JobTypes' /\ proc' \in [Children -> {"none", "running", "zombie"}]
<1>1. CASE NoJob
  BY <1>1 DEF NoJob, jobVars, JobTypes, EnvType
<1>2. NoJob \/ run_job(d) \/ run_job("all")
  BY DEF try_restart
<1> QED
  BY <1>1, <1>2, RunJobType DEF Restarts

LEMMA TypeNext ==
    ASSUME TypeInv, [Next]_vars
    PROVE  TypeInv'
<1> USE DEF TypeInv
<1>1. ASSUME NEW d \in Daemons, Timers(d)
      PROVE  TypeInv'
  <2>1. DmnType' /\ WakeupQueued'
    BY <1>1, TimersType
  <2>2. \/ UNCHANGED <<jobVars, envVars>>
        \/ (try_restart(d) \/ NoJob) /\ UNCHANGED <<caught, handling>>
    BY <1>1 DEF Timers, wakeup_init, wakeup_down, wakeup_connect_hanging, wakeup_send_echo,
                wakeup_no_answer, wakeup_unresponsive
  <2>3. CASE UNCHANGED <<jobVars, envVars>>
    BY <2>1, <2>3 DEF jobVars, envVars, JobTypes, EnvType
  <2>4. CASE (try_restart(d) \/ NoJob) /\ UNCHANGED <<caught, handling>>
    BY <2>1, <2>4, TryRestartType DEF EnvType
  <2> QED
    BY <2>2, <2>3, <2>4
<1>2. ASSUME NEW d \in Daemons, Sockets(d)
      PROVE  TypeInv'
  <2>1. DmnType' /\ WakeupQueued'
    BY <1>2, SocketsType
  <2>2. UNCHANGED <<jobVars, envVars>>
    BY <1>2 DEF Sockets, check_connect, handle_read_down, handle_read_echo
  <2> QED
    BY <2>1, <2>2 DEF jobVars, envVars, JobTypes, EnvType
<1>3. ASSUME UNCHANGED dmnVars
      PROVE  DmnType' /\ WakeupQueued'
  BY <1>3 DEF dmnVars, DmnType, WakeupQueued
<1>4. ASSUME NEW r \in Restarts, restart_kill(r)
      PROVE  TypeInv'
  <2>1. JobTypes'
    BY <1>4 DEF restart_kill, JobTypes
  <2>2. EnvType'
    BY <1>4 DEF restart_kill, EnvType, Children
  <2> QED
    BY <1>3, <1>4, <2>1, <2>2 DEF restart_kill
<1>5. CASE sigevent_process
  BY <1>3, <1>5 DEF sigevent_process, jobVars, JobTypes, EnvType
<1>6. CASE config_write_integrated
  BY <1>3, <1>6 DEF config_write_integrated, JobTypes, EnvType, Children
<1>7. CASE sigchild
  <2>1. /\ pid' \in [Restarts -> BOOLEAN]
        /\ t_kill' \in [Restarts -> BOOLEAN]
        /\ write_pid' \in BOOLEAN
    BY <1>7 DEF sigchild, jobVars, JobTypes
  <2>2. elapsed' \in [Restarts -> 0..LongAgo] /\ numpids' \in Int
    BY <1>7, LongAgoNat DEF sigchild, jobVars, JobTypes
  <2>3. UNCHANGED <<kills, interval>>
    BY <1>7 DEF sigchild, jobVars
  <2>4. EnvType'
    BY <1>7 DEF sigchild, EnvType
  <2> QED
    BY <1>3, <1>7, <2>1, <2>2, <2>3, <2>4 DEF sigchild, JobTypes
<1>8. ASSUME NEW c \in Children, ChildExits(c)
      PROVE  TypeInv'
  BY <1>3, <1>8 DEF ChildExits, jobVars, JobTypes, EnvType
<1>9. CASE Tick
  <2>1. elapsed' \in [Restarts -> 0..LongAgo]
    BY <1>9, LongAgoNat DEF Tick, JobTypes
  <2> QED
    BY <1>3, <1>9, <2>1 DEF Tick, envVars, JobTypes, EnvType
<1>10. CASE UNCHANGED vars
  BY <1>3, <1>10 DEF vars, jobVars, envVars, JobTypes, EnvType
<1> QED
  BY <1>1, <1>2, <1>4, <1>5, <1>6, <1>7, <1>8, <1>9, <1>10 DEF Next

\* The types of watchquagga's state, for every set of daemons and every
\* setting of the options; the queues of timers are never taken below zero,
\* whichever way a timer is cancelled, lost or overwritten.
THEOREM TypeOKThm == Spec => []TypeOK
<1>1. Init => TypeInv
  BY TypeInit
<1>2. TypeInv /\ [Next]_vars => TypeInv'
  BY TypeNext
<1>3. TypeInv => TypeOK
  BY DEF TypeInv, DmnType, JobTypes, EnvType, TypeOK
<1> QED
  BY <1>1, <1>2, <1>3, PTL DEF Spec

-----------------------------------------------------------------------------
(* The books on each daemon, when connect(2) does not block. *)

\* The queue with the timer w0 only.
Only(w0) == [w \in Wakeups |-> IF w = w0 THEN 1 ELSE 0]

\* The one timer that is queued for d is the one t_wakeup points at, and its
\* handler is one that belongs to the state d is in; d is read from exactly
\* when it is up, and no connect is under way.
DmnInv(d) ==
    /\ pending[d] = Only(t_wakeup[d])
    /\ ~t_write[d]
    /\ t_read[d] <=> IS_UP(d)
    /\ state[d] # "CONNECTING" /\ t_wakeup[d] # "connect_hanging"
    /\ state[d] = "INIT" <=> t_wakeup[d] = "init"
    /\ state[d] = "DOWN" <=> t_wakeup[d] = "down"
    /\ t_wakeup[d] = "unresponsive" => state[d] = "UNRESPONSIVE"
    /\ state[d] = "UP" /\ DoPing => t_wakeup[d] \in {"send_echo", "no_answer"}
    /\ state[d] = "UNRESPONSIVE" /\ UnresponsiveRestart => t_wakeup[d] # "NULL"

\* The inductive invariant: the books of every daemon are right, and gs.numdown
\* is the number of those that are down.
BooksInv == TypeInv /\ NumDownExact /\ \A d \in Daemons : DmnInv(d)

LEMMA QueueValues ==
    ASSUME NEW b \in [Wakeups -> Nat], NEW w \in Wakeups, NEW y \in Wakeups
    PROVE  /\ More(b, w)[y] = IF y = w THEN b[y] + 1 ELSE b[y]
           /\ Less(b, w)[y] = IF y = w THEN b[y] - 1 ELSE b[y]
<1>1. w # "NULL"
  BY DEF Wakeups
<1> QED
  BY <1>1 DEF More, Less

LEMMA OnlyQueue ==
    ASSUME NEW w \in Wakeups
    PROVE  /\ More(Only("NULL"), w) = Only(w)
           /\ Less(Only(w), w) = Only("NULL")
           /\ Less(Only("NULL"), "NULL") = Only("NULL")
           /\ \A x \in Wakeups : Only(w)[x] > 0 <=> x = w
           /\ \A x \in Wakeups : ~(Only("NULL")[x] > 0)
<1>1. \A x : Only(x) \in [Wakeups -> Nat]
  BY DEF Only
<1>2. \A x : \A y \in Wakeups : Only(x)[y] = IF y = x THEN 1 ELSE 0
  BY DEF Only
<1>3. "NULL" \notin Wakeups
  BY DEF Wakeups
<1>4. More(Only("NULL"), w) = Only(w)
  <2>1. \A y \in Wakeups : More(Only("NULL"), w)[y] = Only(w)[y]
    BY <1>1, <1>2, <1>3, QueueValues
  <2>2. More(Only("NULL"), w) \in [Wakeups -> Nat]
    BY <1>1, QueueTypes
  <2> QED
    BY <1>1, <2>1, <2>2
<1>5. Less(Only(w), w) = Only("NULL")
  <2>1. \A y \in Wakeups : Less(Only(w), w)[y] = Only("NULL")[y]
    BY <1>1, <1>2, <1>3, QueueValues
  <2>2. Less(Only(w), w) \in [Wakeups -> Nat]
    BY <1>1, <1>2, QueueTypes
  <2> QED
    BY <1>1, <2>1, <2>2
<1>6. Less(Only("NULL"), "NULL") = Only("NULL")
  BY DEF Less
<1>7. \A x \in Wakeups : Only(w)[x] > 0 <=> x = w
  BY <1>2
<1>8. \A x \in Wakeups : ~(Only("NULL")[x] > 0)
  BY <1>2 DEF Wakeups
<1> QED
  BY <1>4, <1>5, <1>6, <1>7, <1>8

\* What is queued in a handler: it fires because t_wakeup points at it.
LEMMA BooksQueue ==
    ASSUME BooksInv, NEW d \in Daemons
    PROVE  /\ \A w \in Wakeups : Fires(d, w) => /\ t_wakeup[d] = w
                                                 /\ AfterFiring(d, w) = Only("NULL")
           /\ AfterCancel(d) = Only("NULL")
<1>1. pending[d] = Only(t_wakeup[d]) /\ t_wakeup[d] \in Wakeups \cup {"NULL"}
  BY DEF BooksInv, DmnInv, TypeInv, DmnType
<1>2. ASSUME NEW w \in Wakeups, Fires(d, w)
      PROVE  t_wakeup[d] = w
  BY <1>1, <1>2, OnlyQueue DEF Fires
<1>3. AfterCancel(d) = Only("NULL")
  BY <1>1, OnlyQueue DEF AfterCancel, Wakeups
<1> QED
  BY <1>1, <1>2, <1>3, OnlyQueue DEF AfterFiring

LEMMA BooksInit == ASSUME Init PROVE NumDownExact /\ \A d \in Daemons : DmnInv(d)
<1>1. {d \in Daemons : ~IS_UP(d)} = Daemons
  BY DEF Init, IS_UP, IsUpState
<1>2. NumDownExact
  BY <1>1 DEF Init, NumDownExact
<1>3. ASSUME NEW d \in Daemons PROVE DmnInv(d)
  <2>1. pending[d] = Only(t_wakeup[d])
    BY DEF Init, Only
  <2> QED
    BY <2>1 DEF Init, DmnInv, IS_UP, IsUpState
<1> QED
  BY <1>2, <1>3

\* A step that only concerns d leaves the books of the others alone.
LEMMA OthersKept ==
    ASSUME BooksInv, NEW d \in Daemons, NEW x \in Daemons, x # d,
           state'[x] = state[x], t_read'[x] = t_read[x], t_write'[x] = t_write[x],
           t_wakeup'[x] = t_wakeup[x], pending'[x] = pending[x]
    PROVE  DmnInv(x)'
BY DEF BooksInv, DmnInv, IS_UP, IsUpState

\* What d's new state does to the count of daemons that are down.
LEMMA CountDown ==
    ASSUME DmnType, NEW d \in Daemons, NEW v \in States, state' = [state EXCEPT ![d] = v]
    PROVE  LET D == {x \in Daemons : ~IS_UP(x)} \cup {d}
           IN  /\ Cardinality(D) \in Nat
               /\ Cardinality({x \in Daemons : ~IS_UP(x)'})
                    = IF IsUpState(v) THEN Cardinality(D) - 1 ELSE Cardinality(D)
<1> DEFINE D == {x \in Daemons : ~IS_UP(x)} \cup {d}
<1> DEFINE E == {x \in Daemons : ~IS_UP(x)'}
<1>1. IsFiniteSet(D)
  BY WatchAssumption, FS_Subset
<1>2. Cardinality(D) \in Nat
  BY <1>1, FS_CardinalityType
<1>3. CASE IsUpState(v)
  <2>1. E = D \ {d}
    BY <1>3 DEF IS_UP, IsUpState, DmnType
  <2>2. Cardinality(D \ {d}) = Cardinality(D) - 1
    BY <1>1, FS_RemoveElement
  <2> QED
    BY <1>2, <1>3, <2>1, <2>2
<1>4. CASE ~IsUpState(v)
  <2>1. E = D
    BY <1>4 DEF IS_UP, IsUpState, DmnType
  <2> QED
    BY <1>2, <1>4, <2>1
<1> QED
  BY <1>3, <1>4

\* try_connect() called when n is the count once d is down.
LEMMA TryConnectBooks ==
    ASSUME ~DelayedConnect, BooksInv, NEW d \in Daemons, NEW n,
           n = Cardinality({x \in Daemons : ~IS_UP(x)} \cup {d}),
           try_connect(d, "DOWN", FALSE, FALSE, Only("NULL"), n)
    PROVE  /\ NumDownExact'
           /\ \A x \in Daemons : DmnInv(x)'
           /\ sent' => sent \/ numdown' = 0
<1> USE DEF BooksInv, TypeInv
<1>1. CASE /\ state' = [state EXCEPT ![d] = "DOWN"]
           /\ numdown' = n
           /\ UNCHANGED sent
           /\ t_read' = [t_read EXCEPT ![d] = FALSE]
           /\ t_write' = [t_write EXCEPT ![d] = FALSE]
           /\ pending' = [pending EXCEPT ![d] = More(Only("NULL"), "down")]
           /\ t_wakeup' = [t_wakeup EXCEPT ![d] = "down"]
  <2>1. NumDownExact'
    BY <1>1, CountDown DEF NumDownExact, States, IsUpState
  <2>2. pending'[d] = Only("down")
    BY <1>1, OnlyQueue DEF DmnType, Wakeups
  <2>3. DmnInv(d)'
    BY <1>1, <2>2 DEF DmnInv, DmnType, IS_UP, IsUpState
  <2>4. ASSUME NEW x \in Daemons, x # d PROVE DmnInv(x)'
    BY <1>1, <2>4, OthersKept DEF DmnType
  <2> QED
    BY <1>1, <2>1, <2>3, <2>4
<1>2. CASE /\ daemon_up(d, Only("NULL"), "NULL", n)
           /\ t_read' = [t_read EXCEPT ![d] = TRUE]
           /\ t_write' = [t_write EXCEPT ![d] = FALSE]
  <2>1. NumDownExact'
    BY <1>2, CountDown DEF NumDownExact, States, IsUpState, daemon_up
  <2>3. pending'[d] = Only(t_wakeup'[d]) /\ t_wakeup'[d] = IF DoPing THEN "send_echo" ELSE "NULL"
    BY <1>2, OnlyQueue DEF DmnType, Wakeups, daemon_up
  <2>4. state'[d] = "UP" /\ t_read'[d] /\ ~t_write'[d]
    BY <1>2 DEF DmnType, daemon_up
  <2>5. DmnInv(d)'
    BY <2>3, <2>4 DEF DmnInv, IS_UP, IsUpState
  <2>6. ASSUME NEW x \in Daemons, x # d PROVE DmnInv(x)'
    BY <1>2, <2>6, OthersKept DEF DmnType, daemon_up
  <2>7. sent' => sent \/ numdown' = 0
    BY <1>2 DEF daemon_up
  <2> QED
    BY <2>1, <2>5, <2>6, <2>7
<1> QED
  BY <1>1, <1>2 DEF try_connect

\* What a step has to preserve, given that TypeInv is.
BooksStep == /\ NumDownExact'
             /\ \A x \in Daemons : DmnInv(x)'
             /\ sent' => sent \/ numdown' = 0

LEMMA DaemonDownBooks ==
    ASSUME ~DelayedConnect, BooksInv, NEW d \in Daemons, IS_UP(d), NEW b, NEW p,
           Less(b, p) = Only("NULL"), daemon_down(d, b, p)
    PROVE  BooksStep
<1> DEFINE D == {x \in Daemons : ~IS_UP(x)}
<1>1. IsFiniteSet(D) /\ d \notin D
  BY WatchAssumption, FS_Subset
<1>2. Cardinality(D \cup {d}) = numdown + 1
  BY <1>1, FS_AddElement DEF BooksInv, NumDownExact
<1>3. try_connect(d, "DOWN", FALSE, FALSE, Only("NULL"), Cardinality(D \cup {d}))
  BY <1>2 DEF daemon_down
<1> QED
  BY <1>3, TryConnectBooks DEF BooksStep

\* try_connect() of a daemon that is down already.
LEMMA RetryBooks ==
    ASSUME ~DelayedConnect, BooksInv, NEW d \in Daemons, ~IS_UP(d),
           try_connect(d, "DOWN", t_read[d], t_write[d], Only("NULL"), numdown)
    PROVE  BooksStep
<1>1. t_read[d] = FALSE /\ t_write[d] = FALSE
  BY DEF BooksInv, DmnInv, TypeInv, DmnType
<1>2. {x \in Daemons : ~IS_UP(x)} \cup {d} = {x \in Daemons : ~IS_UP(x)}
  OBVIOUS
<1>3. numdown = Cardinality({x \in Daemons : ~IS_UP(x)} \cup {d})
  BY <1>2 DEF BooksInv, NumDownExact
<1> QED
  BY <1>1, <1>3, TryConnectBooks DEF BooksStep

\* A handler after which d is up as it was before.
LEMMA StillUpBooks ==
    ASSUME BooksInv, NEW d \in Daemons, IS_UP(d), NEW v \in States, IsUpState(v), NEW w,
           state' = [state EXCEPT ![d] = v],
           t_wakeup' = [t_wakeup EXCEPT ![d] = w],
           pending' = [pending EXCEPT ![d] = Only(w)],
           w \in {"send_echo", "no_answer", "unresponsive", "NULL"},
           w = "unresponsive" => v = "UNRESPONSIVE",
           v = "UP" /\ DoPing => w \in {"send_echo", "no_answer"},
           v = "UNRESPONSIVE" /\ UnresponsiveRestart => w # "NULL",
           UNCHANGED <<t_read, t_write, numdown, sent>>
    PROVE  BooksStep
<1> USE DEF BooksInv, TypeInv
<1>1. {x \in Daemons : ~IS_UP(x)'} = {x \in Daemons : ~IS_UP(x)}
  BY DEF IS_UP, IsUpState, DmnType
<1>2. NumDownExact'
  BY <1>1 DEF NumDownExact
<1>3. state'[d] = v /\ t_wakeup'[d] = w /\ pending'[d] = Only(w)
  BY DEF DmnType
<1>4. DmnInv(d)'
  BY <1>3 DEF DmnInv, IS_UP, IsUpState
<1>5. ASSUME NEW x \in Daemons, x # d PROVE DmnInv(x)'
  BY <1>5, OthersKept DEF DmnType
<1> QED
  BY <1>2, <1>4, <1>5 DEF BooksStep

LEMMA TimersBooks ==
    ASSUME ~DelayedConnect, BooksInv, NEW d \in Daemons, Timers(d)
    PROVE  BooksStep
<1> DEFINE q == Only("NULL")
<1>0. /\ state \in [Daemons -> States] /\ t_wakeup \in [Daemons -> Wakeups \cup {"NULL"}]
      /\ pending \in [Daemons -> [Wakeups -> Nat]] /\ DmnInv(d)
  BY DEF BooksInv, TypeInv, DmnType
<1>1. CASE wakeup_init(d)
  <2>1. state[d] = "INIT" /\ AfterFiring(d, "init") = q
    BY <1>0, <1>1, BooksQueue DEF wakeup_init, DmnInv, Wakeups
  <2> QED
    BY <1>1, <2>1, RetryBooks DEF wakeup_init, IS_UP, IsUpState
<1>2. CASE wakeup_down(d)
  <2>1. state[d] = "DOWN" /\ AfterFiring(d, "down") = q
    BY <1>0, <1>2, BooksQueue DEF wakeup_down, DmnInv, Wakeups
  <2> QED
    BY <1>2, <2>1, RetryBooks DEF wakeup_down, IS_UP, IsUpState
<1>3. CASE wakeup_connect_hanging(d)
  BY <1>0, <1>3, BooksQueue DEF wakeup_connect_hanging, DmnInv, Wakeups
<1>4. CASE wakeup_send_echo(d)
  <2>1. t_wakeup[d] = "send_echo" /\ AfterFiring(d, "send_echo") = q
    BY <1>4, BooksQueue DEF wakeup_send_echo, Wakeups
  <2>2. IS_UP(d) /\ state[d] \in States
    BY <1>0, <2>1 DEF DmnInv, IS_UP, IsUpState, States
  <2>3. CASE daemon_down(d, AfterFiring(d, "send_echo"), "NULL")
    BY <2>1, <2>2, <2>3, DaemonDownBooks DEF Less
  <2>4. CASE ~daemon_down(d, AfterFiring(d, "send_echo"), "NULL")
    <3>1. pending' = [pending EXCEPT ![d] = Only("no_answer")]
      BY <1>4, <2>1, <2>4, OnlyQueue DEF wakeup_send_echo, Wakeups
    <3>2. state' = [state EXCEPT ![d] = state[d]]
      BY <1>0, <1>4, <2>4 DEF wakeup_send_echo
    <3> QED
      BY <1>4, <2>2, <2>4, <3>1, <3>2, StillUpBooks DEF wakeup_send_echo, IS_UP
  <2> QED
    BY <2>3, <2>4
<1>5. CASE wakeup_no_answer(d)
  <2>1. t_wakeup[d] = "no_answer" /\ AfterFiring(d, "no_answer") = q
    BY <1>5, BooksQueue DEF wakeup_no_answer, Wakeups
  <2>2. IS_UP(d)
    BY <1>0, <2>1 DEF DmnInv, IS_UP, IsUpState, States
  <2>3. CASE UnresponsiveRestart
    <3>1. /\ pending' = [pending EXCEPT ![d] = Only("unresponsive")]
          /\ t_wakeup' = [t_wakeup EXCEPT ![d] = "unresponsive"]
      BY <1>5, <2>1, <2>3, OnlyQueue DEF wakeup_no_answer, Wakeups
    <3> QED
      BY <1>5, <2>2, <3>1, StillUpBooks DEF wakeup_no_answer, IsUpState, States
  <2>4. CASE ~UnresponsiveRestart
    <3>1. /\ pending' = [pending EXCEPT ![d] = q]
          /\ t_wakeup' = [t_wakeup EXCEPT ![d] = "NULL"]
      BY <1>5, <2>1, <2>4 DEF wakeup_no_answer
    <3> QED
      BY <1>5, <2>2, <2>4, <3>1, StillUpBooks DEF wakeup_no_answer, IsUpState, States
  <2> QED
    BY <2>3, <2>4
<1>6. CASE wakeup_unresponsive(d)
  <2>1. t_wakeup[d] = "unresponsive"
    BY <1>6, BooksQueue DEF wakeup_unresponsive, Wakeups
  <2>2. state[d] = "UNRESPONSIVE" /\ pending[d] = Only("unresponsive")
    BY <1>0, <2>1 DEF DmnInv
  <2>3. /\ state' = [state EXCEPT ![d] = "UNRESPONSIVE"]
        /\ pending' = [pending EXCEPT ![d] = Only("unresponsive")]
        /\ t_wakeup' = [t_wakeup EXCEPT ![d] = "unresponsive"]
    BY <1>0, <1>6, <2>2 DEF wakeup_unresponsive
  <2> QED
    BY <1>6, <2>2, <2>3, StillUpBooks DEF wakeup_unresponsive, IS_UP, IsUpState, States
<1> QED
  BY <1>1, <1>2, <1>3, <1>4, <1>5, <1>6 DEF Timers

LEMMA SocketsBooks ==
    ASSUME ~DelayedConnect, BooksInv, NEW d \in Daemons, Sockets(d)
    PROVE  BooksStep
<1>0. /\ state \in [Daemons -> States] /\ DmnInv(d)
  BY DEF BooksInv, TypeInv, DmnType
<1>1. handle_read_down(d) \/ handle_read_echo(d)
  BY <1>0 DEF Sockets, check_connect, DmnInv
<1>2. IS_UP(d)
  BY <1>0, <1>1 DEF handle_read_down, handle_read_echo, DmnInv
<1>3. CASE handle_read_down(d)
  <2>1. Less(pending[d], t_wakeup[d]) = Only("NULL")
    BY BooksQueue DEF AfterCancel
  <2> QED
    BY <1>2, <1>3, <2>1, DaemonDownBooks DEF handle_read_down
<1>4. CASE handle_read_echo(d)
  <2>1. pending' = [pending EXCEPT ![d] = Only("send_echo")]
    BY <1>4, BooksQueue, OnlyQueue DEF handle_read_echo, Wakeups
  <2>2. CASE state' = [state EXCEPT ![d] = "UP"]
    BY <1>2, <1>4, <2>1, <2>2, StillUpBooks DEF handle_read_echo, IsUpState, States
  <2>3. CASE UNCHANGED state
    <3>1. state' = [state EXCEPT ![d] = state[d]] /\ state[d] \in States
      BY <1>0, <2>3
    <3> QED
      BY <1>2, <1>4, <2>1, <3>1, StillUpBooks DEF handle_read_echo, IS_UP
  <2> QED
    BY <1>4, <2>2, <2>3 DEF handle_read_echo
<1> QED
  BY <1>1, <1>3, <1>4

LEMMA BooksNext ==
    ASSUME ~DelayedConnect, BooksInv, [Next]_vars
    PROVE  BooksInv' /\ BooksStep
<1>1. TypeInv'
  BY TypeNext DEF BooksInv
<1>2. ASSUME UNCHANGED dmnVars
      PROVE  BooksStep
  BY <1>2 DEF dmnVars, BooksInv, BooksStep, DmnInv, NumDownExact, IS_UP
<1>3. ASSUME NEW d \in Daemons, Timers(d) \/ Sockets(d)
      PROVE  BooksStep
  BY <1>3, TimersBooks, SocketsBooks
<1>4. (\E d \in Daemons : Timers(d) \/ Sockets(d)) \/ UNCHANGED dmnVars
  BY DEF Next, restart_kill, sigevent_process, config_write_integrated, sigchild, ChildExits,
         Tick, vars
<1>5. BooksStep
  BY <1>2, <1>3, <1>4
<1> QED
  BY <1>1, <1>5 DEF BooksInv, BooksStep

LEMMA BooksAlways == ASSUME ~DelayedConnect PROVE Spec => []BooksInv
<1>1. Init => BooksInv
  BY TypeInit, BooksInit DEF BooksInv
<1>2. BooksInv /\ [Next]_vars => BooksInv'
  BY BooksNext
<1> QED
  BY <1>1, <1>2, PTL DEF Spec

\* gs.numdown never drifts: for any number of daemons, any mode and any
\* options it is the number of daemons that are not up, unless connect(2) on a
\* vty socket can report that it is in progress.
THEOREM NumDownExactThm == ASSUME ~DelayedConnect PROVE Spec => []NumDownExact
<1>1. BooksInv => NumDownExact
  BY DEF BooksInv
<1> QED
  BY <1>1, BooksAlways, PTL

\* No daemon drops out of supervision, in any mode and with any options.
THEOREM StillWatchedThm == ASSUME ~DelayedConnect PROVE Spec => []StillWatched
<1>1. ASSUME BooksInv, NEW d \in Daemons
      PROVE  /\ (state[d] = "DOWN") => pending[d]["down"] > 0
             /\ state[d] # "CONNECTING"
             /\ IS_UP(d) => t_read[d]
             /\ (state[d] = "UP" /\ DoPing) => pending[d]["send_echo"] + pending[d]["no_answer"] > 0
             /\ (state[d] = "UNRESPONSIVE" /\ UnresponsiveRestart)
                    => \E w \in Wakeups : pending[d][w] > 0
  <2>1. /\ DmnInv(d)
        /\ t_wakeup[d] \in Wakeups \cup {"NULL"}
    BY <1>1 DEF BooksInv, TypeInv, DmnType
  <2>2. \A w \in Wakeups : pending[d][w] = IF w = t_wakeup[d] THEN 1 ELSE 0
    BY <2>1 DEF DmnInv, Only
  <2> QED
    BY <2>1, <2>2 DEF DmnInv, Wakeups
<1>2. BooksInv => StillWatched
  BY <1>1 DEF StillWatched
<1> QED
  BY <1>2, BooksAlways, PTL

\* wakeup_unresponsive() never finds what it calls impossible.
THEOREM UnresponsiveCancelledThm ==
    ASSUME ~DelayedConnect PROVE Spec => []UnresponsiveCancelled
<1>1. ASSUME BooksInv, NEW d \in Daemons, pending[d]["unresponsive"] > 0
      PROVE  state[d] = "UNRESPONSIVE"
  BY <1>1, BooksQueue DEF Fires, Wakeups, BooksInv, DmnInv
<1>2. BooksInv => UnresponsiveCancelled
  BY <1>1 DEF UnresponsiveCancelled
<1> QED
  BY <1>2, BooksAlways, PTL

\* daemon_send_ready() tells systemd only when every daemon is up.
THEOREM ReadyMeansAllUpThm == ASSUME ~DelayedConnect PROVE Spec => ReadyMeansAllUp
<1>1. ASSUME BooksInv, [Next]_vars
      PROVE  [(~sent /\ sent') => \A d \in Daemons : IS_UP(d)']_vars
  <2>1. SUFFICES ASSUME ~sent, sent'
                 PROVE  \A d \in Daemons : IS_UP(d)'
    OBVIOUS
  <2>2. BooksStep
    BY <1>1, BooksNext
  <2>3. Cardinality({d \in Daemons : ~IS_UP(d)'}) = 0
    BY <2>1, <2>2 DEF BooksStep, NumDownExact
  <2>4. IsFiniteSet({d \in Daemons : ~IS_UP(d)'})
    BY WatchAssumption, FS_Subset
  <2>5. {d \in Daemons : ~IS_UP(d)'} = {}
    BY <2>3, <2>4, FS_EmptySet
  <2> QED
    BY <2>5
<1> QED
  BY <1>1, BooksAlways, PTL DEF Spec, ReadyMeansAllUp
=============================================================================
