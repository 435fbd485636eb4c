-------------------------- MODULE WatchquaggaProofs --------------------------
(***************************************************************************)
(* What holds of watchquagga for every set of daemons and every setting of *)
(* its options.                                                            *)
(***************************************************************************)
EXTENDS Watchquagga, FiniteSetTheorems, TLAPS

-----------------------------------------------------------------------------
(* Jobs: outside the phased modes, restart_info and the kernel agree. *)

\* Outside the two phased modes find_child() looks where run_job() writes.
NotPhased == Mode \notin {"MODE_PHASED_ZEBRA_RESTART", "MODE_PHASED_ALL_RESTART"}

JobType ==
    /\ pid \in [Restarts -> BOOLEAN]
    /\ t_kill \in [Restarts -> BOOLEAN]
    /\ proc \in [Children -> {"none", "running", "zombie"}]
    /\ numpids \in Int

\* The inductive invariant: a restart_info has a pid and a kill timer exactly
\* as long as its child has not been reaped, only the restart_infos that
\* find_child() searches ever have one, and gs.numpids counts them.
JobInv ==
    /\ JobType
    /\ \A r \in Restarts : t_kill[r] = pid[r]
    /\ \A r \in Restarts : pid[r] <=> proc[r] # "none"
    /\ \A r \in Restarts : pid[r] => find_child(r)
    /\ NumPidsExact

LEMMA RestartsFinite == IsFiniteSet(Restarts)
BY WatchAssumption, FS_Singleton, FS_Union DEF Restarts

\* Starting a job for a restart_info that has none counts one more.
LEMMA CountStart ==
    ASSUME NEW p \in [Restarts -> BOOLEAN], NEW r \in Restarts, ~p[r]
    PROVE  Cardinality({x \in Restarts : [p EXCEPT ![r] = TRUE][x]})
             = Cardinality({x \in Restarts : p[x]}) + 1
<1> DEFINE S == {x \in Restarts : p[x]}
<1>1. IsFiniteSet(S)
  BY RestartsFinite, FS_Subset
<1>2. {x \in Restarts : [p EXCEPT ![r] = TRUE][x]} = S \cup {r}
  OBVIOUS
<1>3. r \notin S
  OBVIOUS
<1> QED
  BY <1>1, <1>2, <1>3, FS_AddElement

\* Reaping a job counts one less.
LEMMA CountReap ==
    ASSUME NEW p \in [Restarts -> BOOLEAN], NEW r \in Restarts, p[r]
    PROVE  Cardinality({x \in Restarts : [p EXCEPT ![r] = FALSE][x]})
             = Cardinality({x \in Restarts : p[x]}) - 1
<1> DEFINE S == {x \in Restarts : p[x]}
<1>1. IsFiniteSet(S)
  BY RestartsFinite, FS_Subset
<1>2. {x \in Restarts : [p EXCEPT ![r] = FALSE][x]} = S \ {r}
  OBVIOUS
<1>3. r \in S
  OBVIOUS
<1> QED
  BY <1>1, <1>2, <1>3, FS_RemoveElement

LEMMA JobInit == Init => JobInv
<1> SUFFICES ASSUME Init PROVE JobInv
  OBVIOUS
<1>1. {r \in Restarts : pid[r]} = {}
  BY DEF Init
<1>2. NumPidsExact
  BY <1>1, FS_EmptySet DEF Init, NumPidsExact
<1> QED
  BY <1>2 DEF Init, JobInv, JobType, Children

\* run_job() on a restart_info that find_child() searches.
LEMMA RunJob ==
    ASSUME JobInv, NEW r \in Restarts, find_child(r), run_job(r)
    PROVE  JobInv'
<1>1. CASE UNCHANGED <<pid, t_kill, numpids, proc>>
  BY <1>1 DEF JobInv, JobType, NumPidsExact, find_child
<1>2. CASE /\ ~pid[r]
           /\ pid' = [pid EXCEPT ![r] = TRUE]
           /\ t_kill' = [t_kill EXCEPT ![r] = TRUE]
           /\ numpids' = numpids + 1
           /\ proc' = [proc EXCEPT ![r] = "running"]
  <2>1. JobType'
    BY <1>2 DEF JobInv, JobType, Children
  <2>2. NumPidsExact'
    BY <1>2, CountStart DEF JobInv, JobType, NumPidsExact
  <2>3. ASSUME NEW x \in Restarts
        PROVE  /\ t_kill'[x] = pid'[x]
               /\ pid'[x] <=> proc'[x] # "none"
               /\ pid'[x] => find_child(x)
    <3>1. CASE x = r
      BY <1>2, <3>1 DEF JobInv, JobType, Children
    <3>2. CASE x # r
      BY <1>2, <3>2 DEF JobInv, JobType, Children
    <3> QED
      BY <3>1, <3>2
  <2> QED
    BY <2>1, <2>2, <2>3 DEF JobInv, find_child
<1> QED
  BY <1>1, <1>2 DEF run_job, NoJob, jobVars

LEMMA TryRestart ==
    ASSUME NotPhased, JobInv, NEW d \in Daemons, try_restart(d)
    PROVE  JobInv'
<1>1. d # "all"
  BY WatchAssumption
<1>2. CASE NoJob
  BY <1>2 DEF NoJob, jobVars, JobInv, JobType, NumPidsExact, find_child
<1>3. CASE Mode = "MODE_GLOBAL_RESTART" /\ run_job("all")
  BY <1>3, RunJob DEF find_child, Restarts
<1>4. CASE Mode = "MODE_SEPARATE_RESTART" /\ run_job(d)
  BY <1>1, <1>4, RunJob DEF find_child, Restarts
<1> QED
  BY <1>2, <1>3, <1>4, WatchAssumption DEF try_restart, NotPhased, Modes

LEMMA JobUnchanged ==
    ASSUME JobInv, UNCHANGED <<pid, t_kill, numpids, proc>>
    PROVE  JobInv'
BY DEF JobInv, JobType, NumPidsExact, find_child

LEMMA JobKill ==
    ASSUME JobInv, NEW r \in Restarts, restart_kill(r)
    PROVE  JobInv'
<1>1. CASE UNCHANGED proc
  BY <1>1, JobUnchanged DEF restart_kill
<1>2. CASE proc[r] = "running" /\ proc' = [proc EXCEPT ![r] = "zombie"]
  <2>1. UNCHANGED <<pid, t_kill, numpids>>
    BY DEF restart_kill
  <2>2. \A x \in Restarts : proc'[x] # "none" <=> proc[x] # "none"
    BY <1>2 DEF JobInv, JobType, Children
  <2>3. JobType'
    BY <1>2, <2>1 DEF JobInv, JobType, Children
  <2> QED
    BY <2>1, <2>2, <2>3 DEF JobInv, NumPidsExact, find_child
<1> QED
  BY <1>1, <1>2 DEF restart_kill

LEMMA JobExits ==
    ASSUME JobInv, NEW c \in Children, ChildExits(c)
    PROVE  JobInv'
<1>1. UNCHANGED <<pid, t_kill, numpids>>
  BY DEF ChildExits, jobVars
<1>2. \A x \in Restarts : proc'[x] # "none" <=> proc[x] # "none"
  BY DEF ChildExits, JobInv, JobType, Children
<1>3. JobType'
  BY <1>1 DEF ChildExits, JobInv, JobType, Children
<1> QED
  BY <1>1, <1>2, <1>3 DEF JobInv, NumPidsExact, find_child

LEMMA WriteIsNoRestart == "write" \notin Restarts
BY WatchAssumption DEF Restarts

\* A step that changes proc only for the child of "write integrated".
LEMMA JobWrite ==
    ASSUME JobInv, UNCHANGED <<pid, t_kill, numpids>>,
           NEW v \in {"none", "running"}, proc' = [proc EXCEPT !["write"] = v]
    PROVE  JobInv'
<1>1. \A x \in Restarts : proc'[x] = proc[x]
  BY WriteIsNoRestart DEF JobInv, JobType, Children
<1>2. JobType'
  BY DEF JobInv, JobType, Children
<1> QED
  BY <1>1, <1>2 DEF JobInv, NumPidsExact, find_child

LEMMA JobReap ==
    ASSUME JobInv, sigchild
    PROVE  JobInv'
<1>1. CASE UNCHANGED <<jobVars, proc>>
  BY <1>1, JobUnchanged DEF jobVars
<1>2. ASSUME NEW c \in Children, proc[c] = "zombie", c # "write", find_child(c),
             pid' = [pid EXCEPT ![c] = FALSE],
             t_kill' = [t_kill EXCEPT ![c] = FALSE],
             numpids' = numpids - 1,
             proc' = [proc EXCEPT ![c] = "none"]
      PROVE  JobInv'
  <2>1. c \in Restarts /\ pid[c]
    BY <1>2 DEF Children, JobInv
  <2>2. JobType'
    BY <1>2 DEF JobInv, JobType, Children
  <2>3. NumPidsExact'
    BY <1>2, <2>1, CountReap DEF JobInv, JobType, NumPidsExact
  <2>4. ASSUME NEW x \in Restarts
        PROVE  /\ t_kill'[x] = pid'[x]
               /\ pid'[x] <=> proc'[x] # "none"
               /\ pid'[x] => find_child(x)
    <3>1. CASE x = c
      BY <1>2, <3>1 DEF JobInv, JobType, Children
    <3>2. CASE x # c
      BY <1>2, <3>2 DEF JobInv, JobType, Children
    <3> QED
      BY <3>1, <3>2
  <2> QED
    BY <2>2, <2>3, <2>4 DEF JobInv, find_child
<1>3. ASSUME proc["write"] = "zombie", UNCHANGED <<pid, t_kill, numpids>>,
             proc' = [proc EXCEPT !["write"] = "none"]
      PROVE  JobInv'
  BY <1>3, JobWrite
<1>4. \A c \in Children : proc[c] = "zombie" /\ c # "write" => find_child(c)
  BY DEF JobInv, Children
<1> QED
  BY <1>1, <1>2, <1>3, <1>4 DEF sigchild

LEMMA JobNext ==
    ASSUME NotPhased, JobInv, [Next]_vars
    PROVE  JobInv'
<1>1. ASSUME NEW d \in Daemons, Timers(d)
      PROVE  JobInv'
  <2>1. CASE wakeup_init(d)
    BY <2>1, JobUnchanged DEF wakeup_init, jobVars, envVars
  <2>2. CASE wakeup_down(d)
    <3>1. CASE try_restart(d)
      BY <3>1, TryRestart
    <3>2. CASE NoJob
      BY <3>2, JobUnchanged DEF NoJob, jobVars
    <3> QED
      BY <2>2, <3>1, <3>2 DEF wakeup_down
  <2>3. CASE wakeup_connect_hanging(d)
    BY <2>3, JobUnchanged DEF wakeup_connect_hanging, jobVars, envVars
  <2>4. CASE wakeup_send_echo(d)
    BY <2>4, JobUnchanged DEF wakeup_send_echo, jobVars, envVars
  <2>5. CASE wakeup_no_answer(d)
    <3>1. CASE try_restart(d)
      BY <3>1, TryRestart
    <3>2. CASE NoJob
      BY <3>2, JobUnchanged DEF NoJob, jobVars
    <3> QED
      BY <2>5, <3>1, <3>2 DEF wakeup_no_answer
  <2>6. CASE wakeup_unresponsive(d)
    <3>1. CASE try_restart(d)
      BY <3>1, TryRestart
    <3>2. CASE NoJob
      BY <3>2, JobUnchanged DEF NoJob, jobVars
    <3> QED
      BY <2>6, <3>1, <3>2 DEF wakeup_unresponsive
  <2> QED
    BY <1>1, <2>1, <2>2, <2>3, <2>4, <2>5, <2>6 DEF Timers
<1>2. ASSUME NEW d \in Daemons, Sockets(d)
      PROVE  JobInv'
  BY <1>2, JobUnchanged
     DEF Sockets, check_connect, handle_read_down, handle_read_echo, jobVars, envVars
<1>3. ASSUME NEW r \in Restarts, restart_kill(r)
      PROVE  JobInv'
  BY <1>3, JobKill
<1>4. CASE sigevent_process
  BY <1>4, JobUnchanged DEF sigevent_process, jobVars
<1>5. CASE config_write_integrated
  BY <1>5, JobWrite DEF config_write_integrated
<1>6. CASE sigchild
  BY <1>6, JobReap
<1>7. ASSUME NEW c \in Children, ChildExits(c)
      PROVE  JobInv'
  BY <1>7, JobExits
<1>8. CASE Tick
  BY <1>8, JobUnchanged DEF Tick, envVars
<1>9. CASE UNCHANGED vars
  BY <1>9, JobUnchanged DEF vars, jobVars, envVars
<1> QED
  BY <1>1, <1>2, <1>3, <1>4, <1>5, <1>6, <1>7, <1>8, <1>9 DEF Next

\* Outside the phased modes restart_kill() never signals a process that has
\* been reaped, whatever the daemons, the commands and the operator do.
THEOREM KillsOwnChildThm ==
    ASSUME NotPhased PROVE Spec => []KillsOwnChild
<1>1. Init => JobInv
  BY JobInit
<1>2. JobInv /\ [Next]_vars => JobInv'
  BY JobNext
<1>3. JobInv => KillsOwnChild
  BY DEF JobInv, KillsOwnChild
<1> QED
  BY <1>1, <1>2, <1>3, PTL DEF Spec

\* Outside the phased modes gs.numpids is the number of unreaped jobs.
THEOREM NumPidsExactThm ==
    ASSUME NotPhased PROVE Spec => []NumPidsExact
<1>1. Init => JobInv
  BY JobInit
<1>2. JobInv /\ [Next]_vars => JobInv'
  BY JobNext
<1>3. JobInv => NumPidsExact
  BY DEF JobInv
<1> QED
  BY <1>1, <1>2, <1>3, PTL DEF Spec
=============================================================================
