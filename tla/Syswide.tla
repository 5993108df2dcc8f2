------------------------------ MODULE Syswide ------------------------------
(***************************************************************************)
(* The system-wide monitoring mode (src/modules/pmcs/syswide.c): one       *)
(* monitor process gets, at each expiration of a kernel timer, a sample of *)
(* the counters of every CPU.                                              *)
(*                                                                         *)
(* A critical section of syswide_ctl.lock is one step.  What is not under  *)
(* the lock is a step of its own: the function that on_each_cpu runs on    *)
(* each CPU, the cancellation of the timer, and the unlocked test of       *)
(* syswide_monitoring_enabled in the timer and in the context switches.  A *)
(* context switch runs with interrupts disabled, so on_each_cpu does not   *)
(* get through to a CPU that is in the middle of one.                      *)
(***************************************************************************)
EXTENDS Integers, FiniteSets

CONSTANTS
  Proc,               \* processes that use the mode
  CPU,                \* online CPUs
  PmcUser,            \* processes that configured PMCs; the others have only virtual counters
  DISABLED, STARTING, STOPPING,    \* the states of syswide_monitor that are not a process
  Nobody,             \* no process
  StartsMayFail,      \* may syswide_monitoring_start meet one of its errors?
  OnlyMonitorStops    \* do processes stop the mode only when they started it?

ASSUME SyswideAssumption ==
  /\ PmcUser \subseteq Proc
  /\ {DISABLED, STARTING, STOPPING} \cap Proc = {}
  /\ DISABLED # STARTING /\ DISABLED # STOPPING /\ STARTING # STOPPING
  /\ Nobody \notin Proc
  /\ StartsMayFail \in BOOLEAN
  /\ OnlyMonitorStops \in BOOLEAN

VARIABLES
  syswide_monitor,      \* a process, or DISABLED, STARTING or STOPPING
  pmc_samples_buffer,   \* whose buffer is shared with the timer, or Nobody
  refs,                 \* references to the buffer of each process
  pause_syswide_monitor,
  timer,                \* "idle", "armed", or "sampling" while its handler runs
  toSample,             \* CPUs that the handler's on_each_cpu has not reached yet
  lock,                 \* who holds syswide_ctl.lock between steps, or Nobody
  pc,                   \* what each process does: see TypeOK
  toVisit,              \* CPUs that the on_each_cpu of start or stop has not reached yet
  leaving,              \* processes executing mod_exit_thread
  retval,               \* what the last call of each process returned
  cur_config,           \* whose configuration each CPU was set up with, or Nobody
  thread,               \* is a thread monitored per-thread running on each CPU?
  refreshing,           \* is a switch-out past its test and about to read the counters?
  pmcs                  \* what the counters of each CPU count: a process (system-wide),
                        \*   "thread" (per-thread) or "stopped"

sessionState == <<syswide_monitor, pmc_samples_buffer, refs>>
timerState   == <<timer, toSample>>
procState    == <<pc, toVisit, leaving>>
cpuState     == <<cur_config, thread, refreshing, pmcs>>
vars == <<sessionState, pause_syswide_monitor, timerState, lock, procState, retval,
          cpuState>>

TypeOK ==
  /\ syswide_monitor \in Proc \cup {DISABLED, STARTING, STOPPING}
  /\ pmc_samples_buffer \in Proc \cup {Nobody}
  /\ refs \in [Proc -> Nat]
  /\ pause_syswide_monitor \in BOOLEAN
  /\ timer \in {"idle", "armed", "sampling"}
  /\ toSample \in SUBSET CPU
  /\ lock \in Proc \cup {Nobody}
     \* "starting": in on_each_cpu(start_cpu); "stopping": in del_timer_sync;
     \* "quiescing": in on_each_cpu(stop_cpu); "relock": about to take a lock it has
  /\ pc \in [Proc -> {"user", "starting", "stopping", "quiescing", "relock", "gone"}]
  /\ toVisit \in [Proc -> SUBSET CPU]
  /\ leaving \in SUBSET Proc
  /\ retval \in [Proc -> {"0", "EBUSY", "EINVAL", "error"}]
  /\ cur_config \in [CPU -> Proc \cup {Nobody}]
  /\ thread \in [CPU -> BOOLEAN]
  /\ refreshing \in [CPU -> BOOLEAN]
  /\ pmcs \in [CPU -> Proc \cup {"thread", "stopped"}]

-----------------------------------------------------------------------------
syswide_monitoring_enabled == syswide_monitor \in Proc

(* syswide_monitoring_init; every process has a buffer of its own.         *)
Init ==
  /\ syswide_monitor = DISABLED
  /\ pmc_samples_buffer = Nobody
  /\ refs = [p \in Proc |-> 1]
  /\ pause_syswide_monitor = FALSE
  /\ timer = "idle"
  /\ toSample = {}
  /\ lock = Nobody
  /\ pc = [p \in Proc |-> "user"]
  /\ toVisit = [p \in Proc |-> {}]
  /\ leaving = {}
  /\ retval = [p \in Proc |-> "0"]
  /\ cur_config = [c \in CPU |-> Nobody]
  /\ thread = [c \in CPU |-> FALSE]
  /\ refreshing = [c \in CPU |-> FALSE]
  /\ pmcs = [c \in CPU |-> "stopped"]

-----------------------------------------------------------------------------
(* syswide_monitoring_start.                                               *)

InUser(p) == pc[p] = "user" /\ p \notin leaving

Available_NotEnabled == ~syswide_monitoring_enabled
Available == syswide_monitor = DISABLED

StartBusy(p) ==
  /\ InUser(p)
  /\ lock = Nobody
  /\ ~Available
  /\ retval' = [retval EXCEPT ![p] = "EBUSY"]
  /\ UNCHANGED <<sessionState, pause_syswide_monitor, timerState, lock, procState,
                 cpuState>>

(* The virtual counters are not available (no CPU is set up), one of the   *)
(* CPUs has an EBS experiment (those before it are set up), or its set     *)
(* cannot be cloned (it is left empty).  The state stays STARTING.         *)
StartFails(p) ==
  /\ StartsMayFail
  /\ InUser(p)
  /\ lock = Nobody
  /\ Available
  /\ syswide_monitor' = STARTING
  /\ \E done \in SUBSET CPU : \E bad \in CPU \ done : \E left \in {cur_config[bad], Nobody} :
       cur_config' = [c \in CPU |-> IF c \in done THEN p
                                    ELSE IF c = bad THEN left ELSE cur_config[c]]
  /\ retval' = [retval EXCEPT ![p] = "error"]
  /\ UNCHANGED <<pmc_samples_buffer, refs, pause_syswide_monitor, timerState, lock,
                 procState, thread, refreshing, pmcs>>

Share_NoReference(p) == pmc_samples_buffer' = p /\ UNCHANGED refs

(* Share the buffer of the monitor and take a reference to it.             *)
Share(p) ==
  /\ pmc_samples_buffer' = p
  /\ refs' = [refs EXCEPT ![p] = @ + 1]

StartAccepted(p) ==
  /\ InUser(p)
  /\ lock = Nobody
  /\ Available
  /\ syswide_monitor' = STARTING
  /\ cur_config' = [c \in CPU |-> p]
  /\ Share(p)
  /\ pc' = [pc EXCEPT ![p] = "starting"]
  /\ toVisit' = [toVisit EXCEPT ![p] = CPU]
  /\ UNCHANGED <<pause_syswide_monitor, timerState, lock, leaving, retval, thread,
                 refreshing, pmcs>>

UsesPmcs(c) == cur_config[c] \in PmcUser

(* syswide_monitoring_start_cpu and syswide_monitoring_stop_cpu, which     *)
(* touch the counters only if the CPU has a configuration with PMCs.       *)
VisitCpu(p, c) ==
  /\ pc[p] \in {"starting", "quiescing"}
  /\ c \in toVisit[p]
  /\ ~refreshing[c]
  /\ toVisit' = [toVisit EXCEPT ![p] = @ \ {c}]
  /\ pmcs' = IF ~UsesPmcs(c) THEN pmcs
             ELSE [pmcs EXCEPT ![c] = IF pc[p] = "starting" THEN p ELSE "stopped"]
  /\ UNCHANGED <<sessionState, pause_syswide_monitor, timerState, lock, pc, leaving,
                 retval, cur_config, thread, refreshing>>

StartDone(p) ==
  /\ pc[p] = "starting"
  /\ toVisit[p] = {}
  /\ lock = Nobody
  /\ syswide_monitor' = p
  /\ pause_syswide_monitor' = FALSE
  /\ timer' = "armed"
  /\ pc' = [pc EXCEPT ![p] = "user"]
  /\ retval' = [retval EXCEPT ![p] = "0"]
  /\ UNCHANGED <<pmc_samples_buffer, refs, toSample, lock, toVisit, leaving, cpuState>>

-----------------------------------------------------------------------------
(* syswide_monitoring_stop, from /proc or, for the monitor, when it exits. *)

MayStop(p) ==
  /\ pc[p] = "user"
  /\ p \in leaving => syswide_monitor = p       \* is_syswide_monitor

Unlock_Later(p) == lock' = p
Unlock(p) == lock' = Nobody

StopBegins(p) ==
  /\ MayStop(p)
  /\ lock = Nobody
  /\ syswide_monitor = p
  /\ syswide_monitor' = STOPPING
  /\ Unlock(p)
  /\ pc' = [pc EXCEPT ![p] = "stopping"]
  /\ UNCHANGED <<pmc_samples_buffer, refs, pause_syswide_monitor, timerState, toVisit,
                 leaving, retval, cpuState>>

(* Anybody else is refused, but the exit label takes the lock again        *)
(* instead of releasing it.                                                *)
StopRefused(p) ==
  /\ ~OnlyMonitorStops
  /\ MayStop(p)
  /\ lock = Nobody
  /\ syswide_monitor # p
  /\ lock' = p
  /\ pc' = [pc EXCEPT ![p] = "relock"]
  /\ UNCHANGED <<sessionState, pause_syswide_monitor, timerState, toVisit, leaving,
                 retval, cpuState>>

HandlerGone_Pending == TRUE
HandlerGone == timer # "sampling"

(* del_timer_sync waits for a handler that is running.                     *)
StopTimer(p) ==
  /\ pc[p] = "stopping"
  /\ HandlerGone
  /\ timer' = IF timer = "armed" THEN "idle" ELSE timer
  /\ pc' = [pc EXCEPT ![p] = "quiescing"]
  /\ toVisit' = [toVisit EXCEPT ![p] = CPU]
  /\ UNCHANGED <<sessionState, pause_syswide_monitor, toSample, lock, leaving, retval,
                 cpuState>>

AllVisited_NotWaited(p) == TRUE
AllVisited(p) == toVisit[p] = {}

StopDone(p) ==
  /\ pc[p] = "quiescing"
  /\ AllVisited(p)
  /\ lock = Nobody
  /\ syswide_monitor' = DISABLED
  /\ refs' = [refs EXCEPT ![pmc_samples_buffer] = @ - 1]
  /\ pmc_samples_buffer' = Nobody
  /\ pc' = [pc EXCEPT ![p] = "user"]
  /\ retval' = [retval EXCEPT ![p] = "0"]
  /\ UNCHANGED <<pause_syswide_monitor, timerState, lock, toVisit, leaving, cpuState>>

-----------------------------------------------------------------------------
(* syswide_monitoring_pause and syswide_monitoring_resume.                 *)
Pause(p, flag) ==
  /\ InUser(p)
  /\ lock = Nobody
  /\ retval' = [retval EXCEPT ![p] = IF syswide_monitoring_enabled THEN "0" ELSE "EINVAL"]
  /\ pause_syswide_monitor' = IF syswide_monitoring_enabled THEN flag
                              ELSE pause_syswide_monitor
  /\ UNCHANGED <<sessionState, timerState, lock, procState, cpuState>>

(* mod_exit_thread: a monitor stops the mode first (StopBegins); then the  *)
(* process drops its own reference to its buffer.                          *)
ExitBegins(p) ==
  /\ InUser(p)
  /\ leaving' = leaving \cup {p}
  /\ UNCHANGED <<sessionState, pause_syswide_monitor, timerState, lock, pc, toVisit,
                 retval, cpuState>>

ExitEnds(p) ==
  /\ p \in leaving
  /\ pc[p] = "user"
  /\ syswide_monitor # p
  /\ pc' = [pc EXCEPT ![p] = "gone"]
  /\ refs' = [refs EXCEPT ![p] = @ - 1]
  /\ UNCHANGED <<syswide_monitor, pmc_samples_buffer, pause_syswide_monitor, timerState,
                 lock, toVisit, leaving, retval, cpuState>>

-----------------------------------------------------------------------------
(* fire_syswide_timer.                                                     *)

TimerFires ==
  /\ timer = "armed"
  /\ IF syswide_monitoring_enabled
     THEN timer' = "sampling" /\ toSample' = CPU
     ELSE timer' = "idle" /\ UNCHANGED toSample
  /\ UNCHANGED <<sessionState, pause_syswide_monitor, lock, procState, retval, cpuState>>

(* syswide_monitoring_sample_cpu.                                          *)
SampleCpu(c) ==
  /\ timer = "sampling"
  /\ c \in toSample
  /\ ~refreshing[c]
  /\ toSample' = toSample \ {c}
  /\ UNCHANGED <<sessionState, pause_syswide_monitor, timer, lock, procState, retval,
                 cpuState>>

Rearm_Never == "idle"
Rearm == IF syswide_monitoring_enabled THEN "armed" ELSE "idle"

(* The handler stores a sample per CPU in the shared buffer, unless paused,*)
(* and sets the timer again if the mode is still enabled.                  *)
TimerDelivers ==
  /\ timer = "sampling"
  /\ toSample = {}
  /\ lock = Nobody
  /\ timer' = Rearm
  /\ UNCHANGED <<sessionState, pause_syswide_monitor, toSample, lock, procState, retval,
                 cpuState>>

(* The buffer TimerDelivers pushes into, if any.                           *)
Delivering ==
  /\ timer = "sampling"
  /\ toSample = {}
  /\ ~pause_syswide_monitor
  /\ syswide_monitoring_enabled
  /\ pmc_samples_buffer # Nobody

-----------------------------------------------------------------------------
(* Context switches of threads monitored per-thread: mod_save_callback_gen *)
(* and mod_restore_callback_gen, as far as the counters are concerned.     *)

SwitchIn(c) ==
  /\ ~thread[c]
  /\ thread' = [thread EXCEPT ![c] = TRUE]
  /\ pmcs' = IF syswide_monitoring_enabled THEN pmcs     \* syswide_monitoring_switch_in is 0
             ELSE [pmcs EXCEPT ![c] = "thread"]
  /\ UNCHANGED <<sessionState, pause_syswide_monitor, timerState, lock, procState, retval,
                 cur_config, refreshing>>

SwitchOut(c) ==
  /\ thread[c]
  /\ ~refreshing[c]
  /\ IF syswide_monitoring_enabled
     THEN refreshing' = [refreshing EXCEPT ![c] = TRUE] /\ UNCHANGED <<thread, pmcs>>
     ELSE /\ thread' = [thread EXCEPT ![c] = FALSE]
          /\ pmcs' = [pmcs EXCEPT ![c] = "stopped"]
          /\ UNCHANGED refreshing
  /\ UNCHANGED <<sessionState, pause_syswide_monitor, timerState, lock, procState, retval,
                 cur_config>>

(* refresh_counts_cpu; without PMCs it returns non-zero and the counters   *)
(* of the thread are saved and stopped.                                    *)
SwitchOutEnds(c) ==
  /\ refreshing[c]
  /\ refreshing' = [refreshing EXCEPT ![c] = FALSE]
  /\ thread' = [thread EXCEPT ![c] = FALSE]
  /\ pmcs' = IF UsesPmcs(c) THEN pmcs ELSE [pmcs EXCEPT ![c] = "stopped"]
  /\ UNCHANGED <<sessionState, pause_syswide_monitor, timerState, lock, procState, retval,
                 cur_config>>

-----------------------------------------------------------------------------
Start(p) == StartBusy(p) \/ StartFails(p) \/ StartAccepted(p) \/ StartDone(p)
Stop(p)  == StopBegins(p) \/ StopRefused(p) \/ StopTimer(p) \/ StopDone(p)
Exit(p)  == ExitBegins(p) \/ ExitEnds(p)

ProcStep(p) ==
  \/ Start(p)
  \/ Stop(p)
  \/ Exit(p)
  \/ \E flag \in BOOLEAN : Pause(p, flag)
  \/ \E c \in CPU : VisitCpu(p, c)

TimerStep == TimerFires \/ TimerDelivers \/ \E c \in CPU : SampleCpu(c)

SwitchStep(c) == SwitchIn(c) \/ SwitchOut(c) \/ SwitchOutEnds(c)

Next ==
  \/ \E p \in Proc : ProcStep(p)
  \/ TimerStep
  \/ \E c \in CPU : SwitchStep(c)

Spec == Init /\ [][Next]_vars

(* A started call is carried through and an armed timer expires; there is  *)
(* one call at a time (OneSession), so that the processes need no fairness *)
(* of their own.  A CPU takes a pending interrupt as soon as it enables    *)
(* interrupts, however often it switches context: hence strong fairness.   *)
Fairness ==
  /\ WF_vars(TimerFires \/ TimerDelivers)
  /\ WF_vars(\E p \in Proc : StartDone(p) \/ StopTimer(p) \/ StopDone(p))
  /\ \A c \in CPU :
       /\ WF_vars(SwitchOutEnds(c))
       /\ SF_vars(SampleCpu(c))
       /\ SF_vars(\E p \in Proc : VisitCpu(p, c))

FairSpec == Spec /\ Fairness

-----------------------------------------------------------------------------
InCall(p) == pc[p] \in {"starting", "stopping", "quiescing"}

(* At most one process is being served, starting or stopping, and it is    *)
(* the one whose buffer is shared: two concurrent calls never both pass.   *)
OneSession ==
  /\ \A p \in Proc : InCall(p) => pmc_samples_buffer = p /\ ~syswide_monitoring_enabled
  /\ syswide_monitoring_enabled => pmc_samples_buffer = syswide_monitor
  /\ pmc_samples_buffer # Nobody =>
       syswide_monitor = pmc_samples_buffer \/ InCall(pmc_samples_buffer)

(* syswide.c line 515: "Now the timer is not around it's safe to release   *)
(* the buffer".  Once the mode is off nothing of it is left: no timer, no  *)
(* handler, no context switch reading counters, no shared buffer; and each *)
(* buffer has just the reference of its process, if it still exists.       *)
QuietWhenDisabled ==
  /\ syswide_monitor = DISABLED =>
       /\ timer = "idle"
       /\ pmc_samples_buffer = Nobody
       /\ \A c \in CPU : ~refreshing[c]
  /\ \A p \in Proc :
       refs[p] = (IF pc[p] = "gone" THEN 0 ELSE 1)
                 + (IF pmc_samples_buffer = p THEN 1 ELSE 0)

(* setup_cpu_syswide_data frees and rebuilds the experiments of each CPU   *)
(* without the lock of the CPU: nobody may be using them then.             *)
SetupUndisturbed ==
  syswide_monitor = STARTING =>
    timer = "idle" /\ \A c \in CPU : ~refreshing[c]

(* Deliveries go to the buffer of the monitor, and to a live buffer.       *)
DeliversToMonitor ==
  Delivering => pmc_samples_buffer = syswide_monitor /\ refs[pmc_samples_buffer] >= 1

(* A refused stop has left the lock taken for ever: see RefusalReturns.    *)
LockLost == \E p \in Proc : pc[p] = "relock"

(* A stop that was accepted completes, although it waits for the timer's   *)
(* handler and for every CPU.                                              *)
StopCompletes ==
  \A p \in Proc :
    (pc[p] = "stopping") ~> (pc[p] = "user" /\ syswide_monitor # p) \/ LockLost

(* While a process is the monitor, and has not paused, the samples keep    *)
(* coming.                                                                 *)
KeepsDelivering ==
  \A p \in Proc :
    (syswide_monitor = p)
      ~> (Delivering \/ pause_syswide_monitor \/ syswide_monitor # p \/ LockLost)

(* The mode implements a service with a single owner.                      *)
Session == INSTANCE ExclusiveSession WITH
             owner <- pmc_samples_buffer, serving <- syswide_monitoring_enabled
ImplementsSession == Session!SessionSpec

(* syswide.c line 496: "Make sure the monitor is the only one invoking     *)
(* this function"; another process gets -EPERM, so it must get it.         *)
RefusalReturns == \A p \in Proc : ~(pc[p] = "relock" /\ lock = p)

(* syswide.c line 415: "Make sure system wide is not already in use": the  *)
(* call is refused with -EBUSY when some process has it.                   *)
BusyMeansInUse ==
  [][\A p \in Proc : retval'[p] = "EBUSY" /\ retval[p] # "EBUSY"
                       => pmc_samples_buffer # Nobody]_vars

(* mchw_core.c lines 886 and 967: "System-wide monitoring mode has a       *)
(* higher priority than per-thread modes": while it is enabled the         *)
(* counters count for the monitor.                                         *)
CountersAreMonitors ==
  syswide_monitor \in PmcUser => \A c \in CPU : pmcs[c] = syswide_monitor

(* syswide.c lines 341-344: a monitor that does not use PMCs "enables to   *)
(* use virtual counters in system-wide mode while using PMCs and other     *)
(* virtual counters in any of the available per-thread modes".             *)
ThreadsKeepCounters ==
  syswide_monitor \in Proc \ PmcUser =>
    \A c \in CPU : thread[c] => pmcs[c] = "thread"
=============================================================================
