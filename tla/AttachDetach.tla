------------------------------- MODULE AttachDetach -------------------------------
(***********************************************************************************)
(* Monitors that attach to a running thread and detach from it (pid_attach and     *)
(* pid_detach of /proc/pmc/monitor, mchw_core.c).  Attaching is a check of the     *)
(* target under its lock, the release of the lock, possibly the detachment of a    *)
(* monitor that no longer exists, and a set-up under the lock again.  Meanwhile    *)
(* other monitors do the same, the target exits, monitors exit, and the timer of   *)
(* TBS_USER_MODE goes off.                                                         *)
(*                                                                                 *)
(* Each monitor has one samples buffer; refs counts the references to it.          *)
(***********************************************************************************)
EXTENDS Integers, FiniteSets

CONSTANTS
    Monitor,    \* the monitor processes
    None,       \* no monitor
    Mode,       \* their profiling mode
    MaxRefs     \* bound on the references to a buffer, which may leak

ASSUME AttachAssumption ==
    /\ None \notin Monitor
    /\ Mode \in {"TBS_SCHED_MODE", "TBS_USER_MODE"}
    /\ MaxRefs \in Nat

VARIABLES
    overlap,    \* TRUE: calls overlap each other and the exit of the target
    target,     \* "alive", "exited" or "freed": its descriptor, and its profile
    enabled,    \* prof_enabled of the target
    pid_monitor,\* its monitor, or None
    buffer,     \* the monitor whose buffer it holds, or None
    config,     \* the monitor whose experiments it counts, or None
    armed,      \* its timer is pending
    refs,       \* references to the buffer of each monitor
    living,     \* the monitors that have not exited
    pc,         \* what each monitor is doing
    late        \* history: the target was attached after it had exited
attachVars == <<overlap, target, enabled, pid_monitor, buffer, config, armed, refs, living, pc, late>>

profile == <<enabled, pid_monitor, buffer, config, armed, refs>>

AttachInit ==
    /\ overlap \in BOOLEAN
    /\ target = "alive"
    /\ enabled = FALSE
    /\ pid_monitor = None /\ buffer = None /\ config = None
    /\ armed = FALSE
    /\ refs = [m \in Monitor |-> 1]
    /\ living = Monitor
    /\ pc = [m \in Monitor |-> "idle"]
    /\ late = FALSE

Idle == \A m \in Monitor : pc[m] = "idle"

\* A monitor may call: the target can be found by its pid, until it is reaped.
Callable(m) ==
    /\ m \in living /\ pc[m] = "idle"
    /\ target # "freed"
    /\ overlap \/ Idle

Goto(m, l) == pc' = [pc EXCEPT ![m] = l]

prof_uses_timer == Mode = "TBS_SCHED_MODE"

get_pmc_samples_buffer(r, m) == [r EXCEPT ![m] = @ + 1]
put_pmc_samples_buffer(r, b) == IF b = None THEN r ELSE [r EXCEPT ![b] = @ - 1]

-----------------------------------------------------------------------------------
(* Attaching.                                                                       *)

AttachCheck(m) ==
    /\ Callable(m)
    /\ LET attachable == ~enabled /\ pid_monitor = None /\ buffer = None
           try_force  == enabled /\ pid_monitor # None /\ buffer # None
       IN  Goto(m, IF attachable THEN "setup" ELSE IF try_force THEN "force" ELSE "idle")
    /\ UNCHANGED <<overlap, target, profile, living, late>>

\* Seeded fault: the monitor of the target is detached even if it exists.
ForceCheck_AnyMonitor(m) ==
    /\ pc[m] = "force"
    /\ Goto(m, IF pid_monitor = None THEN "setup" ELSE "force_disable")
    /\ UNCHANGED <<overlap, target, profile, living, late>>

\* pmctrack_task_detach_force: the monitor is read again, without the lock, and
\* looked up; one that exists keeps the target.
ForceCheck(m) ==
    /\ pc[m] = "force"
    /\ Goto(m, IF pid_monitor = None THEN "setup"
               ELSE IF pid_monitor \in living THEN "idle"
               ELSE "force_disable")
    /\ UNCHANGED <<overlap, target, profile, living, late>>

\* Seeded fault: the reference of the target to the buffer is not put.
TargetDisabled_KeepsReference ==
    /\ refs' = refs
    /\ buffer' = None
    /\ pid_monitor' = None
    /\ enabled' = FALSE
    /\ config' = None

\* Seeded fault: the monitor stays registered.
TargetDisabled_KeepsMonitor ==
    /\ refs' = put_pmc_samples_buffer(refs, buffer)
    /\ buffer' = None
    /\ pid_monitor' = pid_monitor
    /\ enabled' = FALSE
    /\ config' = None

TargetDisabled ==
    /\ refs' = put_pmc_samples_buffer(refs, buffer)
    /\ buffer' = None
    /\ pid_monitor' = None
    /\ enabled' = FALSE
    /\ config' = None

ForceDisable(m) ==
    /\ pc[m] = "force_disable"
    /\ TargetDisabled
    /\ Goto(m, "setup")
    /\ UNCHANGED <<overlap, target, armed, living, late>>

\* Seeded fault: the target takes the buffer without a reference.
TargetSetUp_NoReference(m) ==
    /\ refs' = refs
    /\ buffer' = m
    /\ config' = m
    /\ armed' = (armed \/ Mode = "TBS_USER_MODE")
    /\ enabled' = TRUE
    /\ pid_monitor' = m

TargetSetUp(m) ==
    /\ refs' = get_pmc_samples_buffer(refs, m)
    /\ buffer' = m
    /\ config' = m
    /\ armed' = (armed \/ Mode = "TBS_USER_MODE")
    /\ enabled' = TRUE
    /\ pid_monitor' = m

SetUp(m) ==
    /\ pc[m] = "setup"
    /\ refs[m] < MaxRefs
    /\ TargetSetUp(m)
    /\ Goto(m, "idle")
    /\ late' = (late \/ target = "exited")
    /\ UNCHANGED <<overlap, target, living>>

-----------------------------------------------------------------------------------
(* Detaching.                                                                       *)

DetachCheck(m) ==
    /\ Callable(m)
    /\ enabled /\ pid_monitor = m
    /\ Goto(m, "disable")
    /\ UNCHANGED <<overlap, target, profile, living, late>>

Disable(m) ==
    /\ pc[m] = "disable"
    /\ TargetDisabled
    /\ armed' = (armed /\ ~prof_uses_timer)
    /\ Goto(m, "idle")
    /\ UNCHANGED <<overlap, target, living, late>>

\* The target has changed CPU in the three tries of the remote call (-EAGAIN).
CallFails(m) ==
    /\ pc[m] \in {"setup", "disable", "force_disable"}
    /\ target = "alive"
    /\ Goto(m, "idle")
    /\ UNCHANGED <<overlap, target, living, profile, late>>

-----------------------------------------------------------------------------------
(* The target, the timer and the end of a monitor.                                  *)

TargetExits ==
    /\ target = "alive"
    /\ overlap \/ Idle
    /\ target' = "exited"
    /\ armed' = (armed /\ ~prof_uses_timer)
    /\ refs' = put_pmc_samples_buffer(refs, buffer)
    /\ buffer' = None
    /\ UNCHANGED <<overlap, enabled, pid_monitor, config, living, pc, late>>

\* The kernel frees the descriptor when nobody holds a reference to it, as a monitor
\* does throughout a call.  The buffer of the profile is not looked at: a reference it
\* has since the exit is lost.
mod_free_per_thread_data ==
    /\ target = "exited"
    /\ Idle
    /\ target' = "freed"
    /\ enabled' = FALSE
    /\ config' = None
    /\ UNCHANGED <<overlap, pid_monitor, buffer, armed, refs, living, pc, late>>

\* The handler takes a sample, which arms the timer again, unless profiling is off or
\* the exit has put the timeout far away.
tbs_mode_fire_timer ==
    /\ armed
    /\ armed' = (enabled /\ config # None /\ target = "alive")
    /\ UNCHANGED <<overlap, target, enabled, pid_monitor, buffer, config, refs, living, pc, late>>

MonitorExits(m) ==
    /\ m \in living /\ pc[m] = "idle"
    /\ living' = living \ {m}
    /\ refs' = put_pmc_samples_buffer(refs, m)
    /\ UNCHANGED <<overlap, target, enabled, pid_monitor, buffer, config, armed, pc, late>>

AttachNext ==
    \/ TargetExits \/ mod_free_per_thread_data \/ tbs_mode_fire_timer
    \/ \E m \in Monitor :
          \/ AttachCheck(m) \/ ForceCheck(m) \/ ForceDisable(m) \/ SetUp(m)
          \/ DetachCheck(m) \/ Disable(m) \/ CallFails(m) \/ MonitorExits(m)

AttachSpec == AttachInit /\ [][AttachNext]_attachVars

-----------------------------------------------------------------------------------
(* Properties.                                                                      *)

AttachTypeOK ==
    /\ overlap \in BOOLEAN /\ late \in BOOLEAN
    /\ target \in {"alive", "exited", "freed"}
    /\ enabled \in BOOLEAN /\ armed \in BOOLEAN
    /\ pid_monitor \in Monitor \cup {None}
    /\ buffer \in Monitor \cup {None}
    /\ config \in Monitor \cup {None}
    /\ refs \in [Monitor -> Nat]
    /\ living \in SUBSET Monitor
    /\ pc \in [Monitor -> {"idle", "setup", "force", "force_disable", "disable"}]

Holders(m) ==
    (IF m \in living THEN {m} ELSE {})
      \cup (IF buffer = m /\ target # "freed" THEN {None} ELSE {})

\* The buffer the target holds exists: however attaching, detaching, exits and forced
\* detachments interleave, no reference is put twice or used after the last put.
BufferExists == buffer # None => refs[buffer] > 0

\* "It reflects the number of processes/threads that hold a reference to the same
\* instance of the data structure" (mc_experiments.h 226); of a target that was not
\* attached after its exit, see SerialRefsAreHolders.
RefsAreHolders == ~late => \A m \in Monitor : refs[m] = Cardinality(Holders(m))

\* The experiments, the buffer and the monitor of the target belong together: nobody
\* samples for one monitor with the events of another.
SessionIsConsistent ==
    target = "alive" => /\ config = pid_monitor
                        /\ buffer = pid_monitor

\* A profile that was set up after the exit of its thread, and freed with a buffer in it.
Lost(m) == IF late /\ target = "freed" /\ buffer = m THEN 1 ELSE 0

\* References are exact when calls do not overlap: no path through a single call, failing
\* or not, and no exit between two calls, forgets or repeats a get or a put; but for the
\* one that a target attached after its exit takes with it when it is freed, unless it is
\* detached before that (mchw_core.c 1825-1846, 1547-1578).
SerialRefsAreHolders ==
    ~overlap => \A m \in Monitor : refs[m] = Cardinality(Holders(m)) + Lost(m)

\* A monitor that exists keeps its target until it detaches: others are refused, or
\* take it after its exit.
LiveMonitorKeepsTarget ==
    [][~overlap => \A m \in living :
          pid_monitor = m /\ pid_monitor' # m => pc[m] = "disable"]_attachVars

\* The one that is detached by force does not exist ("Monitor process exists-> cannot
\* detach", mchw_core.c 2168).
ForcedDetachIsOfOrphan ==
    [][\A m \in Monitor :
          pc[m] = "force_disable" /\ pc'[m] = "setup" => pid_monitor \notin living]_attachVars

\* No timer is pending on a profile that has been freed: "Cancel per-thread timer if
\* in TBS mode" (mchw_core.c 1393).
TimerIsOfLiveProfile == target = "freed" => ~armed
================================================================================
