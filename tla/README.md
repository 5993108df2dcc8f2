# PMCTrack in TLA+

PMCTrack is a performance-monitoring tool for Linux. A loadable kernel module (`src/modules/pmcs`)
programs the hardware performance counters (PMCs), takes samples of them for single threads or for
whole CPUs, and hands the samples to a *monitor process* through files in `/proc/pmc`. A library and
command-line tools sit on those files. The kernel module is where the program's own difficulty is:
its handlers run in context switches, clock ticks, timers, inter-processor interrupts and system
calls of several processes, and share buffers, counters and per-thread profiles under several locks,
or none. This directory models that core, one TLA+ module per component, and on top of it the `pmctrack` command.

Paths below are relative to `src/src/modules/pmcs/` unless they start with `src/`.

## 1. Inventory

### 1.1 The parts and how they interact

```
   monitor process ── read/write /proc/pmc/* ──► mchw_core.c  (system calls, process context)
                                                   │  ▲
          kernel hooks (pmctrack_stub.c)           │  │ samples, in a shared samples buffer
   switch in / switch out / tick / fork / exec /   │  │
   exit / free of every thread ────────────────────┘  │
                                                   per-thread profile (pmon_prof_t)
   kernel timers ── TBS_USER_MODE, system-wide ───────┤
   remote calls ── on_each_cpu, function calls ───────┤
   counter overflow interrupt ── EBS modes ───────────┤
                                                      ├─► PMU backend (pmu_config_*.c, mc_experiments.c)
                                                      ├─► syswide.c        per-CPU experiments
                                                      └─► monitoring_mod.c ─► RDT, RAPL, EDP, Smart Power,
                                                                              IPC sampling, scheduler framework
```

| component | state it keeps | operations | what is hard |
|---|---|---|---|
| Byte ring buffer (`cbuffer.c`) | byte vector, head, size | insert with overwrite, batch removal, clear, iterator | alignment and wrap-around at the end of the vector; overwriting unread samples |
| Samples buffer (`mc_experiments.h`, `mchw_core.c` 1354-1504, 2342-2440) | ring buffer, reference counter, `monitor_waiting`, semaphore | get, put, push and wake, blocking read | lost wake-ups, end of file, who frees the buffer, signals |
| System-wide mode (`syswide.c`) | owner, state, shared buffer, timer, per-CPU experiments | start, stop, pause, resume, timer, switch in/out, monitor exit | start against stop, timer against stop, switches against both, error paths |
| Per-thread counting (`mchw_core.c` 235-1504) | profile of the thread (current experiment, accumulated counts, last CPU, ticks), counters of each CPU | save, restore, tick, timer, migration, multiplexing, exit | the counters are shared with all other threads; the timer acts on a thread that may wake up; core types |
| Attaching (`mchw_core.c` 1742-2338) | `prof_enabled`, monitor, buffer and experiments of the target | attach, detach, forced detach, exit of target or monitor | check and set-up are two critical sections; orphans; late timers |
| Monitoring-module manager (`monitoring_mod.c`) | current module, list of modules, per-thread module and private data | activate, deactivate, reinitialize, hooks | hooks do not take the manager's semaphore; private data of different types |
| RMID pool (`intel_rdt_core.c` 25-270, `intel_rdt_mm.c`) | free list, reference counts, marks, assigned list; RMID per thread | build, get, use, put; switch in, fork, exit | reference dropped before the lock is taken; pool rebuilt under the threads |
| Configuration (`mchw_core.c` 412-580, 2534-3159, `mc_experiments.h`, the dummy module) | sets of experiments of each core type, profiling mode, buffer, timer | configure, switch on and off, inherit, exit, give defaults | failures half-way; copies for children; decisions taken once and not revised |
| Loading and kernel hooks (`mchw_core.c` 3625-3736, `pmctrack_stub.c`) | registered implementation, module references, installed hooks, profiles | load, undo a failed load, unload, call through | unregistering while an operation runs; undoing exactly what was done |
| Metrics and phase table (`monitoring_mod.c`, `mc_experiments.h`) | fixed-point metrics; list of phases | compute, look up, insert, evict | division by zero, eviction order |
| PMU backends (`pmu_config_*.c`, `mc_experiments.c`) | event-select values and overflow masks per experiment | detect, configure, count, acknowledge overflow | counter width, overflow of 32/40/48-bit counters |
| Scheduler framework (`pmcsched.c` and plugins) | applications with references and RMIDs, lists of active threads and applications of each group, migrations, signals | insert, remove, tick, stop, continue, migrate, register containers, track | references held from several sides; threads that exit or sleep while they are migrated; corrupted lists |
| Cache partitioning (`cache_partitioning.c`, `cache_part_set.c`) | partitions with their ways, classes of service and applications | allocate, remove, resize, move; lookahead, pairing, LFOC, enforcement | ways lost, shared or missing; ranges, masks and counts out of step |
| RDT classes, user-space RDT (`intel_rdt_core.c` 270-, `intel_rdt_userspace_mm.c`) | CBMs, MBA limits, bandwidth counts | set, read | wrapping counters, overlapping masks |
| RAPL, EDP (`intel_rapl_*.c`, `edp_core.c`) | last energy register and sum per thread, CPU and system; a timer | accumulate differences, pause, reset, release | wrapping registers, two packages, the timer against the release |
| Hardware feedback (`intel_ehfi.c`), perf metrics | table of classes | interrupt, read | torn reads of the table |
| Smart Power (`smart_power_*.c`) | meters with references and USB requests, timer, ring of energy samples | plug, unplug, open, start, stop, sample, read | unplugging under a user; requests that fail; samples told twice or never |
| Versatile Express sensors | references to devices, mapped region, 64-bit meters | look up, map, read, release | references dropped twice; torn readings |
| IPC sampling | running averages | average | none of its own |
| Containers (`include/pmc/data_str`) | lists with a length, bit fields | insert, remove, sort | length against list |
| User library, `pmctrack` tool (`src/src/lib`, `src/src/cmdtools`) | flags set by handlers, child, set of attached threads, sums per thread and experiment, parsed PMU description | build configurations, start, attach, read until end, add up, stop at a limit, detach | signals at any point of the loop, children that end early or leave processes behind |
| GUI, kernel patches, tests, scripts | | | out of scope |

### 1.2 What makes each modelled component correct

* **Ring buffer.** It is a bounded queue of samples that forgets its oldest one; no sample is torn.
* **Samples buffer.** Freed exactly when nobody can reach it; a reader is woken when there are
  samples; end of file means that no sample will follow, and comes when all threads finished.
* **System-wide mode.** One process at a time; once it is off no timer, handler or context switch
  of it is left; an accepted stop completes; samples keep arriving while it is on.
* **Per-thread counting.** Each event of the thread is in one sample, under the experiment, core type
  and session it was counted in, and no event of another thread is.
* **Attaching.** The profile of a thread has a living buffer and experiments of one and the same monitor; a
  monitor keeps its target; references are exact.
* **Monitoring modules.** A module reads and frees only data it allocated; the current module, and
  no other, holds its resources.
* **RMIDs.** An RMID is in the pool or held, never both or neither, and of one process only.
* **Configuration.** Every experiment is in one set of one owner and is freed once; a thread counts an
  experiment of its own; what it does by time or by events fits what it counts; a child counts what its
  parent counts.
* **Events and samples.** Whatever the backend, each event is in one sample, in the accumulated counts or in
  a counter; a sample on events is never late.
* **Loading.** No operation runs in a module that is gone or whose PMU is not set up; a failure at any
  step leaves nothing behind.
* **Groups and applications.** A thread is in the lists of its group exactly while it is runnable; a requested
  migration is completed; no list leads to a freed thread; an application and its RMID last as long as their users.
* **Cache.** A division gives every application ways, and no way to two clusters or to nobody; it is what the
  processor enforces.
* **Energy.** What a thread, a CPU or the system is told is what was measured, once; devices, timers and
  requests are used while somebody uses them and are freed with their last user.
* **The command.** Every sample it reads is shown, once; it ends when its program has ended, stops at its limits,
  and leaves no thread attached.

The hazards behind these properties are listed in `PROJECT.json`, each at its line in the source.

## 2. Modules

| module | models | about |
|---|---|---|
| `SampleFifo` | abstract specification | bounded overwriting queue of samples |
| `CBuffer` | `cbuffer.c` | byte level; implements `SampleFifo` (`ImplementsFifo`) |
| `SamplesBuffer` | samples buffer and blocking read | uses `SampleFifo`'s operators for its ring |
| `SamplesBuffer_proofs` | | theorems on `SamplesBuffer` |
| `ExclusiveSession` | abstract specification | service with one owner at a time |
| `Syswide` | `syswide.c` and its callers | implements `ExclusiveSession` (`ImplementsSession`) |
| `Syswide_proofs` | | theorems on `Syswide`, the refinement among them |
| `ThreadCounting` | counting and sampling of one thread | |
| `ThreadCounting_proofs` | | theorems on `ThreadCounting`, for TBS_SCHED_MODE |
| `AttachDetach` | `pid_attach`, `pid_detach`, exits | |
| `AttachDetach_proofs` | | theorems on `AttachDetach` |
| `MonitoringModules` | the module manager and its hooks | |
| `RmidPool` | RMID pool and the RDT module's use of it | |
| `Hardware_proofs` | | theorems on `CBuffer`, the refinement among them, and on `RmidPool` |
| `SchedGroups` | `pmcsched.c`, `group_plugin.c`, `busybcs_plugin.c`: lists and migrations | |
| `SchedApps` | `pmcsched.c`: applications, containers, RMIDs, the files of the scheduler | |
| `SchedApps_proofs` | | theorems on `SchedApps` |
| `HwEvents` | configuration strings and events of a counter | used by the backends |
| `PmuIntel`, `PmuAmd`, `PmuPhi`, `PmuArm`, `PmuArm64`, `PmuPerf` | the six PMU backends | |
| `EventSampling` | counters that overflow, event-based samples | instantiates the six backends |
| `CounterConfig` | what threads and modules are configured to count | |
| `ModuleLoad` | loading, unloading and hooks | |
| `Modules_proofs` | | theorems on `MonitoringModules` and on `ModuleLoad` |
| `CachePartSet` | `cache_part_set.c` | |
| `CacheClustering` | `cache_partitioning.c` | extends `CachePartSet` and enforces divisions on it |
| `SmartPower` | `smart_power_driver.c`: meters and their users | |
| `MeterEnergy` | energy of samples: Smart Power, second meter, TC2 board | |
| `EnergyCounters` | RAPL and the energy-delay product | |
| `VexpressSensors` | `vexpress_sensors_core.c`, `vexpress_sensors_mm.c` | |
| `Devices` | the devices that measure energy | puts `SmartPower`, `MeterEnergy`, `EnergyCounters` and `VexpressSensors` side by side |
| `Devices_proofs` | | theorems on `Devices` |
| `Pmctrack` | `src/src/cmdtools/pmctrack/pmctrack.c` and what it calls of `src/src/lib/libpmctrack/src/core.c` | extends `SamplesBuffer`: the command is its reader |

`MCPmctrack` gives TLC the constants that a `.cfg` cannot express. `MCProfiles` puts side by side what is done to the
profile of a thread (it extends `ThreadCounting`, `AttachDetach` and `MonitoringModules`), `MCScheduler` the two halves of the scheduler framework
(it extends `SchedApps`, and `SG` is its instance of `SchedGroups`), `MCHardware` the components that
monitoring modules and schedulers drive besides the counters (`RmidPool`, `CacheClustering`, the four `Devices`,
and the ring `CBuffer` that meters and samples share), and `MCCounters` those at the core of counting (it extends `EventSampling` and
`ModuleLoad`, and `CF` is its instance of `CounterConfig`): they share no state, so `subject`, chosen in the initial state, says which of them moves, and the run explores
each of them completely. Operators named `X_Something` just before an operator `X` are faulty variants of it, used to
check that the properties notice a bug in the code; no specification uses them. One per property is among the
`mutants` of `PROJECT.json`; the others break the conjuncts of the same properties and are kept for whoever changes a module.

The composition is by abstraction: `CBuffer` is shown to implement `SampleFifo`, and
`SamplesBuffer` is built on `SampleFifo`; `Pmctrack` is composed with `SamplesBuffer`, whose actions for threads and
reader are conjuncts of its own; the reference counts of `SamplesBuffer` appear in
`AttachDetach` (one counter per monitor) and in `Syswide` (`refs`); the priority of the system-wide
mode over the counters of a CPU, which `ThreadCounting` leaves out, is in `Syswide` (`pmcs`).

### 2.1 CBuffer and SampleFifo

`data`, `head` and `size` are the fields of `cbuffer_t`; `items` is what the last removal copied to
the caller. A byte is a pair (value of the sample, index in the sample), which is what lets
`NoTornSample` tell a whole sample from two halves. `insert_items_cbuffer_t`,
`remove_items_cbuffer_t`, `remove_cbuffer_t_batch`, `clear_cbuffer_t` and the iterator are
operators of the same names with the code's split copies; `InsertSample`, `RemoveBatch` and `ClearSamples` are what
clients do with them. `client`, chosen in the initial state, is one of the two
kinds of clients of the code: a reader of samples removes, a power meter iterates and clears (the read of
the Smart Power device removes only when built with `CONSUMER`, which nothing defines).
The single-byte functions have no caller.

### 2.2 SamplesBuffer

`queue` is the ring; `ref_counter`, `monitor_waiting` and `sem_queue` are the fields of
`pmc_samples_buffer_t`; `reader` says where the monitor is in `proc_monitor_pmcs_read`; `task` how
far each thread is, and `forking` whom it is creating. A thread that forks hands the buffer on in three reads of its own pointer without a lock
(`ForkTests`, `ForkGets`, `ForkAssigns`, `ForkEnds`; `mchw_core.c:520-523`), and a detach, which reaches a running thread by interrupt, may come between any two of
them: then the parent reads NULL, or the reference taken for the child is nobody's and the child has no buffer, or it has one that was freed. An exited thread that was not reaped is found by its pid and
can still be attached (`AttachExited`, `Reaped`), and nothing but a detach drops that reference. `leaked` counts the references that nobody is left to drop and `accidents` remembers which of the two
happened: `RefsAreHolders` says that the counter is the number of holders plus `leaked`, and that nothing leaks but by these accidents. A step is a critical section of the buffer's lock or a statement outside it, so the
two unlocked places of the code are steps of their own: an interrupted read clears
`monitor_waiting` without the lock (line 2404), and an exiting thread drops its reference after
the section in which it wakes the reader (line 1471). The kernel's semaphore is external and
modelled as a count; `down_interruptible` fails only when the count is zero.

### 2.3 Syswide and ExclusiveSession

`syswide_monitor` keeps the code's four kinds of value (`DISABLED`, `STARTING`, `STOPPING`, a
process). `pc`, `toVisit` and `retval` describe each process inside `syswide_monitoring_start` and
`_stop`; `timer` and `toSample` the kernel timer and its handler; `cur_config`, `thread`, `refreshing`
and `pmcs` each CPU. `on_each_cpu` is one step per CPU (`VisitCpu`, `SampleCpu`) and does not get
through to a CPU in the middle of a context switch. Starts may fail and stops may come from anybody:
a stop that is refused takes the lock it already holds (`LockLost`), after which nothing that needs the lock
proceeds, and the two liveness properties promise nothing. `StartsMayFail = FALSE` and
`OnlyMonitorStops = TRUE` leave these two error paths out, in the configurations that look at something else.

In `ExclusiveSession` the service has an owner and is serving or not; the mapping is
`owner <- pmc_samples_buffer`, `serving <- syswide_monitoring_enabled`.

### 2.4 ThreadCounting

One thread, several CPUs of two core types. A handler of the code is a function from a record
(profile `p`, counter `h` of the CPU it runs on, sample `out`) to the new record, with the code's
names: `mod_save_callback_gen`, `mod_restore_callback_gen`, `mod_tbs_tick`,
`sample_counters_user_tbs`, `set_up_monitoring_task`, ... ; an action applies one of them. All counters
of an experiment are programmed, read and cleared together and are one counter, which remembers *how
many* events of the thread it counted and *whose and under what* (`tags`). `OthersRun` is
every other thread that uses the CPU. `SeeAsleep` and `CallOnOtherCpu` are the two halves of what
the timer, attach and detach do when they find the thread asleep: they run on another CPU without
keeping it asleep; with `setup.wakes` the thread may wake up in between. The machine and the request of the
monitor (which CPUs are of core type 1, how many experiments, the profiling mode, the period) are the
record `setup`, chosen in the initial state among `Setups` and never changed.

### 2.5 AttachDetach

`AttachCheck`, `ForceCheck`, `ForceDisable`, `SetUp`, `DetachCheck` and `Disable` are the critical
sections of `pmctrack_pid_attach`, `pmctrack_task_detach_force` and `pmctrack_pid_detach`, in the
code's order; `pc[m]` is the section a monitor enters next. With `overlap` (chosen in the initial state) calls of several
monitors and the exit of the target interleave; without, they happen one at a time. In both, a target that has exited is found until its descriptor is
freed, and is attached like any other (`late`): only a detach puts the reference it then takes, and `SerialRefsAreHolders` counts that one, and no other, as lost.

### 2.6 MonitoringModules

`cur_module` is `mm_manager.cur_module`; `ready` are the modules between `enable_module` and
`disable_module`; `task_mod` and `priv_data` are `task_mod` and `monitoring_mod_priv_data` of a
profile, the latter reduced to the module that allocated it; `last` records whose data the last
callback interpreted. An activation is three steps under the manager's semaphore, as in the code: the new module is enabled (`Enable`, which may fail), the old one
is disabled while it is still current (`disable_module`), and the new one becomes current (`Publish`). The hooks do not take the semaphore. A hook
tests (`Tests`, `ForkTests`) and then calls (`Callback`, `mm_on_fork`, ...) what it finds as current module: the source reads `cur_module` twice
and the compiler may read it once, so the module called is either of the two (`Reread`); if it is none, or the dummy module, which has no such callback, the call
goes through NULL and the thread is lost ("oops"). A thread stays in its callback until it returns (`CallbackReturns`), whatever is disabled meanwhile. A fork
reads `cur_module` in `mod_alloc_per_thread_data` (`Assign`) and again in `mm_on_fork`.

Two histories say what overtook whom: `torn` are the threads in whose fork another module was published, and `hook[t].stale` says so of the hook a thread
is in. The properties hold for every interleaving and make exceptions of these alone: data belongs to the module of its thread unless that thread is torn, a callback reads data of its own module
unless its hook is stale or its thread torn. `ReadsAny` are the modules (RDT) that read the data of the parent or of
the calling thread without asking which module allocated it; `commands`, chosen among `Repertoires`, are the
commands the administrator uses.

### 2.7 RmidPool

The pool's list, marks, counts and assigned array are variables of the code's names. `put_rmid` is two
steps: `put_rmid` drops the reference (no lock), `put_rmid_last` gives the RMID back under the lock. `use_rmid`
tests and increments without the lock. Threads of one process share an RMID (`process`); `first_time`
and `rmid` are the private data of `intel_rdt_mm.c`. The pool is never freed while a put is under way.

### 2.8 SchedGroups

`l` holds the lists of the two groups (active threads, active applications, active threads of each application,
threads to migrate), `d` the fields of `pmcsched_thread_data_t`, `run` and `where` what the kernel does with
each thread, `kthread` the local list that the kernel thread of a group walks without the lock. Everything done under
the locks of groups is one step. A thread that has changed groups leaves the lists of the old one in one critical section (`SwitchIn`, after which it is "switching") and enters those
of the new one in the next (`Joins`); in between it is in none. The kernel thread moves a thread, releases its reference, and then reads the next one from it; `CursorIsAlive`
(run `Scheduler_walk`) says what is wrong with that. Removing from a list what is not in it, inserting what is, or following it to a freed
thread corrupts memory: `bad` records it and the behaviour ends there. `setup` says which plugin is
loaded, which threads exist from the start, whether migrations reach the plugin (`hooked`), whether threads wake, sleep and
exit in the middle of one (`steady` is FALSE) and whether monitors detach.

### 2.9 SchedApps

`app` are the structures `sched_app_t` (references, RMID, allocated or freed), `th` the thread data, `container` the
application of each registered control group, `file` the open files of `/proc/pmc/sched_qos`, `pool` the RMIDs with
their references (the pool itself is `RmidPool`). A find and the get that follows it without the lock are two steps. `setup`
names what happens beyond the ordinary: two users of a file, a monitor that detaches, memory with old contents, a
container registered twice, a change of scheduler, refused values, threads that fork before their first switch in, a scheduler that refuses threads. Every part of the properties names the circumstances in which
it does not hold. The child of a process that monitors itself is not enabled (`NewThread`), and leaves its RMID when it exits, as does a thread whose monitor detached
(`LeavesRmid`). A fork that `on_fork_thread` refuses keeps its references to application and RMID for ever (`Refused`); no scheduler of the repository has a
hook that fails, so it is a circumstance of its own ("refused"). A thread is `first` ("yes") until it is given an RMID at its first switch in; one
that starts in a container shares the container's ("container_no"), unless the field that says so has old contents ("container_yes"). A thread does not exit in the middle of its read of a file.
`pmcsched_unregister_all_containers` is one step, in the form of sets: the applications of the containers are different ones, and an RMID
that several of them have (after a change of scheduler) is put once for each.

### 2.10 HwEvents, the backends and EventSampling

`pmu` are the counters and control registers of a CPU, modulo `Modulus`; `exps` the experiments of the thread, with
a `reset` value and the saved one (`new`) for each event, and the overflows seen and not yet read; `acc` is `pmc_values`. An experiment is what
`HwEvents!Parsed` and the backend's `do_setup_pmcs` make of a configuration string, which is a sequence of fields
(counter, flag, value) and is of one core type. `Executes` lets the thread run events in every mode; the overflow interrupt is taken at once,
or, in the setups that are `late`, perhaps after the thread has left, or never while another CPU holds the lock (`busy`, perf). `SwitchIn` finds the thread on a CPU of the same core type (`Restores`), of another one
(`Migrates`: a sample of what was accumulated, and the first experiment of the new type from its beginning), or for the first time (`FirstSwitchIn`). `owed` is a ghost: what was executed and no sample has told; of
experiments that sample on events, a migration throws away what their counters hold (`dropped`, run `Counters_migration`). An interrupt that was pending when the thread left
is served for nobody: `missed` counts them, and `SamplingIsPunctual` and `EventCountsAreExact` grant one width of the counter for each.

### 2.11 CounterConfig

`prof` is the profile of each thread (sets, current experiment, mode, buffer, timer), `exps` the experiments that are
allocated, `refs` the references to each buffer, `dummy` the default monitoring module. A write to `/proc/pmc/config` or
`/proc/pmc/enable`, a fork, an exit, a release are steps; each allocation of a write or of a fork may fail, and in the perf build perf may refuse any event, of a write or of the copies of a
fork (`mchw_core.c:529-534`), at any time, a buffer being there already or not. `how` says
which build it is (native counters or perf), what is requested, and what is used besides: the default module, virtual counters, settings, configuring while one is profiled ("late"), moves to the other core type. Where the code goes
through NULL or past an array the behaviour ends and `oops` says at what: a put of the missing buffer after a refusal ("refusal"), more strings than a set has room for ("strings"), a timer
of perf without experiments ("timer"). Two circumstances are left out of the passing run because the property fails there (`hard`): the native fork whose copies run out of memory half-way ("memory"), and
a thread that has nothing to count on the core type it first runs on ("types").

### 2.12 ModuleLoad

`todo` is what initialization or cleanup has still to do, in the order of the code: a failing step
replaces it by what its label `out_error...` undoes (`Undo`, a sequence of `Parts` to take down). `call` is where each thread is in a hook: in the stub, in the RCU section, holding
a reference to the module, in the operation, asleep there, on its way out. `waits` are the calls that `synchronize_rcu`, the tracepoints and
ftrace wait for. `load` says whether the kernel was patched, the processor, which step fails, and whether the kernel preempts;
`Orderly` names the combinations in which the code promises what `LoadIsSound` says.

### 2.13 CachePartSet and CacheClustering

`pool`, `assigned`, `free`, `dflt` and `bouncing` are the fields of `cache_part_set_t`; `cat` the masks in the processor, `papp` what
each application keeps. A partition is resized with the others (`auto`) or by a division (`clusters`). A division (`result`) is computed by one
operator per algorithm from the curves of the workload, as a fold or a recursive operator, and enforced partition by partition.

### 2.14 SmartPower, MeterEnergy, EnergyCounters, VexpressSensors

`SmartPower` has the life of the meters: references, USB requests, one timer, files and the module; the windows in
which the driver works without its lock are steps of their own (`leaving`, `opening`, `closing`). With "refuse" among the circumstances the USB core may refuse a request, a first one or one
that a callback submits again (`smart_power_driver.c:144`), after which no answer comes until the next timer. A meter that is unplugged under the module breaks references (`OwnMeterIsPut` in section 3), so the
conjuncts about them say what holds without.

`MeterEnergy` has time and energy: the ring of samples, its reader, and as a ghost what the reader is owed. A sample begins (`Begins`, where the second meter takes the
time that it will stamp it with) and arrives (`Arrives`) in two steps, and a report adds up (`Report`) and then moves the reader's mark (`ReportIsMarked`) in two steps. What comes in between is in `luck`: a sample of the
same tick is "shared", one with an earlier stamp is "late", one that fell out of the ring is "lost", and a meter may show dashes. `MeterEnergyIsSound` says of every combination whether the report is
exact, or at least leaves nothing out.

`EnergyCounters` has the registers modulo `Modulus`, the three controls that
read them (a thread, a CPU, the whole system) and the timer. A reading is of the package where the code happens to run, which for a thread and for the EDP may be another one each time; the ghost `truth` has the package last read
(`from`) and whether the readings can tell at all what was spent (`sure`, and `exact` for the last sample): they can while they are all of one package and no register
turns once more than can be seen. A reset of the EDP is two steps, and the second takes no lock.

`VexpressSensors` has references to hwmon devices, the
mapped region, and a 64-bit meter read in two halves. A thread is sampled also while it sleeps, by the timer of TBS_USER_MODE: the energy that the board spent meanwhile (`idle`) is then told as its own. `ran` is the ghost, which tells readings that a carry tore, or that failed, from the others (`sure`, `read`, `exact`).

### 2.15 Pmctrack

`pc` is where the command is in `monitoring_counters`, `monitoring_counters_syswide` or `monitoring_counters_attach`, and then in
`process_pmc_counts`; `child_finished`, `stop_profiling` and `profile_started` are the flags the handlers share with it; `set` and `rows` are
`pid_set` and, together, `pid_ctrl_vector` and `acum_samples`, with what `malloc` leaves in them (`Junk`). Threads, buffer and read are those of
`SamplesBuffer`: `pmct_read_samples` is `ReadWait`, `Down`, `ReadEof` or `ReadBatch`. A new process has no part in the buffer: only a thread of the family inherits it
(`is_new_thread`). A handler runs between any two steps; a signal that finds the
command in `pause`, `read` or `wait4` ends that call, as `sa_flags` is 0. The command is modelled as it is built (`USE_VFORK`): it does not run until the child is
a program. `setup` says what was asked (mode, `-A`, `-n`, `-N`, the threads of `-p`) and what may happen (Ctrl+C, a broken pipe, calls that fail).
In the system-wide mode an entry of `task` stands for the mode, which holds a reference to the buffer of its monitor.
It is assumed that the alarm is set for long enough that the command gets to `pause` before it expires (`-T 0`, which sets no alarm at all, is left out), and that
no more than the 256 threads there is room for are added up.

## 3. Runs

One run per component, or group of components without common state. Where properties need different circumstances,
these are chosen in the initial state (`client`, `setup`, `overlap`, `commands`, `how`, `load`, ...), and a property that is only promised
in some of them says so. Properties of one question are conjoined under one name; the conjuncts have names and comments of their own.

| run | properties | shows |
|---|---|---|
| `SamplesBuffer` | `RefsAreHolders`, `EofIsFinal`, `WakeupPending`, `SemaphoreBounded`, `SamplesReachReader` | 3 threads (one event-based), capacity 2: references are exact but for what an overtaken fork or an attached dead thread loses, truthful end of file unless a fork was overtaken, no lost wake-up, bounded semaphore; a waiting reader gets the samples that arrive |
| `Syswide` | `OneSession`, `QuietWhenDisabled`, `SetupUndisturbed`, `DeliversToMonitor`, `ImplementsSession`, `StopCompletes`, `KeepsDelivering` | 2 processes, 2 CPUs, all error paths: one session, nothing left over, refinement of `ExclusiveSession`; an accepted stop completes and samples keep coming, unless the lock is lost |
| `Profiles` | `SamplesAreFaithful`, `Conservation`, `BufferExists`, `SessionIsConsistent`, `SerialRefsAreHolders`, `LiveMonitorKeepsTarget`, `OwnerIsTaskMod`, `CarefulModuleReadsOwnData`, `ModulesAreBalanced` | each part by itself. Counting: four machines and requests (scheduler- and timer-driven, one and two core types, one experiment and two): own events only, all of them, once, under the right experiment and core type. Attaching: 3 monitors: living buffer and one owner, also when calls overlap; when they do not, no reference is lost but that of a target attached after its exit, and a monitor keeps its target. Modules: 3 modules, 2 threads, commands step by step between and during forks and callbacks: private data is used and freed by its owner unless a module is published in the middle; activations alone keep exactly the current module enabled |
| `Scheduler` | `GroupListsAreSound`, `MigrationCompletes`, `AppsAndRmidsAreHeld` | both plugins, two threads: lists agree with what threads do through every migration and between its two critical sections, no list leads to a freed thread, migrations are completed; two threads, a control group, a file: exact references to applications and RMIDs, those of refused forks and children that nobody monitors among them, no two users of an RMID |
| `Hardware` | `RmidsAreSound`, `CacheIsDivided`, `SmartPowerIsSound`, `MeterEnergyIsSound`, `EnergyCountersAreSound`, `SensorsAreSound`, `SamplesAreWhole`, `ImplementsFifo` | each component by itself: 4 threads with 3 RMIDs; 3 applications, 5 ways and every algorithm; 2 meters with their users, unplugged or refused at any request; energy of samples that come late or between two steps of a report, registers that wrap and are read on either package, readings torn by a carry or taken of sleeping threads; a ring of 3 samples of 2 bytes for both kinds of client, which tears no sample, implements the bounded queue, and whose iterator stays inside the vector |
| `Counters` | `EventCountsAreExact`, `SamplingIsPunctual`, `ConfigIsSound`, `LoadIsSound` | six backends, by time and by events, with interrupts at once or late and threads that move between core types: no event lost or counted twice but by such a move; configurations, before and during profiling, through failures, refusals of perf, forks and exits; every step of a load that fails while hooks run |
| `Pmctrack` | `SessionIsSound`, `SessionEnds` | a program of two threads in every mode, with each option, signals at any point, failures, a broken pipe: every sample read is shown once, or added up to the exact number and sum; `-n` and `-N` hold; nobody stays attached; references and wake-ups of the buffer stay exact; the session of a program ends with it |

The following configurations are expected to fail; each one is a disagreement between the code and what a
comment or header of the repository says of it. Those marked * are among the runs of `PROJECT.json`, whose
"findings" quote the lines; the others are further configurations, to be run in the same way.

| configuration | property that fails | what happens |
|---|---|---|
| `Syswide_refusal` * | `RefusalReturns` | a refused stop takes the lock again instead of releasing it (`syswide.c:523`) |
| `AttachDetach_race` * | `RefsAreHolders` | two monitors attach at once: one reference is never put (`mchw_core.c:1759`) |
| `Pmctrack_aggregate` * | `AggregateIsDisplayed` | a signal that finds the command in `read` skips the report of `-A` (`src/src/cmdtools/pmctrack/pmctrack.c:1065`; `src/README.md:356` "will display the aggregate event count for the application's entire execution"). At the end of a program in an event-based mode that signal is SIGCHLD: the last thread wakes the command before it drops its reference, so that the command reads again and waits |
| `Scheduler_walk` * | `CursorIsAlive` | the kernel thread that moves threads reads the next one from a thread whose reference it has just released (`group_plugin.c:67`, `76-80`; line 55 "To prevent process from going away") |
| `Counters_migration` * | `MigrationSamplesTell` | a thread sampled on events moves to the other core type: the sample of the migration is overwritten with counts of 0, and what the counters held is in none (`mchw_core.c:664-668`; line 658 "This is to handle migration samples correctly !!") |

The rest need no file of their own: take the configuration of the component (`Profiles` for `ThreadCounting`, `AttachDetach` and `MonitoringModules`, `Scheduler` for the two halves
of the scheduler framework, `Hardware` for the devices), change what the second column says, and replace
its properties by the one named (an invariant unless marked P, a PROPERTY). For `SchedGroups` the change is in the INSTANCE `SG` of `MCScheduler`
(`Setups <- OnlyUnsteady` for `Setups <- McGroupSetups`), where a definition gives the property a name that a `.cfg` can use.

| component | change | property | what happens |
|---|---|---|---|
| `CBuffer` (`MCHardware`) | | `HeadInRange` | a removal that ends at the end of the vector leaves `head = max_size` (`cbuffer.c:174`; `cbuffer.h:17` "head in [0 .. max_size-1]"); harmless, every user reduces it, which the run `Hardware` shows |
| `SamplesBuffer` | | `EndReachesReader` (P) | the last thread wakes the reader before it drops its reference, and the reader sleeps for ever (`mchw_core.c:1471`; `mchw_core.c:2410` "EOF if all threads actually finished") |
| `Syswide` | `SPECIFICATION Spec` | `BusyMeansInUse` (P) | after a failed start the mode stays `STARTING` and nobody can start it (`syswide.c:482`; line 415 "Make sure system wide is not already in use") |
| `Syswide` | `StartsMayFail = FALSE`, `OnlyMonitorStops = TRUE` | `CountersAreMonitors` | a thread that switches in before the monitor is published takes the counters over (`syswide.c:475`; `mchw_core.c:967` "System-wide monitoring mode has a higher priority than per-thread modes") |
| `Syswide` | the same | `ThreadsKeepCounters` | with a monitor of virtual counters only, threads lose their counters all the same (`syswide.c:334`; line 342 says they keep them) |
| `ThreadCounting` | `Setups <- Waking` | `SampleOfItsExperiment` | the timer turns over the experiment of a thread that woke up (`mchw_core.c:695`; line 1244 "That is not a big deal") |
| `ThreadCounting` | `Setups <- Timer` | `SampleOfItsCoreType` | a sleeping thread's sample gets the core type of the CPU of the timer (`mchw_core.c:598`; `pmc_user.h:39` "Core type where this sample was registered") |
| `ThreadCounting` | `Setups <- Stale`, `MaxSessions = 2` | `SampleOfItsSession` | counts left by one monitor are delivered to the next (`mchw_core.c:2003`) |
| `ThreadCounting` | `Setups <- Reattach`, `MaxSessions = 2` | `ConfigFitsCore` | `last_cpu` of the previous session hides a migration (`mchw_core.c:1767`; line 1039 "Point to the right set of experiments for this core type") |
| `AttachDetach` | `Mode = "TBS_SCHED_MODE"` | `ForcedDetachIsOfOrphan` (P) | a forced detachment hits a monitor that exists (`mchw_core.c:2189`; line 2168 "Monitor process exists-> cannot detach") |
| `AttachDetach` | | `TimerIsOfLiveProfile` | the timer of `TBS_USER_MODE` outlives the profile (`mchw_core.c:90`, `1394`) |
| `MonitoringModules` | `Repertoires <- Plain` | `OwnerIsTaskMod` without `\ torn` | the module changes between the two reads of a fork (`mchw_core.c:507`; `mc_experiments.h:284`) |
| `MonitoringModules` | `Repertoires <- Stopping` | `OnlyCurrentIsReady` | deactivating does not disable (`monitoring_mod.c:507`; `monitoring_mod.h:56`) |
| `MonitoringModules` | `Repertoires <- Reinit` | `CurrentIsReady` | a failed reinitialization leaves a module without resources current (`monitoring_mod.c:557`) |
| `MonitoringModules` | `Repertoires <- Plain` | `CallbackReadsOwnData` | RDT reads data another module allocated (`intel_rdt_mm.c:249`, `316`) |
| `SchedGroups` (`MCScheduler`) | `Setups <- OnlyUnsteady` in `SG` | `SG!NoCorruption` | a thread that sleeps or exits while it is migrated is removed from a list it is not in |
| `SchedGroups` (`MCScheduler`) | `Setups <- UserMode` in `SG` | `SG!RunsInItsGroup` | in the modes of the user, migrations do not reach the plugin |
| `SchedGroups` (`MCScheduler`) | `Setups <- OnlyBusybcs` in `SG`, `NrCpus <- FewBigCores` | `SG!BigCoresAreRelieved` (P) | the loop that relieves the big cores runs while there *are* cores available, so it never does (`busybcs_plugin.c:147`; line 143 "Act only in case of oversubscription") |
| `SchedApps` (`Scheduler`) | `Setups <- Shared` | `AppsAreFreed` | two threads use a file: a reference is lost (`pmcsched.c:2113`) |
| `SchedApps` (`Scheduler`) | `Setups <- Dirty` | `RmidsInUseAreHeld` | a field that is not initialized makes a thread put an RMID it did not take (`pmcsched.c:2424-2455`, `3167`) |
| `SchedApps` (`Scheduler`) | `Setups <- {{"detach"}}` | `RmidsComeBack` | a thread that was detached from exits without giving its RMID back (`pmcsched.c:2595`) |
| `SchedApps` (`Scheduler`) | `Setups <- Early` | `RmidsInUseAreHeld` | a thread that forks before it was given its RMID shares its application with the child, and the first switch in of either overwrites the other's RMID |
| `SchedApps` (`Scheduler`) | `Setups <- Change` | `RmidsInUseAreHeld` | the change of scheduler leaves threads with RMIDs of the old one (`pmcsched.c:1565`) |
| `SchedApps` (`Scheduler`) | `Setups <- Race` | `NoWildPointer` | an application found without the lock is freed before it is got (`pmcsched.c:2191-2245`) |
| `SchedApps` (`Scheduler`) | `Setups <- Again` | `NoWildPointer` | registering a container twice puts an application once too often (`pmcsched.c:3666-3760`) |
| `SchedApps` (`Scheduler`) | `Setups <- Invalid` | `CommandsGoOn` | a refused period returns with the lock held (`pmcsched.c:1598`) |
| `Pmctrack` | | `BufferIsGotInTime` | the child exits and its buffer is freed after the command found it and before it takes a reference (`mchw_core.c:2252-2254`) |
| `Pmctrack` | | `SyswideEnds` (P) | a system-wide session does not end with its program: the mode holds a reference, so no read reports an end, and the loop reads on until it is stopped (`src/src/cmdtools/pmctrack/pmctrack.c:1073`; with the bound `MaxTicks` the trace ends in a wait). That the session goes on is a conjunct of `SessionIsSound` (`SyswideGoesOn`) |
| `RmidPool` (`Hardware`) | `MaxActivations = 2` | `RmidIsOfOneProcess` | RMIDs of the previous pool collide with those of the next (`intel_rdt_mm.c:473`) |
| `RmidPool` (`Hardware`) | | `AssignedFits` | one RMID more than the arrays have room for (`intel_rdt_core.c:108`, against line 75) |
| `SmartPower` (`Hardware`) | `MeterSetups <- McUnplugged` | `OwnMeterIsPut` | the meter that the module measures with is unplugged and another one plugged in: stopping puts the reference of the other one, which is freed under its interface (`smart_power_driver.c:229`; lines 186 "increment our usage count for the device" and 237 "decrement the count on our device") |
| `MeterEnergy` (`Hardware`) | | `LateSamplesAreTold` | the second meter stamps a sample with the time before it waited for it, and a report made meanwhile leaves it out, as does the next (`smart_power_2_mm.c:282`; line 333 "Get a sample that summarizes measurements collected from a given point") |
| `EnergyCounters` (`MCHardware`) | | `EC!ReleaseIsNotStuck` | the release waits for the timer with the lock that the timer waits for (`intel_rapl_core.c:251`) |
| `EventSampling` (`Counters`) | `EventSetups <- McTwoOnPhi` | `EventCountsAreExact` | on the Xeon Phi the overflow status of the second counter is not reset and counts again (`pmu_config_phi.c:465`) |
| `EventSampling` (`Counters`) | `EventSetups <- McOneType` | `MigrationStartsCounts` | a thread that comes back from a core type for which it has no experiment is not counted any more: its counters are cleared and not started (`mchw_core.c:1013`; line 1009 "Always engage multiplexation and clear counts (start from the beginning)") |
| `EventSampling` (`Counters`) | `EventSetups <- McStrayOnAmd` | `EventCountsAreExact` | on AMD any interrupt is taken for an overflow of the sampled counter (`mchw_core.c:3371`) |
| `CounterConfig` (`Counters`) | | `RefusalIsClean` | a refused request puts a buffer: the one that was there before, or NULL (`mchw_core.c:2857`, `2865`, `2910`; line 2873 "Free memory in case of failure") |
| `CounterConfig` (`MCCounters`) | `ConfigSetups <- McOutOfMemory` in its INSTANCE | `ConfigIsSound` | a native fork ignores that its copy failed, and the child counts experiments that are not there (`mchw_core.c:537`) |
| `CounterConfig` | `McOtherType` | `ConfigIsSound` | a thread configured for core type 1 only has no current experiment, nor has its child (`mchw_core.c:540`, `1554`), and one that first runs on the other type keeps the wrong one (`1013-1016`) |
| `CounterConfig` | `McModuleOnPerf`, `McVirtualOnPerf` | `ConfigIsSound` | in the perf build configurations outlive their experiments (`mc_experiments.h:378`), and a thread of virtual counters only has no timer |
| `CounterConfig` | `{WithVirtual}` | `CF!ConfigOfOneOrigin` | a thread counts what the module gave it and what it asked for itself |
| `CounterConfig` | `McThreeStrings` | `CF!ModuleIsConfigured` | the third string of the module is dropped (`monitoring_mod.c:62`) |
| `ModuleLoad` (`MCCounters`) | `LoadSetups <- McHooksStay` | `LoadIsSound` | in a patched x86 kernel the two ftrace hooks stay when the module goes (`mchw_core.c:3720`) |
| `ModuleLoad` | `McManagerFails`, `McEntriesFail` | `LoadIsSound` | the last two steps, if they fail, are undone twice or leave the manager behind (`mchw_core.c:3696`) |
| `ModuleLoad` | `McPreemptedFailure`, `McPreemptedFork` | `LoadIsSound` | a preempted operation, or the stub of fork, is still running when the module is freed |
| `ModuleLoad` | | `NoProfileOutlivesTheModule`, `ForksSucceed` | nothing holds the module while threads have profiles; in a patched kernel forks fail while it is loaded (`mchw_core.c:416`) |

Further disagreements were met while modelling and are in the models as the code has them: `cache_part_set.c:485` compares
(`nr_old_partitions>0x1`) where its comment divides by two; `pair_clustering_core2` may lose a way with five applications
(`cache_partitioning.c:1404-1421`); the second Smart Power meter tells, in its first sample, the time before it was enabled; the cycle
counter of ARM cannot be sampled on and ignores the flags of the string; a timer of perf that is left without experiments, and more strings than
a set has room for, end in a fault (`oops` in `CounterConfig`; `mc_experiments.h:387`).
In `Pmctrack`: the sums of `-A` start from what `malloc` left (`SumsAreExact` says so; `pmctrack.c:1097`), a broken pipe ends the command with its threads attached (`pmctrack.c:1194`),
and an alarm that is still set ends the `wait4` for the child (`pmctrack.c:1161`).

### 3.1 Bounds, and why they are enough

* *Ring*: 3 samples of 2 bytes give every alignment of head and size, aligned and split copies, and
  overwriting by a full buffer; the code's arithmetic depends on nothing else. The theorems remove both bounds.
* *Samples buffer*: 3 threads allow a last, a last but one and a forked one; capacity 2 lets a full buffer
  overwrite; `MaxLeaks = 1` lets one reference be lost, after which the counter is never again what it should be. The theorems remove the bounds.
* *System-wide*: 2 processes are what the races need (a third would meet the same `EBUSY`), 2 CPUs
  distinguish "all visited" from "some visited". The theorems remove both bounds; the liveness
  properties are checked on the same instance.
* *Counting*: one thread, as profiles share nothing but the counters, which `OthersRun` lets anybody
  change; 2 CPUs of equal or different types; 1 or 2 experiments of each type; `MaxEvents = 2` tells "one
  lost" from "all lost"; 1 session, or 2 where the second is the point; a period of 1 or 2 ticks (with 2
  there is a tick that is not yet a sample). In TBS_SCHED_MODE the theorems remove all of these but the first session.
* *Attaching*: 3 monitors (an orphan, and two that fight for its target); `MaxRefs = 3` only cuts off
  behaviours in which references have already leaked twice. The theorems are about any number of monitors, and any `MaxRefs`.
* *Modules*: 3 modules (the dummy, one that looks into any thread's data and one that does not), 2 threads, each of which may be parent, child or bystander of the other. Reinitializing
  changes only what modules hold, which no hook looks at, so it is combined with deactivation alone. The theorems remove the numbers and take all commands together.
* *RMIDs*: fewer RMIDs than threads, so that the pool empties; `MaxActivations = 1` in the run, and 2, with which there is
  a stale pool, where section 3 says so. The theorem is about any number of threads and RMIDs and every policy, until the second activation.
* *Groups*: two threads of one application in two groups: one that is moved and one that stays, comes or goes meanwhile; the
  code treats applications independently of each other. `NrCpus` makes one group larger, which is what decides a migration.
* *Applications*: three structures for two threads and a container, as freed ones are not reused; two RMIDs, so that the pool can be empty. The theorems
  are about any number of threads, control groups, files, structures and RMIDs.
* *Cache*: three applications cover one, two and three clusters, and a merge among several; five ways do not divide evenly among two, three or
  four; workloads with steep, flat and crossing curves, light and streaming applications. Four classes of service leave three partitions.
* *Meters*: two, since the first to be plugged in is the one the module uses; two files, since a second one meets `started`;
  `MaxRefs = 3` only cuts off leaks. *Energy*: registers of modulus 3 that wrap while at most 4 units are spent on each of two packages, and the sum of the EDP is added to while it is at most that; `MaxTick = 3` and a ring of 2
  let a sample fall out unread. *Sensors*: halves of modulus 3, so that a carry happens.
  The theorems remove the numbers of meters, files, packages and sensors, and the widths of the registers.
* *Events*: counters modulo 4 with a window of 2 or 3: they overflow within a few steps, between any two operations; `MaxOwed = 5` exceeds
  the modulus, so one counter wraps more than once between samples; `MaxMissed = 1`: one interrupt is left behind, for which a width of the counter is granted. Two fixed and two general counters.
* *Configuration*: two threads (parent and child), two core types, sets of two: full, half full and empty; `MaxLost` only cuts off leaks. What is used besides (module, virtual counters, settings, late requests,
  moves) comes one or two at a time, as each acts on the sets of a thread through its own step.
* *The command*: two threads, either one launched or attached with the other, or alone, of which one may be created while monitored; a buffer of two and `MaxTicks = 2` besides the
  samples of exits overwrite samples, and a batch of two meets a limit of one in its middle. Two experiments, so that they can be mistaken for one another.
* *Loading*: one load and one unload, two threads; every step in its turn is the one that fails. The theorem is about any number of threads.

### 3.2 Fairness

`SamplesBuffer`: weak fairness of what runs to completion once it is in the kernel: a reader whose
semaphore is up, a reader that was woken or interrupted, an exiting thread that still has to drop its
reference. Nothing is assumed about samples, exits or signals.

`Syswide`: the timer keeps working (an armed timer expires, or its handler finishes), the call that was accepted goes on
(its steps exclude each other), a context switch ends: all weak. Interrupts of `on_each_cpu` get through under strong fairness: a CPU that switches
context again and again enables interrupts in between each time, and takes a pending one then.

`SchedGroups`: a ready thread gets a CPU in the end (strong: it may be preempted, or put to another group, again and again), enters the lists of the group it was moved to (`Joins`), does not keep the CPU while others wait, and
what was exiting dies; kernel threads, which run with real-time priority, go on (weak). Nothing is assumed about sleeps, wake-ups, the timer or exits.

`Pmctrack`: the command goes on, pending signals are handled, and a set alarm goes off (all weak). Nothing is assumed about samples, exits, Ctrl+C or time. `SessionEnds` is
about a program that was launched and has ended: a command that attached to threads may wait for ever, as `EndReachesReader` (section 3) shows.

Deadlock checking is off where the system may really stop: all threads and processes gone, or everybody
has used up its bound.

## 4. Proofs

TLAPS checks the following for every value of the constants that the named assumptions allow: `SamplesBufferAssumption`,
`SyswideAssumption`, `ConfigAssumption` (of `ThreadCounting`), `AttachAssumption`, `ModulesAssumption`, `RmidAssumption`,
`CBufferAssumption`, `SchedAppsAssumption`, `DevicesAssumption` and `LoadAssumption`. They give sets and numbers their types: finite sets where they are counted,
at least one sample in a ring, at least one byte in a sample. A condition that a theorem has beyond these is part of its statement, and
section 3 lists what happens without it.

**SamplesBuffer_proofs.** `RefsAreHolders` is inductive with type correctness and `ForksAreOwned`, which says that a child
between the reads of a fork has one parent, and that the parent is monitored unless a detach has overtaken the fork: what the next read loses is put down to that accident. `WakeupPending` is not
bounded by itself, so the inductive invariant adds `SemaphoreBudget`: the flag and the semaphore count
together are at most 2 while the reader is in `down`, and at most 1 otherwise. This is the argument why the
unlocked write of the flag cannot lose a wake-up and costs at most one spurious one. Theorems:
`BufferInvariance`, `BufferTypeCorrect`, `BufferOutlivesHolders`, `EofNeverPremature`, `NoLostWakeup`,
`SemaphoreNeverPilesUp`.

**Hardware_proofs, the ring.** The invariant (`RingInv`) says what the byte-level code keeps true: the contents, read from `head` around the end of
the vector, are whole samples in a row, `head` is at the beginning of one, and so is what a removal copied out. The lemmas are in
two layers. Byte by byte, `InsertQueues` and `RemoveTakes` show that the split copies append and take a sequence of bytes, wherever the
two pieces are divided. Sample by sample, `SampleInserted` and `SamplesRemoved` show that an insertion into a full vector drops exactly the oldest sample. With
these each step is a step of `SampleFifo`: `RingImplementsFifo`, for any capacity and size of a sample. `SamplesAreAlwaysWhole` adds
what the iterator yields: the function it walks the vector with is recursive, so its values are found by induction over the number of steps, as the minimal
counterexample of a set of numbers (`SetInduction`). A meter's head is below `max_size`, which the iterator relies on
and a reader's need not be.

**Syswide_proofs.** The inductive invariant is `TypeOK /\ SessionInv /\ TimerInv /\ RefreshInv /\ RefsInv`:
who is in which phase of start or stop determines `syswide_monitor` and the shared buffer; a pending timer
or a running handler implies that the mode is on or that its owner has not got past `del_timer_sync`; a
context switch past its test implies that its CPU has still to be visited; each reference has a holder.
Theorems: `SyswideInvariance`, `SyswideTypeCorrect`, `SingleSession`, `ReleaseIsSafe`,
`SetupIsUndisturbed`, `DeliveryIsSafe`, and the refinement `SyswideRefinesSession`.

**ThreadCounting_proofs.** In TBS_SCHED_MODE, context switches and ticks do everything, on the CPU where the thread is: the invariant
`SchedInv` says for the first session where each event is. A handler is a function on records, and lemmas say what each one returns:
`do_count_mc_experiment`, then the callbacks that call it, then the actions. The invariant (`First`) has one part per question: the last CPU of the thread, where it is known, is the one it runs on, and the current
experiment is of that CPU's core type (`Placed`); accumulated counts, the counter of that CPU while it counts, and the
sample are of the experiment and core type that are written on the sample (`OwnCounts`, `OwnCounter`, `OwnSample`); what was executed is the sum of what was delivered,
what is accumulated and what the counter shows (`Accounted`). Machine, experiments, period and numbers of events are arbitrary, and CPUs may be of either type. Theorems:
`SchedSamplesAreAlwaysFaithful`, `SchedEventsAreAlwaysConserved`. A later session finds the last CPU and the counts of the one before (`Stale` and `Reattach` in section 3), so the theorems are about the first; the timer of
TBS_USER_MODE, which operates on the thread from another CPU, is left to the runs.

**AttachDetach_proofs.** `IInv` is `AttachTypeOK`, `RefsCover` and `SessionIsConsistent`: the
references to a buffer are at least its holders. Equality fails under overlap (run `AttachDetach_race`);
the inequality is what keeps the buffer alive, and survives. When calls do not overlap, what was checked in one
critical section still holds in the next (`ChecksHold`), because one call is in progress (`OneCall`), and a target has no buffer once it has exited unless it was
attached later (`NoBufferAfterExit`); then the references are exactly the holders and what that attach may lose (`RefsAreExact`). Theorems:
`BufferAlwaysExists`, `SessionAlwaysConsistent`, and for serial calls `SerialRefsAreAlwaysHolders` and
`LiveMonitorAlwaysKeepsTarget`.

**Modules_proofs, the monitoring modules.** The owner of private data is not inductive by itself: a fork allocates with a module that it read before or reads now. `ReadsAreCurrent` says
that whoever is between two reads, and was not overtaken, has read what is current still; with it the module that a hook calls is the one that its thread is assigned to, or the hook is stale, or the thread torn. `DataIsOfLive` says that only
a live thread has data. For the balance, `EnabledInTurn` says which modules hold what they acquired at each step of an activation, and `CurrentIsEnabled` that the current one does. Commands fall between all
steps of forks and hooks. Theorems: `OwnerIsAlwaysTaskMod`, `CarefulModuleAlwaysReadsOwnData`, `ModulesAreAlwaysBalanced`.

**Modules_proofs, loading.** What a thread in the module may rely on depends on what the loader has yet to do, so the invariant (`LInv`) describes `todo`. The loader
is about to set up part k, and the parts before it are up (`SettingUp`); or it is idle (`Loaded`); or it takes down (`TakingDown`) a script that is `Tidy`: it names each part
that is up once, and the PMU after everything that threads are waited for; or it is done (`Over`). That the script of every step that may
fail is tidy is a lemma about the operators `out_error` and `pmctrack_module_exit`. For threads: whoever is still in an operation of a module that is no longer
registered, or in a stub that has been removed, is being waited for (`ReadersAreGone`, `StubsAreLeft`), so nobody is there when the PMU and the code go. Those who sleep are not waited for: they
have a reference, which they got from an initialized module, so that it was not being unloaded, and is not until they put it (`RefusedWhenGoing`). A
profile without a thread is of a fork that has yet to return (`ProfsFollowTasks`). Theorem: `LoadIsAlwaysSound`, under `Orderly`, for any number of threads and every step
that may fail; without `Orderly`, section 3 shows what happens.

**Hardware_proofs, the pool.** Until the module is enabled a second time (`RmidsAreAlwaysSound`): references are the threads that use an RMID, free list and
assigned array divide the RMIDs, no two processes share one. References alone do not carry the proof: between `put_rmid`, which drops one without the lock, and
`put_rmid_last`, an RMID is neither free nor referenced. `Users` says that exactly one thread is then on its way to give it back, so that it is in the array
when it gets there; and `Divided` that marks, list and array agree. The three
policies differ in the position of the list that an RMID is taken from, and the lemmas on lists are about every position; `NewListIsWhole` is about the list of a new pool, which may begin anywhere.

**SchedApps_proofs.** `Inv` has two halves, and `Started`: whoever has been a thread has an application that was allocated once. `AppInv` holds in every circumstance: each reference to an application is covered (`RefsCover`: at least as many
as there are threads, containers and files that hold it, and exactly as many unless two users share a file), a structure is allocated exactly while it has references
(`LiveIsCounted`), two control groups never have one application (`OwnContainers`), and what a file has found and not yet got is still there
unless the race that loses it is allowed (`FileSteps`, `FoundIsLive`, `NothingBad`). `RmidInv` is about the ordinary circumstances (`Ordinary`: refused forks, detached threads and children that nobody monitors are among them): the references to an RMID are its users and those whom nobody
will make put it (`RmidsCounted`), two
applications in use never have the same one (`UsedApart`). The two do not carry each other: a thread that is switched in for the first time writes the RMID of its
application, and whoever else used that application would be left with a reference to none. `FirstIsAlone` says that nobody does: a thread that was not given an RMID yet is
alone with its application, which has none. Each holder that comes or goes is an element of one of three sets of which the others are untouched, so the lemmas
say what adding or removing one element does to the sum. Theorems: `AppsAndRmidsAreAlwaysHeld` and `WildPointersAreNeverFollowed`, the last without the race and
the second registration of a container, which section 3 shows to be the ones that break it.

**Devices_proofs.** About `Devices`, each component for itself. *RAPL*: a register shows what was spent modulo its width; `CountsInv` says of each control that, as long as its
readings were of one package and less than a whole turn was spent there since the last, it has the register as last read and in its sum what was spent up to then (`Agrees`); one correction for the wrap is then
exact (`EnergyCountersAreAlwaysSound`). On which package code runs is arbitrary.
*Meters*: while no meter is unplugged under the module, a meter's references cover its uses, counted over the open files (and are exactly those if the module and files do not mix), a request that is active has somebody
who sent it, and the timer a reader (`MeterSteady`; `SmartPowerIsAlwaysSound`). Without files the timer is pending only between a start and a stop, also when a request was refused or a meter unplugged (`TimerIsStarted`). *Sensors*: `ThreadKnown` relates the meter,
the two halves last read and the sum of a thread to the energy spent while it ran and while it slept; whenever no reading was torn, it is told what was spent while it ran and, if it is sampled in its sleep, what was spent since it left the CPU. The register region is mapped exactly while the module is
enabled on Juno, and each sensor of a TC2 board is held once (`SensorsAreAlwaysSound`).

Only model-checked:

* liveness properties, and what depends on ENABLED: out of the prover's reach;
* `MeterEnergyIsSound`, `EventCountsAreExact` and `SamplingIsPunctual`: they add up a sequence of any length, or all the counters, with folds, and facts about folds need an
  induction over the operator that is folded; `CacheIsDivided`, whose algorithms are recursive operators;
* the lists of groups of the scheduler framework (`GroupListsAreSound`), the configuration of counters, and the command: not yet proved;
* the conjuncts about counting in TBS_USER_MODE, and about pools after the first.

## 5. What is not modelled, and the plan

Not modelled by choice: register accesses as such, detection of processors, formatting and parsing of text, USB transfers and hwmon
attributes, the GUI, kernel patches (except what the module relies on, in `ModuleLoad`) and scripts. Of modelled components:

* `ThreadCounting` leaves event-based sampling to `EventSampling` and virtual counters to `CounterConfig`.
* `AttachDetach` leaves out self-monitoring, and the `pid_monitor` command, which `Pmctrack` has.
* `Pmctrack` leaves out options and the text it prints, `-T 0`, builds without vfork, and how much of a virtual counter is added up.
* `MonitoringModules` leaves out loading (once, at start) and unloading (no caller).
* The scheduler framework is without the signals that stop and continue threads and without the profiling of threads as they become active;
  `SchedGroups` and `SchedApps` share no variable: lists do not depend on the references, nor references on the lists.
* The partitioning algorithms start from curves; the interpolation of curves from tables and the optimal search are left out.
* The PMU backends are without the counters outside the cores.

Components without a model: the fixed-point metrics and the phase table, the classes of service and the user-space variant of the RDT module, the
hardware feedback interface, IPC sampling, and what the user library does to text. In this order they would come next: the phase table and the metrics as pure
algorithms against reference definitions; the library's event names.

Theorems to come, in the order of what they say about the code: the lists of `SchedGroups`; the experiments and buffers of
`CounterConfig`; references and wake-ups in `Pmctrack`, from those of `SamplesBuffer`;
`ThreadCounting` in TBS_USER_MODE, with one experiment and a thread that is not woken up.
