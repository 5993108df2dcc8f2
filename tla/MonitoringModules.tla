----------------------------- MODULE MonitoringModules -----------------------------
(***********************************************************************************)
(* The monitoring-module manager (monitoring_mod.c).  One module at a time is      *)
(* current; the administrator replaces it through /proc/pmc/mm_manager, under the  *)
(* semaphore of the manager: the new one is enabled, the old one disabled, and then *)
(* the new one published.  The hooks of the kernel call the current module without  *)
(* that semaphore, reading it once to decide and again to call, and only for the    *)
(* threads that were created while it was current; every module keeps private data *)
(* of its own type in such a thread.                                                *)
(***********************************************************************************)
EXTENDS FiniteSets

CONSTANTS
    Module,         \* the modules loaded by init_mm_manager
    Dummy,          \* the default one, which keeps no data in the threads
    ReadsAny,       \* those that read the data of a thread not known to be theirs
    Task,           \* the threads
    NoModule,       \* no module, no data
    Repertoires     \* sets of commands, of which an administrator uses one

ASSUME ModulesAssumption ==
    /\ Dummy \in Module /\ NoModule \notin Module
    /\ ReadsAny \subseteq Module \ {Dummy}
    /\ Repertoires \subseteq SUBSET {"activate", "deactivate", "reinitialize"}

VARIABLES
    commands,       \* the commands the administrator uses: never changes
    cur_module,     \* mm_manager.cur_module
    ready,          \* the modules that hold what their enable_module acquires
    cmd,            \* the activation under way: its next step and the new module
    state,          \* of each thread: "none", "forking", "alive", "freed", or "oops"
    task_mod,       \* the module each thread is assigned to
    priv_data,      \* the module that allocated the private data of each thread
    hook,           \* the hook each thread is in: what is next, the module read or
                    \* called, and whether another was published since it was read
    torn,           \* history: threads in whose fork another module was published
    last            \* what the last step read, if it called a module on private data:
                    \* the module, the owner of the data, and whether no other module
                    \* was published between the reads that led to it
moduleVars == <<commands, cur_module, ready, cmd, state, task_mod, priv_data, hook, torn, last>>

threads == <<state, task_mod, priv_data>>

NoHook == [pc |-> "out", by |-> NoModule, stale |-> FALSE]
NoUse == [by |-> NoModule, of |-> NoModule, sound |-> TRUE]
NoCommand == [pc |-> "idle", new |-> NoModule]

init_mm_manager ==
    /\ cur_module = Dummy
    /\ ready = {Dummy}
    /\ cmd = NoCommand

ModulesInit ==
    /\ commands \in Repertoires
    /\ init_mm_manager
    /\ state = [t \in Task |-> "none"]
    /\ task_mod = [t \in Task |-> NoModule]
    /\ priv_data = [t \in Task |-> NoModule]
    /\ hook = [t \in Task |-> NoHook]
    /\ torn = {}
    /\ last = NoUse

HasFreeTask(m) == m \notin {NoModule, Dummy}

-----------------------------------------------------------------------------------
(* Commands of the administrator, one at a time under the semaphore.                *)

Commanded(c) == c \in commands /\ cmd.pc = "idle"

\* Seeded fault: the old module is disabled although the new one was not enabled.
Enable_IgnoresFailure(m) ==
    /\ Commanded("activate")
    /\ m # cur_module
    /\ ready' \in {ready \cup {m}, ready \ {m}}
    /\ cmd' = [pc |-> IF cur_module = NoModule THEN "publish" ELSE "disable", new |-> m]
    /\ last' = NoUse
    /\ UNCHANGED <<commands, cur_module, threads, hook, torn>>

\* The new module is enabled first; if it cannot be, its error path releases what it
\* holds and the old one stays.
Enable(m) ==
    /\ Commanded("activate")
    /\ m # cur_module
    /\ \/ /\ ready' = ready \cup {m}
          /\ cmd' = [pc |-> IF cur_module = NoModule THEN "publish" ELSE "disable", new |-> m]
       \/ /\ ready' = ready \ {m}
          /\ UNCHANGED cmd
    /\ last' = NoUse
    /\ UNCHANGED <<commands, cur_module, threads, hook, torn>>

\* The old one is disabled while it is current: hooks still find it.
disable_module ==
    /\ cmd.pc = "disable"
    /\ ready' = ready \ {cur_module}
    /\ cmd' = [cmd EXCEPT !.pc = "publish"]
    /\ last' = NoUse
    /\ UNCHANGED <<commands, cur_module, threads, hook, torn>>

\* Another module, or none, becomes current: whoever is between two reads is overtaken.
Overtakes(m) ==
    /\ cur_module' = m
    /\ last' = NoUse
    /\ hook' = [t \in Task |-> [hook[t] EXCEPT !.stale = hook[t].pc # "out"]]
    /\ torn' = torn \cup {t \in Task : state[t] = "forking"}

Publish ==
    /\ cmd.pc = "publish"
    /\ Overtakes(cmd.new)
    /\ cmd' = NoCommand
    /\ UNCHANGED <<commands, ready, threads>>

\* Activating a negative identifier leaves no module, and disables none.
deactivate ==
    /\ Commanded("deactivate")
    /\ cur_module # NoModule
    /\ Overtakes(NoModule)
    /\ UNCHANGED <<commands, ready, cmd, threads>>

\* enable_module is called again, on any module; its result is not looked at.
reinitialize_monitoring_module(m) ==
    /\ Commanded("reinitialize")
    /\ ready' \in {ready \cup {m}, ready \ {m}}
    /\ last' = NoUse
    /\ UNCHANGED <<commands, cur_module, cmd, threads, hook, torn>>

-----------------------------------------------------------------------------------
(* The life of a thread.                                                            *)

manager == <<commands, cur_module, ready, cmd, torn>>

\* What a second read of the current module, which the compiler may spare, returns.
Reread(t) == {hook[t].by, cur_module}

Sound(t) == ~hook[t].stale /\ t \notin torn

\* A module is called on the data of a thread.
Uses(m, d, t) == last' = [by |-> m, of |-> d, sound |-> Sound(t)]

Hooks(t, pc, m) ==
    hook' = [hook EXCEPT ![t] = [pc |-> pc, by |-> m, stale |-> @.stale]]
Leaves(t) == hook' = [hook EXCEPT ![t] = NoHook]

\* The call goes through a pointer that is NULL: that of the module, or that of a
\* callback which the module read last does not have.
Oops(t, m) ==
    /\ m = NoModule \/ (m = Dummy /\ hook[t].stale)
    /\ state' = [state EXCEPT ![t] = "oops"]
    /\ Leaves(t)
    /\ last' = NoUse
    /\ UNCHANGED <<manager, task_mod, priv_data>>

\* mod_alloc_per_thread_data reads the current module ...
Assign(t) ==
    /\ state[t] = "none"
    /\ state' = [state EXCEPT ![t] = "forking"]
    /\ task_mod' = [task_mod EXCEPT ![t] = cur_module]
    /\ last' = NoUse
    /\ UNCHANGED <<manager, priv_data, hook>>

\* ... mm_on_fork reads it again ...
ForkTests(t) ==
    /\ state[t] = "forking" /\ hook[t].pc = "out"
    /\ IF cur_module = NoModule
       THEN /\ state' = [state EXCEPT ![t] = "alive"]
            /\ UNCHANGED hook
       ELSE /\ Hooks(t, "fork", cur_module)
            /\ UNCHANGED state
    /\ last' = NoUse
    /\ UNCHANGED <<manager, task_mod, priv_data>>

\* Seeded fault: a thread shares the private data of another, if that has any.
mm_on_fork_Shares(t) ==
    /\ hook[t].pc = "fork"
    /\ state' = [state EXCEPT ![t] = "alive"]
    /\ \E m \in Reread(t) : \E d \in {m} \cup {priv_data[p] : p \in Task} :
          priv_data' = [priv_data EXCEPT ![t] = IF HasFreeTask(m) THEN d ELSE NoModule]
    /\ Leaves(t)
    /\ last' = NoUse
    /\ UNCHANGED <<manager, task_mod>>

\* ... and once more to call its on_fork, which allocates the data.  Some modules first
\* look into the data of the parent, another thread of the process.  If the module
\* cannot allocate, the profile is freed.
mm_on_fork(t) ==
    /\ hook[t].pc = "fork"
    /\ \E m \in Reread(t) :
         \/ m = NoModule /\ Oops(t, m)
         \/ /\ m # NoModule
            /\ state' = [state EXCEPT ![t] = "alive"]
            /\ priv_data' = [priv_data EXCEPT ![t] = IF HasFreeTask(m) THEN m ELSE NoModule]
            /\ \/ last' = NoUse
               \/ /\ m \in ReadsAny
                  /\ \E p \in Task : state[p] = "alive" /\ Uses(m, priv_data[p], t)
            /\ Leaves(t)
         \/ /\ HasFreeTask(m)
            /\ state' = [state EXCEPT ![t] = "freed"]
            /\ Leaves(t)
            /\ last' = NoUse
            /\ UNCHANGED priv_data
    /\ UNCHANGED <<manager, task_mod>>

mod_task_is_curr(t) == task_mod[t] # NoModule /\ cur_module = task_mod[t]

Outside(t) == state[t] = "alive" /\ hook[t].pc = "out"

\* Seeded fault: the current module is called for every thread.
Tests_AnyTask(t) ==
    /\ Outside(t) /\ cur_module # NoModule
    /\ \/ Hooks(t, "call", cur_module)
       \/ Hooks(t, "free", cur_module)
       \/ Hooks(t, "write", cur_module)
    /\ last' = NoUse
    /\ UNCHANGED <<manager, threads>>

\* A hook of the kernel finds the thread to be of the current module: one on behalf of
\* the thread, or the one that frees it.  Writing to /proc/pmc/config looks for no thread.
Tests(t) ==
    /\ Outside(t)
    /\ \/ mod_task_is_curr(t) /\ Hooks(t, "call", cur_module)
       \/ mod_task_is_curr(t) /\ Hooks(t, "free", cur_module)
       \/ cur_module # NoModule /\ Hooks(t, "write", cur_module)
    /\ last' = NoUse
    /\ UNCHANGED <<manager, threads>>

\* mm_on_exec, mm_on_new_sample, mm_on_tick, mm_on_migrate, mm_on_exit,
\* mm_on_switch_in, mm_on_switch_out and mm_get_current_metric_value.
Callback(t) ==
    /\ hook[t].pc = "call"
    /\ \E m \in Reread(t) :
         \/ Oops(t, m)
         \/ /\ m # NoModule
            /\ Hooks(t, "in", m)
            /\ IF m = Dummy THEN last' = NoUse ELSE Uses(m, priv_data[t], t)
            /\ UNCHANGED <<manager, state, task_mod, priv_data>>

CallbackReturns(t) ==
    /\ hook[t].pc = "in"
    /\ Leaves(t)
    /\ last' = NoUse
    /\ UNCHANGED <<manager, threads>>

\* mm_on_write_config, for the parameters some modules keep in the calling thread.
mm_on_write_config(t) ==
    /\ hook[t].pc = "write"
    /\ \E m \in Reread(t) :
         \/ m = NoModule /\ Oops(t, m)
         \/ /\ m # NoModule
            /\ Hooks(t, "in", m)
            /\ IF m \in ReadsAny /\ priv_data[t] # NoModule
               THEN Uses(m, priv_data[t], t)
               ELSE last' = NoUse
            /\ UNCHANGED <<manager, state, task_mod, priv_data>>

\* The data of the thread is freed by m, if there is any and m can.
FreedBy(t, m) ==
    /\ state' = [state EXCEPT ![t] = "freed"]
    /\ Leaves(t)
    /\ IF HasFreeTask(m)
       THEN /\ priv_data' = [priv_data EXCEPT ![t] = NoModule]
            /\ Uses(m, priv_data[t], t)
       ELSE last' = NoUse /\ UNCHANGED priv_data
    /\ UNCHANGED <<manager, task_mod>>

\* The current module frees the data of its threads; a module that is no longer current
\* is called by the thread that is assigned to it.
mm_on_free_task(t) ==
    \/ /\ hook[t].pc = "free"
       /\ \E m \in Reread(t) :
            \/ Oops(t, m)
            \/ HasFreeTask(m) /\ FreedBy(t, m)
            \/ m = Dummy /\ FreedBy(t, IF priv_data[t] # NoModule THEN task_mod[t] ELSE NoModule)
    \/ /\ Outside(t) /\ ~mod_task_is_curr(t)
       /\ FreedBy(t, IF priv_data[t] # NoModule THEN task_mod[t] ELSE NoModule)

-----------------------------------------------------------------------------------
Administration ==
    \/ \E m \in Module : Enable(m) \/ reinitialize_monitoring_module(m)
    \/ disable_module \/ Publish \/ deactivate

Thread(t) ==
    \/ Assign(t) \/ ForkTests(t) \/ mm_on_fork(t) \/ Tests(t) \/ Callback(t) \/ CallbackReturns(t)
    \/ mm_on_write_config(t) \/ mm_on_free_task(t)

ModulesNext == Administration \/ \E t \in Task : Thread(t)

ModulesSpec == ModulesInit /\ [][ModulesNext]_moduleVars

-----------------------------------------------------------------------------------
\* The manager and the threads are always in one of the states the code knows.
ModulesTypeOK ==
    /\ commands \in Repertoires
    /\ cur_module \in Module \cup {NoModule}
    /\ ready \subseteq Module
    /\ cmd \in [pc : {"idle", "disable", "publish"}, new : Module \cup {NoModule}]
    /\ state \in [Task -> {"none", "forking", "alive", "freed", "oops"}]
    /\ task_mod \in [Task -> Module \cup {NoModule}]
    /\ priv_data \in [Task -> Module \cup {NoModule}]
    /\ hook \in [Task -> [pc : {"out", "fork", "call", "write", "free", "in"},
                          by : Module \cup {NoModule}, stale : BOOLEAN]]
    /\ torn \subseteq Task
    /\ last \in [by : Module \cup {NoModule}, of : Module \cup {NoModule}, sound : BOOLEAN]

\* The private data of a live thread belongs to the module the thread is assigned to
\* (mc_experiments.h:284, "the monitoring module assigned to this task"), whatever is
\* activated meanwhile, unless another module was published in the middle of its fork.
OwnerIsTaskMod ==
    \A t \in Task \ torn : state[t] = "alive" => priv_data[t] \in {NoModule, task_mod[t]}

\* A callback only ever interprets private data its own module allocated
\* (mc_experiments.h:285, "private data for current monitoring module").
CallbackReadsOwnData == last.of \in {NoModule, last.by}

\* So do the callbacks of a module that looks at no data but that of the thread it is
\* called for, however the current module changes between and during the calls, unless it
\* changes between the two reads of this very call, or of the fork of this very thread.
CarefulModuleReadsOwnData ==
    last.by \notin ReadsAny /\ last.sound => CallbackReadsOwnData

\* However often the current module changes, also while it frees it, the private data of
\* a thread is freed with it (mm_on_free_task, "if the monitoring module was changed in
\* between"), unless the thread was torn.
NoLeak == \A t \in Task \ torn : state[t] = "freed" => priv_data[t] = NoModule

\* The current module holds what it acquired when it was enabled, until it is disabled
\* to be replaced by one that does.
CurrentIsReady ==
    IF cmd.pc = "publish" THEN cmd.new \in ready
    ELSE cur_module # NoModule => cur_module \in ready

\* A module that is neither current nor about to be holds nothing.
OnlyCurrentIsReady == ready \subseteq {cur_module, cmd.new}

\* As long as modules are only activated, with success or not, exactly the current one
\* is enabled between activations: each enable_module is met by one disable_module.
ActivationsAreBalanced ==
    commands \subseteq {"activate"} => CurrentIsReady /\ OnlyCurrentIsReady

\* A thread in a callback is in a module that is enabled, unless that one is about to be
\* replaced or was replaced since the hook looked at it: no hook gets into a module before
\* it is enabled, or into one whose activation failed.
CalledIsReady ==
    commands \subseteq {"activate", "deactivate"} =>
        \A t \in Task : hook[t].pc = "in" /\ hook[t].by \notin ready =>
            \/ hook[t].stale
            \/ cmd.pc = "publish" /\ hook[t].by = cur_module

\* Whatever the current module is, and however it became that: the data of a thread is
\* freed with it, modules that are only activated are enabled and disabled in turn, and
\* hooks that run meanwhile are in modules that are enabled.
ModulesAreBalanced == ModulesTypeOK /\ NoLeak /\ ActivationsAreBalanced /\ CalledIsReady
===================================================================================
