------------------------------- MODULE ModuleLoad -------------------------------
(***********************************************************************************)
(* Loading and unloading PMCTrack's kernel module (mchw_core.c) while threads run:  *)
(* the steps of its initialization and what is undone when one fails, the hooks it  *)
(* puts into a kernel that was not patched for it (pmctrack_stub.c), and the        *)
(* operations that these hooks, or the patched kernel, call in the module.          *)
(*                                                                                 *)
(* One load and one unload.  What an operation does is kept as what becomes of the  *)
(* profile of its thread.  A patched kernel has the code of pmctrack_stub.c up to   *)
(* the hooks itself; otherwise that code is in the module.                          *)
(***********************************************************************************)
EXTENDS Integers, FiniteSets, Sequences, SequencesExt

CONSTANTS
    Caller,         \* the threads, any of which may call the module
    LoadSetups      \* values of load

ASSUME LoadAssumption ==
    /\ IsFiniteSet(Caller)
    /\ LoadSetups \subseteq [build : {"patched", "unpatched"}, arch : {"x86", "arm"},
                             fails : STRING, preempts : BOOLEAN]

VARIABLES
    load,           \* build: "patched" or not; arch; fails: the step that fails; preempts:
                    \* the kernel may preempt a thread that runs in the kernel
    mod,            \* state of the module in the kernel
    todo,           \* what initialization, or cleanup, has yet to do
    up,             \* what has been set up
    twice,          \* something that is not there has been removed
    implementer,    \* the module is registered
    refs,           \* references to the module
    pmctrack_initializing,
    waits,          \* calls the loader waits for
    call,           \* what each thread calls: the operation, where it is, its result
    task,           \* state of each thread
    prof            \* state of its profile
loadVars == <<load, mod, todo, up, twice, implementer, refs, pmctrack_initializing,
              waits, call, task, prof>>

Patched == load.build = "patched"
Absent == "none"

-----------------------------------------------------------------------------------
(* Hooks, and who calls what from them.                                             *)

Tracepoints == IF Patched THEN <<>> ELSE <<"sched_switch", "sched_process_exit">>
ftrace_hooks ==
    (IF Patched THEN <<>>
     ELSE <<"free_task">> \o (IF load.arch = "x86" THEN <<>> ELSE <<"copy_semundo">>)
              \o <<"sched_exec", "scheduler_tick", "finish_task_switch">>)
    \o (IF load.arch = "x86" THEN <<"perf_event_nmi_handler", "intel_thermal_interrupt">>
                             ELSE <<>>)
Kprobes == IF ~Patched /\ load.arch = "x86" THEN <<"copy_semundo">> ELSE <<>>
Stubs == Tracepoints \o ftrace_hooks \o Kprobes

Hook == [fork |-> "copy_semundo", exit |-> "sched_process_exit", free |-> "free_task",
         save |-> "sched_switch", restore |-> "finish_task_switch",
         tick |-> "scheduler_tick", exec |-> "sched_exec",
         thermal |-> "intel_thermal_interrupt"]
Blocking == {"fork", "exit", "free"}
\* The thermal interrupt calls no operation of the interface.
Calls(op) == IF op = "thermal" THEN Hook[op] \in up
             ELSE Patched \/ Hook[op] \in up
May(t, op) == task[t] = CASE op = "fork" -> "unborn" [] op = "free" -> "dead" [] OTHER -> "alive"
StateAfter(t, op, failed) ==
    CASE op = "fork" -> (IF failed /\ Patched THEN "unborn" ELSE "alive")
      [] op = "exit" -> "dead"
      [] op = "free" -> "unborn"
      [] OTHER -> task[t]

-----------------------------------------------------------------------------------
(* Where a call is: it has "entered" the stub, is "reading" under RCU or has "got"  *)
(* the module, is "in" the operation or "asleep" there, and is "leaving" the stub.  *)

Idle == [op |-> Absent, pc |-> "idle", failed |-> FALSE]
InModule(c) == c.pc \in {"in", "asleep"} \/ (~Patched /\ c.pc # "idle")

\* What synchronize_rcu, and the removal of a hook, waits for: a kernel that does not
\* preempt, until the thread sleeps or returns to user mode; one that does, as long as
\* preemption is off, which the stub of fork turns on.
Holds(c) ==
    IF load.preempts
    THEN /\ c.op # "fork" /\ c.pc # "idle"
         /\ ~Patched \/ c.op = "thermal" \/ (c.op \notin Blocking /\ c.pc \in {"reading", "in"})
    ELSE c.pc \notin {"idle", "asleep"}

Goes(t, c) ==
    /\ call' = [call EXCEPT ![t] = c]
    /\ waits' = IF Holds(c) THEN waits ELSE waits \ {t}
    /\ UNCHANGED <<load, mod, todo, up, twice, pmctrack_initializing>>
At(t, pc) == Goes(t, [call[t] EXCEPT !.pc = pc])

Enters(t, op) ==
    /\ call[t] = Idle /\ May(t, op)
    /\ IF Calls(op)
       THEN /\ Goes(t, [op |-> op, pc |-> IF op = "thermal" THEN "in" ELSE "entered",
                        failed |-> FALSE])
            /\ UNCHANGED task
       ELSE op \in Blocking /\ task' = [task EXCEPT ![t] = StateAfter(t, op, FALSE)] /\ Goes(t, Idle)
    /\ UNCHANGED <<implementer, refs, prof>>

\* pmcs_save_callback, pmcs_restore_callback, pmcs_tbs_tick, pmcs_exec_thread: whether
\* there is a module is looked at before the read side begins, and again in it.
Reads(t) ==
    /\ call[t].op \notin Blocking
    /\ \/ call[t].pc = "entered" /\ At(t, IF implementer THEN "reading" ELSE "leaving")
       \/ call[t].pc = "reading" /\ At(t, IF implementer THEN "in" ELSE "leaving")
    /\ UNCHANGED <<implementer, refs, task, prof>>

\* pmcs_alloc_per_thread_data, pmcs_exit_thread, pmcs_free_per_thread_data: these take a
\* reference, under the lock, which a module being unloaded refuses.
try_module_get(t) ==
    /\ call[t].op \in Blocking /\ call[t].pc = "entered"
    /\ LET got == implementer /\ mod # "going"
       IN  /\ refs' = IF got THEN refs + 1 ELSE refs
           /\ At(t, IF got THEN "got" ELSE "leaving")
    /\ UNCHANGED <<implementer, task, prof>>

\* The operations are looked up again, without the lock.
Dereferences(t) ==
    /\ call[t].pc = "got"
    /\ At(t, IF implementer THEN "in" ELSE "done")
    /\ UNCHANGED <<implementer, refs, task, prof>>

\* mod_alloc_per_thread_data allocates, and mod_exit_thread releases the event that
\* carries the profile when the kernel is not patched: both may sleep.
Sleeps(t) ==
    /\ call[t].pc = "in"
    /\ \/ call[t].op = "fork" /\ ~pmctrack_initializing
       \/ call[t].op = "exit" /\ prof[t] = "live" /\ ~Patched
    /\ At(t, "asleep")
    /\ UNCHANGED <<implementer, refs, task, prof>>

\* What the operation does to the profile.  That of a thread that exits goes into a list
\* until the thread is freed.
ProfAfter(op, refused, p) ==
    CASE op = "fork" /\ ~refused -> "live"
      [] op = "exit" /\ p = "live" -> "exited"
      [] op = "free" -> Absent
      [] OTHER -> p

Runs(t) ==
    LET c == call[t]
        refused == c.op = "fork" /\ pmctrack_initializing
    IN  /\ (c.pc = "in" /\ c.op # "thermal") \/ c.pc = "asleep"
        /\ prof' = [prof EXCEPT ![t] = ProfAfter(c.op, refused, @)]
        /\ Goes(t, [c EXCEPT !.pc = IF c.op \in Blocking THEN "done" ELSE "leaving",
                             !.failed = refused])
        /\ UNCHANGED <<implementer, refs, task>>

\* implementer is NULL if the module has been unregistered meanwhile.
module_put(t) ==
    /\ call[t].pc = "done"
    /\ refs' = IF implementer THEN refs - 1 ELSE refs
    /\ At(t, "leaving")
    /\ UNCHANGED <<implementer, task, prof>>

Returns(t) ==
    /\ call[t].pc = "leaving" \/ call[t].op = "thermal"
    /\ task' = [task EXCEPT ![t] = StateAfter(t, call[t].op, call[t].failed)]
    /\ Goes(t, Idle)
    /\ UNCHANGED <<implementer, refs, prof>>

-----------------------------------------------------------------------------------
(* The loader.                                                                      *)

Adds(part) == [does |-> "add", part |-> part]
Removes(part) == [does |-> "remove", part |-> part]
Becomes(state) == [does |-> "become", part |-> state]

\* The parts, in the order in which they are set up, and those of pmctrack_stub.c in the
\* order in which pmctrack_exit takes them down.
Parts == <<"pmu">> \o Stubs \o <<"registered", "dir", "manager", "entries", "syswide">>
pmctrack_exit == ftrace_hooks \o Tracepoints \o Kprobes

Undo(parts) == [i \in DOMAIN parts |-> Removes(parts[i])] \o <<Becomes("gone")>>

pmctrack_module_init ==
    [i \in DOMAIN Parts |-> Adds(Parts[i])] \o <<Becomes("initialized"), Becomes("live")>>
pmctrack_module_exit ==
    Undo((IF Patched THEN <<>> ELSE pmctrack_exit)
         \o <<"registered", "pmu", "manager", "entries", "syswide", "dir">>)

\* fh_install_hooks, trace_event_init and pmctrack_init undo what they did: hooks from
\* the last to the first when one of them fails.
Before(parts, failed) ==
    SubSeq(parts, 1, (CHOOSE i \in DOMAIN parts : parts[i] = failed) - 1)
UndoneStubs(failed) ==
    CASE failed \in ToSet(Tracepoints) -> Before(Tracepoints, failed)
      [] failed \in ToSet(ftrace_hooks) -> Reverse(Before(ftrace_hooks, failed)) \o Tracepoints
      [] OTHER -> ftrace_hooks \o Tracepoints

\* The manager and the entries, when they fail, have removed what they had made; and
\* only the step that failed is undone of those after the directory.
out_error(failed) ==
    Undo(CASE failed = "pmu" -> <<>>
           [] failed \in ToSet(Stubs) -> UndoneStubs(failed) \o <<"pmu">>
           [] failed = "registered" -> pmctrack_exit \o <<"pmu">>
           [] failed = "dir" -> pmctrack_exit \o <<"registered", "pmu">>
           [] OTHER -> pmctrack_exit \o <<"registered", "pmu", failed, "dir">>)

Loader(step) == todo # <<>> /\ Head(todo) = step /\ waits = {}
Idles == UNCHANGED <<load, call, task, prof, refs>>

SetUp(part) ==
    /\ Loader(Adds(part))
    /\ IF load.fails = part
       THEN todo' = out_error(part) /\ UNCHANGED <<up, implementer>>
       ELSE /\ todo' = Tail(todo) /\ up' = up \cup {part}
            /\ implementer' = (implementer \/ part = "registered")
    /\ UNCHANGED <<mod, twice, pmctrack_initializing, waits>> /\ Idles

Waited == ToSet(Stubs) \cup {"registered"}

\* Seeded fault: unregister_pmc_module does not wait for those that read.
TakeDown_NoWait(part) ==
    /\ Loader(Removes(part))
    /\ todo' = Tail(todo) /\ up' = up \ {part}
    /\ twice' = (twice \/ part \notin up)
    /\ implementer' = (implementer /\ part # "registered")
    /\ waits' = IF part \in ToSet(Stubs) THEN {t \in Caller : Holds(call[t])} ELSE {}
    /\ UNCHANGED <<mod, pmctrack_initializing>> /\ Idles

TakeDown(part) ==
    /\ Loader(Removes(part))
    /\ todo' = Tail(todo) /\ up' = up \ {part}
    /\ twice' = (twice \/ part \notin up)
    /\ implementer' = (implementer /\ part # "registered")
    /\ waits' = IF part \in Waited THEN {t \in Caller : Holds(call[t])} ELSE {}
    /\ UNCHANGED <<mod, pmctrack_initializing>> /\ Idles

Become(state) ==
    /\ Loader(Becomes(state))
    /\ todo' = Tail(todo)
    /\ mod' = IF state = "initialized" THEN mod ELSE state
    /\ pmctrack_initializing' = (pmctrack_initializing /\ state # "initialized")
    /\ UNCHANGED <<up, twice, implementer, waits>> /\ Idles

\* rmmod: the kernel refuses while somebody has a reference.
delete_module ==
    /\ mod = "live" /\ todo = <<>> /\ refs = 0
    /\ mod' = "going" /\ todo' = pmctrack_module_exit
    /\ UNCHANGED <<up, twice, implementer, pmctrack_initializing, waits>> /\ Idles

LoadInit ==
    /\ load \in LoadSetups
    /\ mod = "coming" /\ todo = pmctrack_module_init /\ up = {} /\ twice = FALSE
    /\ implementer = FALSE /\ refs = 0 /\ pmctrack_initializing = TRUE /\ waits = {}
    /\ call = [t \in Caller |-> Idle]
    /\ task \in [Caller -> {"unborn", "alive"}]
    /\ prof = [t \in Caller |-> Absent]

Load ==
    \/ todo # <<>> /\ \E s \in {Head(todo)} : SetUp(s.part) \/ TakeDown(s.part) \/ Become(s.part)
    \/ delete_module
Operation(t) ==
    \/ \E op \in DOMAIN Hook : Enters(t, op)
    \/ Reads(t) \/ try_module_get(t) \/ Dereferences(t) \/ Sleeps(t) \/ Runs(t)
    \/ module_put(t) \/ Returns(t)

LoadNext == Load \/ \E t \in Caller : Operation(t)
LoadSpec == LoadInit /\ [][LoadNext]_loadVars

-----------------------------------------------------------------------------------
(* Properties.                                                                      *)

\* No thread is in code, or returns to code, that is no longer there.
CodeIsThere == mod = "gone" => \A t \in Caller : ~InModule(call[t])

\* An operation runs only while the PMU is set up; and no operation that may sleep runs
\* in a module that is being unloaded.
OperationsHavePmu ==
    \A t \in Caller : call[t].pc \in {"in", "asleep"} =>
        /\ "pmu" \in up
        /\ call[t].op \in Blocking => mod # "going"

\* Initialization that fails, and unloading, leave nothing behind and remove nothing
\* that is not there.
NothingIsLeft == ~twice /\ (mod = "gone" => up = {} /\ ~implementer)

\* The references to the module are the calls that have one, as long as it is registered.
ModuleRefsAreCalls ==
    implementer =>
        refs = Cardinality({t \in Caller : call[t].op \in Blocking
                                          /\ call[t].pc \in {"got", "in", "asleep", "done"}})

\* A thread has a profile only if it was born when the module had been loaded, and none
\* is left of a thread that the kernel has freed while the module was loaded.
ProfilesAreFreed ==
    \A t \in Caller : /\ pmctrack_initializing => prof[t] = Absent
                    /\ (mod = "live" /\ task[t] = "unborn" /\ call[t] = Idle) => prof[t] = Absent

\* Whichever step fails, and whatever threads do while the module is loaded and
\* unloaded.
LoadIsSound ==
    CodeIsThere /\ OperationsHavePmu /\ NothingIsLeft /\ ModuleRefsAreCalls /\ ProfilesAreFreed

\* The circumstances in which it is: neither of the last steps fails, which are undone
\* wrongly; a patched kernel on x86, whose hooks would stay, fails before it is loaded; and
\* a kernel that preempts is a patched one, and unregisters no module that is not loaded.
Orderly ==
    /\ load.fails \notin {"manager", "entries", "syswide"}
    /\ Patched /\ load.arch = "x86" => load.fails \in ToSet(Parts)
    /\ load.preempts => Patched /\ load.arch # "x86" /\ load.fails # "dir"

\* Nothing holds the module while there are profiles: it may be unloaded under threads
\* whose profile, and whose timer, refer to it.
NoProfileOutlivesTheModule == mod = "gone" => \A t \in Caller : prof[t] = Absent
\* In a patched kernel no thread can be born while the module is being loaded.
ForksSucceed == \A t \in Caller : ~call[t].failed \/ ~Patched
=================================================================================
