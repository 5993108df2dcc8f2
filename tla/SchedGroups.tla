------------------------------- MODULE SchedGroups -------------------------------
(***********************************************************************************)
(* Lists of active threads and migrations between groups of CPUs, as the scheduler *)
(* framework (pmcsched.c) and its two plugins for groups (group_plugin.c,          *)
(* busybcs_plugin.c) keep them.  A group is the set of CPUs that share a           *)
(* last-level cache, or are of one core type.  Hooks of the context switch put     *)
(* threads into the lists of the group they run in; a timer per group requests     *)
(* migrations; a kernel thread per group carries them out without the lock.        *)
(*                                                                                 *)
(* Everything done under the locks of groups is one step.  A list is a sequence;   *)
(* removing what is not in the list, or inserting what already is, corrupts the    *)
(* memory of the kernel, and so does following a list to a thread that was freed:  *)
(* "bad" records it, and nothing is modelled after that.                           *)
(***********************************************************************************)
EXTENDS Integers, Sequences, SequencesExt, FiniteSets

CONSTANTS
    Thread,     \* the threads
    App,        \* the applications
    AppOf,      \* the application of each thread
    Big, Small, \* the groups of CPUs, AMP_FAST_CORE and AMP_SLOW_CORE for busybcs
    NoGroup,    \* a null pointer to a group
    NrCpus,     \* online CPUs of each group
    Setups      \* the circumstances to consider, see Init

Group == {Big, Small}
Other(g) == IF g = Big THEN Small ELSE Big

\* What is assumed of the constants (MCScheduler).
SchedGroupsAssumption ==
    /\ IsFiniteSet(Thread)
    /\ AppOf \in [Thread -> App]
    /\ Big # Small /\ NoGroup \notin Group
    /\ NrCpus \in [Group -> Nat \ {0}]

VARIABLES
    setup,      \* the threads there are, the plugin, and what may happen
    l,          \* the lists of the groups
    d,          \* pmcsched_thread_data_t of each thread
    run,        \* what each thread does
    where,      \* the group each thread runs in or is queued in; Small if it is not
    allowed,    \* the groups each thread may run in (its affinity mask)
    enabled,    \* the threads that are profiled (prof_enabled)
    woken,      \* the groups whose kernel thread was woken up
    kthread     \* the local list of each kernel thread, and how far it is
threads == <<run, where, allowed, enabled>>
vars == <<setup, l, d, threads, woken, kthread>>

\* migration_state_t
Completed == 0
Requested == 1
Started == 2

sched_thread_group_t ==
    [active : [Group -> Seq(Thread)], appActive : [Group \X App -> Seq(Thread)],
     activeApps : [Group -> Seq(App)], migration : [Group -> Seq(Thread)], bad : BOOLEAN]
pmcsched_thread_data_t ==
    [runnable : BOOLEAN, cur_group : Group \cup {NoGroup}, mig : {Completed, Requested, Started}]

\* A thread goes from one state to the next: asleep -> ready -> running -> ready,
\* asleep or exiting -> dead -> freed.  "switching" is a thread on its CPU that has left
\* the lists of one group and is not yet in those of the other.
OnCpu == {"switching", "running", "exiting"}
Pending(t) == d[t].mig # Completed

Init ==
    /\ setup \in Setups
    /\ l = [active     |-> [g \in Group |-> <<>>],
            appActive  |-> [k \in Group \X App |-> <<>>],
            activeApps |-> [g \in Group |-> <<>>],
            migration  |-> [g \in Group |-> <<>>],
            bad        |-> FALSE]
    /\ d = [t \in Thread |-> [runnable |-> FALSE, cur_group |-> NoGroup,
                              mig |-> Completed]]
    /\ run = [t \in Thread |-> IF t \in setup.exist THEN "asleep" ELSE "freed"]
    /\ where = [t \in Thread |-> Small]
    /\ allowed = [t \in Thread |-> Group]
    /\ enabled = Thread
    /\ woken = {}
    /\ kthread = [g \in Group |-> [todo |-> <<>>, put |-> FALSE]]

-----------------------------------------------------------------------------------
(* The lists.  A thread has one link for the lists of active threads of all groups, *)
(* one for their migration lists, and one for the local lists of kernel threads.    *)

\* Seeded fault: an application is listed again with each of its threads.
on_active_thread_ListsAgain(L, t, g) ==
    LET k == <<g, AppOf[t]>>
    IN  [L EXCEPT !.active[g] = Append(@, t),
                  !.appActive[k] = Append(@, t),
                  !.activeApps[g] = Append(@, AppOf[t])]

on_active_thread(L, t, g) ==
    LET k == <<g, AppOf[t]>>
    IN  [L EXCEPT !.active[g] = Append(@, t),
                  !.appActive[k] = Append(@, t),
                  !.activeApps[g] = IF L.appActive[k] = <<>> THEN Append(@, AppOf[t]) ELSE @,
                  !.bad = @ \/ \E h \in Group : Contains(L.active[h], t)]

on_inactive_thread(L, t, g) ==
    LET k == <<g, AppOf[t]>>
    IN  [L EXCEPT !.active[g] = RemoveFirst(@, t),
                  !.appActive[k] = RemoveFirst(@, t),
                  !.activeApps[g] = IF RemoveFirst(L.appActive[k], t) = <<>>
                                    THEN RemoveFirst(@, AppOf[t]) ELSE @,
                  !.bad = @ \/ ~Contains(L.active[g], t)]

AddMigrating(L, t, g) ==
    [L EXCEPT !.migration[g] = Append(@, t),
              !.bad = @ \/ \E h \in Group : Contains(L.migration[h], t)]

RemoveMigrating(L, t, g) ==
    [L EXCEPT !.migration[g] = RemoveFirst(@, t),
              !.bad = @ \/ ~Contains(L.migration[g], t)]

\* group_plugin forgets the group of a thread that is not active; busybcs keeps it.
Forgotten(g) == IF setup.plugin = "group" THEN NoGroup ELSE g

-----------------------------------------------------------------------------------
(* Hooks of the context switch.                                                     *)

\* Seeded fault: the migration is completed, and the thread stays in the list.
on_migrate_thread_KeepsRequest(t) == on_inactive_thread(l, t, d[t].cur_group)

\* The first critical section of on_migrate_thread, under the lock of the group that t
\* leaves: what it does to the lists.
on_migrate_thread(t) ==
    LET old == d[t].cur_group
    IN  on_inactive_thread(IF Pending(t) THEN RemoveMigrating(l, t, old) ELSE l, t, old)

\* The hook is called in the modes of the scheduler, not in those of the user.  A thread
\* that was inactive has just been put into the lists of the right group.
Migrated(t) == setup.hooked /\ d[t].runnable /\ d[t].cur_group # where[t]

\* pmcsched_on_switch_in, and on_migrate if the CPU is of another group, as far as the
\* lock of the first group is held.
SwitchIn(t) ==
    LET g == where[t]
    IN  /\ run[t] = "ready"
        /\ Cardinality({u \in Thread : run[u] \in OnCpu /\ where[u] = g}) < NrCpus[g]
        /\ \/ /\ t \notin enabled \/ (d[t].runnable /\ ~Migrated(t))
              /\ run' = [run EXCEPT ![t] = "running"]
              /\ UNCHANGED <<l, d>>
           \/ /\ t \in enabled /\ ~d[t].runnable
              /\ run' = [run EXCEPT ![t] = "running"]
              /\ l' = on_active_thread(l, t, g)
              /\ d' = [d EXCEPT ![t].runnable = TRUE, ![t].cur_group = g]
           \/ /\ t \in enabled /\ Migrated(t)
              /\ run' = [run EXCEPT ![t] = "switching"]
              /\ l' = on_migrate_thread(t)
              /\ d' = [d EXCEPT ![t].cur_group = Forgotten(@), ![t].mig = Completed]
        /\ UNCHANGED <<setup, where, allowed, enabled, woken, kthread>>

\* Its second critical section, under the lock of the group t is in now.
Joins(t) ==
    /\ run[t] = "switching"
    /\ run' = [run EXCEPT ![t] = "running"]
    /\ l' = on_active_thread(l, t, where[t])
    /\ d' = [d EXCEPT ![t].cur_group = where[t]]
    /\ UNCHANGED <<setup, where, allowed, enabled, woken, kthread>>

\* pmcsched_on_switch_out of a thread that stops running: it becomes inactive.
BecomeInactive(t) ==
    IF t \in enabled /\ d[t].runnable
    THEN /\ l' = on_inactive_thread(l, t, d[t].cur_group)
         /\ d' = [d EXCEPT ![t].runnable = FALSE, ![t].cur_group = Forgotten(@)]
    ELSE UNCHANGED <<l, d>>

\* A migration that is pending is not disturbed when the circumstances are steady.
Undisturbed(t) == setup.steady => ~Pending(t)

Sleep(t) ==
    /\ run[t] = "running" /\ Undisturbed(t)
    /\ run' = [run EXCEPT ![t] = "asleep"] /\ where' = [where EXCEPT ![t] = Small]
    /\ BecomeInactive(t)
    /\ UNCHANGED <<setup, allowed, enabled, woken, kthread>>

on_exit_thread(t) ==
    IF t \in enabled /\ d[t].cur_group # NoGroup /\ Pending(t)
    THEN /\ l' = RemoveMigrating(l, t, d[t].cur_group)
         /\ d' = [d EXCEPT ![t].mig = Completed]
    ELSE UNCHANGED <<l, d>>

\* pmcsched_on_exit; the thread runs until its last context switch.
Exit(t) ==
    /\ run[t] = "running" /\ Undisturbed(t)
    /\ run' = [run EXCEPT ![t] = "exiting"]
    /\ on_exit_thread(t)
    /\ UNCHANGED <<setup, where, allowed, enabled, woken, kthread>>

Die(t) ==
    /\ run[t] = "exiting"
    /\ run' = [run EXCEPT ![t] = "dead"] /\ where' = [where EXCEPT ![t] = Small]
    /\ BecomeInactive(t)
    /\ UNCHANGED <<setup, allowed, enabled, woken, kthread>>

-----------------------------------------------------------------------------------
(* The kernel: external.                                                            *)

\* Seeded fault: kernel threads take no reference to the tasks of their lists.
Held_Never(t) == FALSE

\* A reference to the task that a kernel thread holds.
Held(t) == \E g \in Group : Contains(kthread[g].todo, t)
                            /\ ~(kthread[g].put /\ Head(kthread[g].todo) = t)

\* The descriptor of a dead thread is freed with its last reference, and
\* pmcsched_thread_data_t with it.
Free(t) ==
    /\ run[t] = "dead" /\ ~Held(t)
    /\ run' = [run EXCEPT ![t] = "freed"]
    /\ UNCHANGED <<setup, l, d, where, allowed, enabled, woken, kthread>>

Wake(t) ==
    /\ run[t] = "asleep"
    /\ run' = [run EXCEPT ![t] = "ready"]
    /\ \E g \in allowed[t] : where' = [where EXCEPT ![t] = g]
    /\ UNCHANGED <<setup, l, d, allowed, enabled, woken, kthread>>

Preempt(t) ==
    /\ run[t] = "running"
    /\ run' = [run EXCEPT ![t] = "ready"]
    /\ UNCHANGED <<setup, l, d, where, allowed, enabled, woken, kthread>>

Balance(t) ==
    /\ run[t] = "ready" /\ Other(where[t]) \in allowed[t]
    /\ where' = [where EXCEPT ![t] = Other(@)]
    /\ UNCHANGED <<setup, l, d, run, allowed, enabled, woken, kthread>>

\* The monitor of the thread detaches: no hook of it is called any longer.
Detach(t) ==
    /\ setup.detaches /\ t \in enabled /\ run[t] \notin {"switching", "dead", "freed"}
    /\ enabled' = enabled \ {t}
    /\ UNCHANGED <<setup, l, d, run, where, allowed, woken, kthread>>

-----------------------------------------------------------------------------------
(* Timers and kernel threads.                                                       *)

\* In steady circumstances migrations take less than the period of the timers, and
\* no timer fires between the exit of a thread and its last context switch.
Quiet == setup.steady => /\ \A t \in Thread : ~Pending(t) /\ run[t] # "exiting"
                         /\ \A g \in Group : kthread[g].todo = <<>>

\* Seeded fault: the kernel thread of the group of a thread that forgot it.
Wakeup_Forgotten(g) == woken' = woken \cup {Forgotten(g)}

\* Seeded fault: the kernel thread is not woken up.
Wakeup_Never(g) == UNCHANGED woken

\* A kernel thread that is told to run while it does misses it.
Wakeup(g) == woken' = IF kthread[g].todo = <<>> THEN woken \cup {g} ELSE woken

\* Every third tick the first thread of the first application is sent away.
sched_timer_periodic_group(g) ==
    /\ setup.plugin = "group" /\ l.activeApps[g] # <<>>
    /\ LET t == Head(l.appActive[<<g, Head(l.activeApps[g])>>])
       IN  IF Pending(t) THEN UNCHANGED <<l, d>>
           ELSE l' = AddMigrating(l, t, g) /\ d' = [d EXCEPT ![t].mig = Requested]
    /\ Wakeup(g)

FreeBigCores == NrCpus[Big] - Len(l.active[Big])

\* The first n threads of the list of group g are all sent to the other group.
SendAway(n, g) ==
    LET chosen == SubSeq(l.active[g], 1, n)
    IN  /\ l' = [l EXCEPT !.migration[g] = @ \o chosen,
                          !.bad = @ \/ \E t \in ToSet(chosen), h \in Group :
                                          Contains(l.migration[h], t)]
        /\ d' = [t \in Thread |-> IF t \in ToSet(chosen)
                                  THEN [d[t] EXCEPT !.mig = Requested] ELSE d[t]]

NothingPending == \A g \in Group : l.migration[g] = <<>>

\* The timer of the big cores steals from the small ones as many threads as there are
\* free big cores.  That of the small cores is to take what the big ones have in
\* excess, but the condition of its loop is that there is a free big core: it never
\* takes anything.
sched_timer_periodic_busybcs ==
    /\ setup.plugin = "busybcs"
    /\ NothingPending
    /\ Len(l.active[Big]) + Len(l.active[Small]) <= NrCpus[Big] + NrCpus[Small]
    /\ FreeBigCores > 0 /\ l.active[Small] # <<>>
    /\ SendAway(IF FreeBigCores < Len(l.active[Small]) THEN FreeBigCores
                ELSE Len(l.active[Small]), Small)
    /\ Wakeup(Small)

Timer ==
    /\ Quiet
    /\ sched_timer_periodic_busybcs \/ \E g \in Group : sched_timer_periodic_group(g)
    /\ UNCHANGED <<setup, threads, kthread>>

\* The kernel thread drops from the migration list what it started in an earlier
\* pass, and takes a reference to the others.
Collect(g) ==
    LET fresh == SelectSeq(l.migration[g], LAMBDA t : d[t].mig # Started)
    IN  /\ g \in woken /\ kthread[g].todo = <<>>
        /\ woken' = woken \ {g}
        /\ kthread' = [kthread EXCEPT ![g].todo = fresh]
        /\ l' = [l EXCEPT !.migration[g] = fresh,
                          !.bad = @ \/ (\E t \in ToSet(l.migration[g]) : run[t] = "freed")
                            \/ \E t \in ToSet(fresh), h \in Group :
                                 Contains(kthread[h].todo, t)]
        /\ d' = [t \in Thread |-> IF t \in ToSet(fresh) THEN [d[t] EXCEPT !.mig = Started]
                                  ELSE d[t]]
        /\ UNCHANGED <<setup, threads>>

MovedByKthread(t) == Pending(t)

\* Without the lock: the thread is moved to the other group (dst_group), and
\* the reference to its task released.
Migrate(g) ==
    /\ kthread[g].todo # <<>> /\ ~kthread[g].put
    /\ LET t == Head(kthread[g].todo)
       IN  IF MovedByKthread(t)
           THEN /\ allowed' = [allowed EXCEPT ![t] = {Other(g)}]
                /\ where' = IF run[t] \in {"ready", "running"}
                            THEN [where EXCEPT ![t] = Other(g)] ELSE where
                /\ run' = IF run[t] = "running" /\ where[t] # Other(g)
                          THEN [run EXCEPT ![t] = "ready"] ELSE run
           ELSE UNCHANGED <<allowed, where, run>>
    /\ kthread' = [kthread EXCEPT ![g].put = TRUE]
    /\ UNCHANGED <<setup, l, d, enabled, woken>>

\* The next thread of the local list is read from the one just released.
NextThread(g) ==
    /\ kthread[g].put
    /\ kthread' = [kthread EXCEPT ![g] = [todo |-> Tail(@.todo), put |-> FALSE]]
    /\ UNCHANGED <<setup, l, d, threads, woken>>

-----------------------------------------------------------------------------------
Hooks(t) == SwitchIn(t) \/ Joins(t) \/ Sleep(t) \/ Exit(t) \/ Die(t)
Kernel(t) == Free(t) \/ Wake(t) \/ Preempt(t) \/ Balance(t) \/ Detach(t)
Kthread(g) == Collect(g) \/ Migrate(g) \/ NextThread(g)

\* After the memory of a list is corrupted anything may happen: nothing is modelled.
Next ==
    /\ ~l.bad
    /\ \/ \E t \in Thread : Hooks(t) \/ Kernel(t)
       \/ Timer
       \/ \E g \in Group : Kthread(g)

\* A ready thread gets a CPU in the end, and does not keep it while others wait;
\* kernel threads have real-time priority; and a hook runs to its end.
Fairness ==
    /\ \A t \in Thread : /\ SF_vars(~l.bad /\ SwitchIn(t))
                         /\ WF_vars(~l.bad /\ (Joins(t) \/ Preempt(t) \/ Die(t)))
    /\ \A g \in Group : WF_vars(~l.bad /\ Kthread(g))

Spec == Init /\ [][Next]_vars /\ Fairness

-----------------------------------------------------------------------------------
\* The lists are lists of threads and applications, and their states are known.
TypeOK ==
    /\ setup \in Setups
    /\ l \in sched_thread_group_t
    /\ d \in [Thread -> pmcsched_thread_data_t]
    /\ kthread \in [Group -> [todo : Seq(Thread), put : BOOLEAN]]
    /\ run \in [Thread -> {"asleep", "ready", "dead", "freed"} \cup OnCpu]
    /\ where \in [Thread -> Group]
    /\ allowed \in [Thread -> SUBSET Group]
    /\ enabled \subseteq Thread /\ woken \subseteq Group

\* The lists of active threads, of active applications and of the active threads of
\* each application agree with what the threads do, through every migration and
\* however sleeps, exits and kernel threads interleave: a thread is in the lists of
\* its group, once, exactly while it is runnable, but for the moment between the two
\* locks of a migration, and an application is active in a group exactly while one of
\* its threads is.  (A thread that detaches from its
\* monitor runs no hook any longer, and stays where it was.)
ActiveListsAreExact ==
    ~setup.detaches /\ ~l.bad =>
      \A g \in Group :
        /\ IsInjective(l.active[g]) /\ IsInjective(l.activeApps[g])
        /\ ToSet(l.active[g]) =
             {t \in Thread : d[t].runnable /\ run[t] # "switching" /\ d[t].cur_group = g}
        /\ ToSet(l.activeApps[g]) = {AppOf[t] : t \in ToSet(l.active[g])}
        /\ \A a \in App : l.appActive[<<g, a>>] =
             SelectSeq(l.active[g], LAMBDA t : AppOf[t] = a)

\* "MIGRATION_COMPLETED: thread is not in migration list" (pmcsched.h:312), and a
\* thread whose migration was requested or started is in the list of the group it is
\* active in.  No list is ever corrupted.  (Steady circumstances.)
MigrationListIsExact ==
    setup.steady =>
      /\ ~l.bad
      /\ \A g \in Group :
           /\ IsInjective(l.migration[g])
           /\ ToSet(l.migration[g]) = {t \in Thread : Pending(t) /\ d[t].cur_group = g}

\* A thread that runs is accounted to the group of the CPU it runs on.  (The hook for
\* migrations is called in the modes of the scheduler, not in those of the user.)
RunsInItsGroup ==
    \A t \in enabled : run[t] = "running" => d[t].cur_group = where[t]

\* The lists of a group, of its active threads and applications and of the threads that
\* leave it, say where each thread is and where it is going.
ListsAreExact == TypeOK /\ ActiveListsAreExact /\ MigrationListIsExact /\ RunsInItsGroup

\* The kernel thread that moves threads without the lock finds every task of its
\* local list alive, even if threads exit meanwhile, but for the one it has just released;
\* and no list leads to a thread that was freed.
ListsLeadToLiveThreads ==
    ~l.bad => \A t \in Thread : run[t] = "freed" =>
      /\ \A g \in Group : Contains(kthread[g].todo, t) =>
                              kthread[g].put /\ t = Head(kthread[g].todo)
      /\ \A g \in Group : Contains(l.active[g], t) => setup.detaches
      /\ \A g \in Group : Contains(l.migration[g], t) => ~setup.steady

\* "To prevent process from going away" (group_plugin.c:55) the kernel thread holds a
\* reference to each task of its local list: what it reads the next one from, after it
\* released the reference, is still there.
CursorIsAlive ==
    \A g \in Group : kthread[g].put => run[Head(kthread[g].todo)] # "freed"

\* A thread that was moved to another group is found there, or is on its way, and the
\* migration that was requested is completed in the end.
MigrationCompletes ==
    \A t \in Thread : setup.steady /\ Pending(t) ~> ~Pending(t) \/ l.bad

\* No list of the kernel is corrupted, whatever threads do while they are migrated.
NoCorruption == ~l.bad

\* A big core with more threads than it can run is relieved ("Act only in case of
\* oversubscription", busybcs_plugin.c:135).
BigCoresAreRelieved ==
    []<>(Len(l.active[Big]) <= NrCpus[Big] \/ \E t \in ToSet(l.active[Big]) : where[t] = Small)
===================================================================================
