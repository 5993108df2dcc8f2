-------------------------------- MODULE SchedApps --------------------------------
(***********************************************************************************)
(* Applications of the scheduler framework (sched_app_t of pmcsched.c): who refers *)
(* to one, and who refers to its RMID.  Threads of a process share an application, *)
(* processes of a registered container share the one of the container, and files   *)
(* of /proc/pmc/sched_qos hold the application they track.  An application is freed *)
(* with its last reference; its RMID goes back to the pool with its own last one.   *)
(* The administrator registers containers and changes the scheduler with writes to  *)
(* /proc/pmc/sched, which hold the lock of schedulers from beginning to end.        *)
(***********************************************************************************)
EXTENDS Integers, FiniteSets

CONSTANTS
    Thread,     \* the threads
    Cgroup,     \* the control groups, and the one of each thread
    CgroupOf,
    App,        \* the structures that may be allocated; a freed one is not reused
    File,       \* open files of sched_qos
    Rmid,       \* the identifiers of the pool
    NoApp,      \* a null pointer
    Setups      \* what may happen beyond the ordinary, each a set of strings:
                \* "shared"   two threads use a file at a time
                \* "race"     an application goes away while a file finds it
                \* "detach"   monitors detach from threads
                \* "dirty"    memory comes with old contents
                \* "again"    a container is registered twice
                \* "change"   the scheduler is changed
                \* "invalid"  invalid values are written
                \* "early"    threads fork before they are switched in as monitored ones
                \* "refused"  the scheduler has a hook that refuses threads

ASSUME SchedAppsAssumption ==
    /\ CgroupOf \in [Thread -> Cgroup]
    /\ NoApp \notin App
    /\ Rmid \subseteq Nat \ {0}
    /\ IsFiniteSet(Thread) /\ IsFiniteSet(Cgroup) /\ IsFiniteSet(File)

VARIABLES
    setup,      \* the circumstances
    app,        \* sched_app_t: ref_counter, the RMID, and whether it is allocated
    th,         \* pmcsched_thread_data_t and its thread
    container,  \* the application registered for each control group, or NoApp
    file,       \* private_data of each file, and operations under way on it
    pool,       \* the references to each RMID, and the free ones
    locked,     \* schedulers_lock is held by nobody who will release it
    bad         \* memory was used after it was freed, or a wild pointer followed
vars == <<setup, app, th, container, file, pool, locked, bad>>

sched_app_t == [state : {"unused", "live", "freed"}, refs : Nat, rmid : Rmid \cup {0}]
pmcsched_thread_data_t ==
    [state : {"none", "alive", "gone", "freed", "refused"}, enabled : BOOLEAN,
     first : {"no", "yes", "container_no", "container_yes"}, app : App \cup {NoApp}]

Init ==
    /\ setup \in Setups
    /\ app = [a \in App |-> [state |-> "unused", refs |-> 0, rmid |-> 0]]
    /\ th = [t \in Thread |-> [state |-> "none", enabled |-> FALSE, first |-> "no",
                               app |-> NoApp]]
    /\ container = [g \in Cgroup |-> NoApp]
    /\ file = [f \in File |-> [app |-> NoApp, found |-> NoApp, readers |-> {}]]
    /\ pool = [refs |-> [r \in Rmid |-> 0], free |-> Rmid]
    /\ locked = FALSE /\ bad = FALSE

-----------------------------------------------------------------------------------
(* RMIDs: see RmidPool for the pool.                                                *)

\* The RMID that get_rmid returns, 0 if there is none, with the pool it leaves.
Taken(r) == [pool EXCEPT !.refs = [q \in Rmid |-> IF q = r THEN @[q] + 1 ELSE @[q]],
                         !.free = @ \ {r}]
Takeable == IF pool.free = {} THEN {0} ELSE pool.free

use_rmid(r) == [pool EXCEPT !.refs = [q \in Rmid |-> IF q = r /\ q \notin pool.free
                                                     THEN @[q] + 1 ELSE @[q]]]

put_rmid(P, r) ==
    LET counted == {q \in Rmid \ P.free : q = r}
    IN  [refs |-> [q \in Rmid |-> IF q \in counted THEN P.refs[q] - 1 ELSE P.refs[q]],
         free |-> P.free \cup {q \in counted : P.refs[q] = 1}]

-----------------------------------------------------------------------------------
(* Applications.                                                                    *)

Unused == {a \in App : app[a].state = "unused"}

Created(A, a) == [A EXCEPT ![a] = [state |-> "live", refs |-> 1, rmid |-> 0]]

get_sched_app(A, a) == [A EXCEPT ![a].refs = @ + 1]

put_sched_app(A, a) ==
    [A EXCEPT ![a].refs = @ - 1, ![a].state = IF A[a].refs = 1 THEN "freed" ELSE @]

Freed(a) == app[a].state = "freed"

-----------------------------------------------------------------------------------
(* Callbacks of threads.                                                            *)

\* The thread t becomes one of those of application a, which is there already.
JoinsApp(t, a, state, first, on) ==
    /\ th' = [th EXCEPT ![t] = [state |-> state, enabled |-> on, first |-> first, app |-> a]]
    /\ app' = get_sched_app(app, a)
    /\ pool' = use_rmid(app[a].rmid)

pmcsched_retrieve_container(t) == container[CgroupOf[t]]

\* The thread is the first of a process, or its parent is not monitored.  Nothing says
\* in a container whether it is switched in for the first time.
NewProcess(t) ==
    LET c == pmcsched_retrieve_container(t)
    IN  IF c # NoApp
        THEN \E first \in IF "dirty" \in setup THEN {"container_yes", "container_no"}
                          ELSE {"container_no"} : JoinsApp(t, c, "alive", first, TRUE)
        ELSE /\ Unused # {}
             /\ LET a == CHOOSE x \in Unused : TRUE
                IN  /\ th' = [th EXCEPT ![t] = [state |-> "alive", enabled |-> FALSE,
                                                first |-> "yes", app |-> a]]
                    /\ app' = Created(app, a)
             /\ UNCHANGED pool

\* The monitored threads that may be the parent of t.  One that was switched in since it
\* is monitored has its RMID.
Parents(t) ==
    {p \in Thread : /\ th[p].state = "alive" /\ th[p].enabled /\ CgroupOf[p] = CgroupOf[t]
                    /\ th[p].first = "no" \/ (th[p].first = "yes" /\ "early" \in setup)}

\* The thread of a monitored process is monitored (on), unless that monitors itself.
NewThread(t) ==
    \E p \in Parents(t), on \in BOOLEAN : JoinsApp(t, th[p].app, "alive", "no", on)

\* The fork fails because the scheduler refuses the thread.  An application made for it
\* is freed again; the references it took to another one, and to its RMID, are kept.
Refused(t) ==
    /\ "refused" \in setup
    /\ \E a \in {th[p].app : p \in Parents(t)} \cup ({pmcsched_retrieve_container(t)} \ {NoApp}) :
         JoinsApp(t, a, "refused", "no", FALSE)

pmcsched_on_fork(t) ==
    /\ th[t].state = "none"
    /\ NewProcess(t) \/ NewThread(t) \/ Refused(t)
    /\ UNCHANGED <<setup, container, file, locked, bad>>

\* The thread is monitored from now on, or no longer.
SetEnabled(t, on) ==
    /\ th[t].state = "alive" /\ th[t].enabled # on
    /\ ~on => "detach" \in setup
    /\ th' = [th EXCEPT ![t].enabled = on]
    /\ UNCHANGED <<setup, app, container, file, pool, locked, bad>>

\* The pool, the applications and the flag that __give_rmid leaves, as triples.
__give_rmid(t) ==
    CASE th[t].first = "container_no"  -> {<<pool, app, "no">>}
      [] th[t].first = "container_yes" -> {<<pool, app, "yes">>}
      [] th[t].first = "no"             -> {<<pool, app, "no">>}
      [] th[t].first = "yes" ->
           {<<Taken(r), [app EXCEPT ![th[t].app].rmid = r], "no">> : r \in Takeable}

pmcsched_on_switch_in(t) ==
    /\ th[t].state = "alive" /\ th[t].enabled /\ th[t].first # "no"
    /\ \E x \in __give_rmid(t) : /\ pool' = x[1] /\ app' = x[2]
                                 /\ th' = [th EXCEPT ![t].first = x[3]]
    /\ UNCHANGED <<setup, container, file, locked, bad>>

pmcsched_on_exit(t) ==
    /\ th[t].state = "alive" /\ \A f \in File : t \notin file[f].readers
    /\ IF th[t].enabled
       THEN \E x \in __give_rmid(t) :
              /\ pool' = put_rmid(x[1], x[2][th[t].app].rmid) /\ app' = x[2]
              /\ th' = [th EXCEPT ![t].state = "gone", ![t].first = x[3]]
       ELSE th' = [th EXCEPT ![t].state = "gone"] /\ UNCHANGED <<pool, app>>
    /\ UNCHANGED <<setup, container, file, locked, bad>>

\* An application that a file found, and did not get yet, stays; unless it may not.
Kept(a) == "race" \in setup \/ app[a].refs > 1 \/ \A f \in File : file[f].found # a

pmcsched_on_free_task(t) ==
    /\ th[t].state = "gone" /\ Kept(th[t].app)
    /\ th' = [th EXCEPT ![t].state = "freed"]
    /\ app' = put_sched_app(app, th[t].app)
    /\ UNCHANGED <<setup, container, file, pool, locked, bad>>

-----------------------------------------------------------------------------------
(* Writes to /proc/pmc/sched.                                                       *)

\* Some process of the control group is there to name it.
Named(g) == \E t \in Thread : CgroupOf[t] = g /\ th[t].state \in {"alive", "gone"}

\* If there is one already, what was to be the new one is freed: a variable that was
\* never given a value.
pmcsched_register_container(g) ==
    /\ Named(g)
    /\ IF container[g] = NoApp
       THEN /\ Unused # {}
            /\ LET a == CHOOSE x \in Unused : TRUE
               IN  /\ container' = [container EXCEPT ![g] = a]
                   /\ \E r \in Takeable : /\ app' = [Created(app, a) EXCEPT ![a].rmid = r]
                                          /\ pool' = Taken(r)
            /\ UNCHANGED bad
       ELSE /\ "again" \in setup
            /\ bad' \in BOOLEAN
            /\ UNCHANGED <<app, container, pool>>
    /\ UNCHANGED <<setup, th, file, locked>>

pmcsched_free_container(a) ==
    /\ pool' = put_rmid(pool, app[a].rmid)
    /\ app' = put_sched_app(app, a)

pmcsched_unregister_container(g) ==
    /\ Named(g) /\ container[g] # NoApp /\ Kept(container[g])
    /\ container' = [container EXCEPT ![g] = NoApp]
    /\ pmcsched_free_container(container[g])
    /\ UNCHANGED <<setup, th, file, locked, bad>>

\* The containers whose application has an RMID.
UsingContainers(r) == {g \in Cgroup : container[g] # NoApp /\ app[container[g]].rmid = r}

\* Whether or not a process names the group.  Each container has an application of its
\* own; but after a change of scheduler two of these may have the same RMID, and what is
\* put once it is free stays free.
pmcsched_unregister_all_containers ==
    LET all == {container[g] : g \in Cgroup} \ {NoApp}
        puts(r) == Cardinality(UsingContainers(r))
        gone == {r \in Rmid \ pool.free : 0 < puts(r) /\ pool.refs[r] <= puts(r)}
    IN  /\ all # {} /\ \A a \in all : Kept(a)
        /\ container' = [g \in Cgroup |-> NoApp]
        /\ pool' = [refs |-> [r \in Rmid |-> IF r \in gone THEN 0
                                             ELSE IF r \in pool.free THEN pool.refs[r]
                                             ELSE pool.refs[r] - puts(r)],
                    free |-> pool.free \cup gone]
        /\ app' = [a \in App |-> IF a \in all THEN put_sched_app(app, a)[a] ELSE app[a]]
        /\ UNCHANGED <<setup, th, file, locked, bad>>

\* The new scheduler finds a new pool of RMIDs; the applications keep theirs.
SetScheduler ==
    /\ "change" \in setup
    /\ pool' = [refs |-> [r \in Rmid |-> 0], free |-> Rmid]
    /\ UNCHANGED <<setup, app, th, container, file, locked, bad>>

\* A period of normal scheduling; an invalid one is refused at the end.
SetPeriod == UNCHANGED locked

\* An invalid period of profiling is refused without releasing the lock.
SetProfilingPeriod == locked' = ("invalid" \in setup)

SetPeriods ==
    /\ SetPeriod \/ SetProfilingPeriod
    /\ UNCHANGED <<setup, app, th, container, file, pool, bad>>

pmcsched_proc_write ==
    /\ ~locked
    /\ \/ \E g \in Cgroup : \/ pmcsched_register_container(g)
                            \/ pmcsched_unregister_container(g)
       \/ pmcsched_unregister_all_containers
       \/ SetScheduler
       \/ SetPeriods

-----------------------------------------------------------------------------------
(* Files of /proc/pmc/sched_qos.                                                    *)

Idle(f) == file[f].found = NoApp /\ (file[f].readers = {} \/ "shared" \in setup)

\* track_rmid and track_pid look for a container, and take no reference.
Track(f) ==
    /\ Idle(f) /\ file[f].app = NoApp
    /\ \E g \in Cgroup : /\ container[g] # NoApp
                         /\ file' = [file EXCEPT ![f].found = container[g]]
    /\ UNCHANGED <<setup, app, th, container, pool, locked, bad>>

\* Seeded fault: the file stores what it found without a reference.
TrackGet_TakesNone(f) ==
    /\ file[f].found # NoApp
    /\ file' = [file EXCEPT ![f].app = file[f].found, ![f].found = NoApp]
    /\ UNCHANGED <<setup, app, th, container, pool, locked, bad>>

\* The reference is taken afterwards.
TrackGet(f) ==
    /\ file[f].found # NoApp
    /\ file' = [file EXCEPT ![f].app = file[f].found, ![f].found = NoApp]
    /\ app' = get_sched_app(app, file[f].found)
    /\ bad' = (bad \/ Freed(file[f].found))
    /\ UNCHANGED <<setup, th, container, pool, locked>>

\* A file that tracks nothing gets the application of the thread that reads it.
Read(f, t) ==
    /\ th[t].state = "alive"
    /\ Idle(f) /\ file[f].app = NoApp /\ t \notin file[f].readers
    /\ file' = [file EXCEPT ![f].readers = @ \cup {t}]
    /\ UNCHANGED <<setup, app, th, container, pool, locked, bad>>

ReadGet(f, t) ==
    /\ t \in file[f].readers /\ th[t].state = "alive"
    /\ file' = [file EXCEPT ![f].readers = @ \ {t}, ![f].app = th[t].app]
    /\ app' = get_sched_app(app, th[t].app)
    /\ UNCHANGED <<setup, th, container, pool, locked, bad>>

\* untrack_rmid, or the release of the file.
Untrack(f) ==
    /\ Idle(f) /\ file[f].app # NoApp /\ Kept(file[f].app)
    /\ file' = [file EXCEPT ![f].app = NoApp]
    /\ app' = put_sched_app(app, file[f].app)
    /\ bad' = (bad \/ Freed(file[f].app))
    /\ UNCHANGED <<setup, th, container, pool, locked>>

-----------------------------------------------------------------------------------
Callbacks(t) ==
    \/ pmcsched_on_fork(t) \/ pmcsched_on_switch_in(t)
    \/ pmcsched_on_exit(t) \/ pmcsched_on_free_task(t)
    \/ \E on \in BOOLEAN : SetEnabled(t, on)

FileOperation(f) ==
    \/ Track(f) \/ TrackGet(f) \/ Untrack(f)
    \/ \E t \in Thread : Read(f, t) \/ ReadGet(f, t)

Next ==
    /\ ~bad
    /\ \/ \E t \in Thread : Callbacks(t)
       \/ pmcsched_proc_write
       \/ \E f \in File : FileOperation(f)

Spec == Init /\ [][Next]_vars

-----------------------------------------------------------------------------------
\* Every field holds a value of its type.
TypeOK ==
    /\ setup \in Setups
    /\ app \in [App -> sched_app_t]
    /\ th \in [Thread -> pmcsched_thread_data_t]
    /\ container \in [Cgroup -> App \cup {NoApp}]
    /\ file \in [File -> [app : App \cup {NoApp}, found : App \cup {NoApp},
                          readers : SUBSET Thread]]
    /\ pool \in [refs : [Rmid -> Nat], free : SUBSET Rmid]
    /\ locked \in BOOLEAN /\ bad \in BOOLEAN

Harmless(hazards) == setup \cap hazards = {}

\* Those that refer to an application.
ThreadsOf(a) == {t \in Thread : th[t].app = a /\ th[t].state \in {"alive", "gone", "refused"}}
ContainersOf(a) == {g \in Cgroup : container[g] = a}
FilesOf(a) == {f \in File : file[f].app = a}
Holders(a) == Cardinality(ThreadsOf(a)) + Cardinality(ContainersOf(a)) + Cardinality(FilesOf(a))

\* The references to an application are the threads that were not freed, the files
\* that track it and the container it is registered for: it is never freed under one
\* of them, and never survives them all.  (A fork that the scheduler refuses leaves a
\* reference that nobody puts.)
AppRefsAreHolders ==
    Harmless({"shared", "race", "again"}) =>
      \A a \in App : /\ app[a].refs = Holders(a)
                     /\ app[a].state = "live" <=> Holders(a) > 0

\* The references to an RMID are the threads that live and were given it, the containers
\* registered with it, and those that nobody will put: of the threads that exited when
\* they were not monitored, children of one that monitors itself or left by their
\* monitor, and of refused forks.  It is not lost otherwise, and the hardware counts the
\* memory traffic of no other application under it.
LeavesRmid(t) == th[t].state = "refused" \/ (th[t].state \in {"gone", "freed"} /\ ~th[t].enabled)
UsingThreads(r) == {t \in Thread : /\ th[t].state = "alive" \/ LeavesRmid(t)
                                   /\ th[t].first # "yes" /\ app[th[t].app].rmid = r}
RmidRefsAreUsers ==
    Harmless({"early", "dirty", "again", "change"}) =>
      \A r \in Rmid :
        /\ pool.refs[r] = Cardinality(UsingThreads(r)) + Cardinality(UsingContainers(r))
        /\ r \in pool.free <=> pool.refs[r] = 0

\* Two applications, of monitored threads or of containers, never share an RMID.
RmidsAreApart ==
    LET used == {th[t].app : t \in {u \in Thread : th[u].state = "alive" /\ th[u].enabled}}
                  \cup ({container[g] : g \in Cgroup} \ {NoApp})
    IN  Harmless({"early", "dirty", "again", "change"}) =>
          \A a, b \in used : a # b /\ app[a].rmid # 0 => app[a].rmid # app[b].rmid

\* In no circumstance is memory used after it is freed, or a wild pointer followed.
NoWildPointer == ~bad

\* In no circumstance does an application outlive its holders.
AppsAreFreed == \A a \in App : app[a].state = "live" => Holders(a) > 0

\* In no circumstance is an RMID used when nothing refers to it.
RmidsInUseAreHeld ==
    \A t \in Thread : th[t].state = "alive" /\ th[t].enabled =>
        app[th[t].app].rmid \notin pool.free

\* In no circumstance is an RMID lost: one that is not free is of an application.
RmidsComeBack ==
    \A r \in Rmid \ pool.free : \E a \in App : app[a].state = "live" /\ app[a].rmid = r

\* The commands for the scheduler can always be given.
CommandsGoOn == ~locked

\* What a file holds, or is about to get, is there.
FilesHoldLiveApps ==
    Harmless({"race", "again"}) =>
      \A f \in File : \A a \in {file[f].app, file[f].found} \ {NoApp} : ~Freed(a)

\* An application lasts as long as a thread, container or file refers to it, its RMID as
\* long as it has users, and no two applications in use have the same.
AppsAndRmidsAreHeld ==
    TypeOK /\ AppRefsAreHolders /\ RmidRefsAreUsers /\ RmidsAreApart /\ FilesHoldLiveApps
===================================================================================
