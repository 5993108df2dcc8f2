------------------------------ MODULE Modules_proofs ------------------------------
(***********************************************************************************)
(* What PMCTrack guarantees of modules: of its monitoring modules, for any set of   *)
(* modules, threads and commands; and of its own, while it is loaded and unloaded,  *)
(* for any set of threads and whichever step fails.                                 *)
(***********************************************************************************)
EXTENDS MonitoringModules, ModuleLoad, FiniteSetTheorems, SequenceTheorems, TLAPS

-----------------------------------------------------------------------------------
(* MonitoringModules.  mod_alloc_per_thread_data and mm_on_fork read the current     *)
(* module for the same thread, and a hook reads it to decide and again to call.  The *)
(* reads agree unless another module was published in between; then, and only then,  *)
(* a thread may be torn or a hook stale, and everything follows from what the others *)
(* read being what is current.                                                       *)

\* What a hook that was not overtaken has read is the current module; the forks that
\* were not overtaken assign it, and so is the thread that is looked up or freed.
ReadsAreCurrent ==
    \A t \in Task :
      /\ hook[t].pc # "out" /\ ~hook[t].stale => hook[t].by = cur_module
      /\ hook[t].pc # "out" => hook[t].by # NoModule
      /\ hook[t].pc \in {"call", "free"} => hook[t].by = task_mod[t]
      /\ state[t] = "forking" /\ t \notin torn => task_mod[t] = cur_module
      /\ hook[t].pc = "out" => ~hook[t].stale
      /\ hook[t].pc = "fork" => state[t] = "forking"
      /\ hook[t].pc = "fork" /\ hook[t].stale => t \in torn
      /\ hook[t].pc \in {"call", "write", "free", "in"} => state[t] = "alive"

\* Private data exists only between mm_on_fork and mm_on_free_task, and the default
\* module never allocates any: mm_on_free_task would not free it.
DataIsOfLive ==
    \A t \in Task : /\ state[t] \in {"none", "forking"} => priv_data[t] = NoModule
                    /\ priv_data[t] # Dummy

IInv ==
    /\ ModulesTypeOK
    /\ ReadsAreCurrent
    /\ DataIsOfLive
    /\ OwnerIsTaskMod
    /\ NoLeak

HookType == [pc : {"out", "fork", "call", "write", "free", "in"},
             by : Module \cup {NoModule}, stale : BOOLEAN]

\* Where a hook goes, and what stays as it is.
LEMMA HooksIs ==
    ASSUME ModulesTypeOK, NEW t \in Task, NEW m \in Module \cup {NoModule},
           NEW pc \in {"out", "fork", "call", "write", "free", "in"}, Hooks(t, pc, m)
    PROVE  /\ hook' \in [Task -> HookType]
           /\ hook'[t].pc = pc /\ hook'[t].by = m /\ hook'[t].stale = hook[t].stale
           /\ \A q \in Task \ {t} : hook'[q] = hook[q]
  <1>1. hook \in [Task -> HookType]
    BY DEF ModulesTypeOK, HookType
  <1>2. hook' = [hook EXCEPT ![t] = [pc |-> pc, by |-> m, stale |-> hook[t].stale]]
    BY <1>1 DEF Hooks
  <1>4. [pc |-> pc, by |-> m, stale |-> hook[t].stale] \in HookType
    BY <1>1 DEF HookType
  <1> HIDE DEF HookType
  <1>5. hook'[t] = [pc |-> pc, by |-> m, stale |-> hook[t].stale]
    BY <1>1, <1>2
  <1>6. hook' \in [Task -> HookType] /\ \A q \in Task \ {t} : hook'[q] = hook[q]
    BY <1>1, <1>2, <1>4
  <1> QED  BY <1>5, <1>6

LEMMA LeavesIs ==
    ASSUME ModulesTypeOK, NEW t \in Task, Leaves(t)
    PROVE  /\ hook' \in [Task -> HookType] /\ hook'[t] = NoHook
           /\ \A q \in Task \ {t} : hook'[q] = hook[q]
  <1>1. hook \in [Task -> HookType] /\ NoHook \in HookType
    BY DEF ModulesTypeOK, HookType, NoHook
  <1> QED  BY <1>1 DEF Leaves

LEMMA OvertakesIs ==
    ASSUME ModulesTypeOK, NEW m \in Module \cup {NoModule}, Overtakes(m)
    PROVE  /\ hook' \in [Task -> HookType]
           /\ \A t \in Task : /\ hook'[t].pc = hook[t].pc /\ hook'[t].by = hook[t].by
                              /\ hook'[t].stale = (hook[t].pc # "out")
           /\ torn' = torn \cup {t \in Task : state[t] = "forking"}
           /\ torn' \subseteq Task /\ cur_module' = m /\ last' = NoUse
  <1>1. hook \in [Task -> HookType]
    BY DEF ModulesTypeOK, HookType
  <1>2. hook' = [t \in Task |-> [hook[t] EXCEPT !.stale = hook[t].pc # "out"]]
    BY DEF Overtakes
  <1>3. ASSUME NEW t \in Task
        PROVE  hook'[t] = [pc |-> hook[t].pc, by |-> hook[t].by, stale |-> (hook[t].pc # "out")]
               /\ hook'[t] \in HookType
    <2>1. hook[t] \in HookType
      BY <1>1
    <2> QED  BY <1>2, <2>1 DEF HookType
  <1> HIDE DEF HookType
  <1>4. hook' \in [Task -> HookType]
    BY <1>2, <1>3
  <1> QED  BY <1>3, <1>4 DEF Overtakes, ModulesTypeOK

-----------------------------------------------------------------------------------
\* A command keeps what the threads have; one that publishes a module makes stale what
\* had been read, and tears the forks under way.
LEMMA AdministrationKeeps ==
    ASSUME IInv, Administration
    PROVE  IInv' /\ last' = NoUse
  <1> USE ModulesAssumption
  <1>1. ModulesTypeOK /\ ReadsAreCurrent /\ DataIsOfLive /\ OwnerIsTaskMod /\ NoLeak
    BY DEF IInv
  <1>2. ASSUME UNCHANGED <<commands, cur_module, threads, hook, torn>>, last' = NoUse,
               ready' \subseteq Module,
               cmd' \in [pc : {"idle", "disable", "publish"}, new : Module \cup {NoModule}]
        PROVE  IInv' /\ last' = NoUse
    <2>1. ModulesTypeOK'
      BY <1>1, <1>2 DEF ModulesTypeOK, threads, NoUse
    <2> QED
      BY <1>1, <1>2, <2>1 DEF IInv, threads, ReadsAreCurrent, DataIsOfLive, OwnerIsTaskMod,
                              NoLeak
  <1>3. ASSUME NEW m \in Module \cup {NoModule}, Overtakes(m), UNCHANGED <<commands, threads>>,
               ready' \subseteq Module,
               cmd' \in [pc : {"idle", "disable", "publish"}, new : Module \cup {NoModule}]
        PROVE  IInv' /\ last' = NoUse
    <2>1. /\ hook' \in [Task -> HookType]
          /\ \A t \in Task : /\ hook'[t].pc = hook[t].pc /\ hook'[t].by = hook[t].by
                             /\ hook'[t].stale = (hook[t].pc # "out")
          /\ torn' = torn \cup {t \in Task : state[t] = "forking"}
          /\ torn' \subseteq Task /\ cur_module' = m /\ last' = NoUse
      BY <1>1, <1>3, OvertakesIs
    <2>2. UNCHANGED <<commands, state, task_mod, priv_data>>
      BY <1>3 DEF threads
    <2>3. ModulesTypeOK'
      BY <1>1, <1>3, <2>1, <2>2 DEF ModulesTypeOK, NoUse, HookType
    <2>4. ReadsAreCurrent'
      BY <1>1, <2>1, <2>2 DEF ReadsAreCurrent
    <2>5. DataIsOfLive' /\ OwnerIsTaskMod' /\ NoLeak'
      BY <1>1, <2>1, <2>2 DEF DataIsOfLive, OwnerIsTaskMod, NoLeak
    <2> QED  BY <2>1, <2>3, <2>4, <2>5 DEF IInv
  <1>4. CASE \E m \in Module : Enable(m) \/ reinitialize_monitoring_module(m)
    <2>1. PICK m \in Module : Enable(m) \/ reinitialize_monitoring_module(m)
      BY <1>4
    <2>2. UNCHANGED <<commands, cur_module, threads, hook, torn>> /\ last' = NoUse
      BY <2>1 DEF Enable, reinitialize_monitoring_module
    <2>3. /\ ready' \subseteq Module
          /\ cmd' \in [pc : {"idle", "disable", "publish"}, new : Module \cup {NoModule}]
      BY <1>1, <2>1 DEF Enable, reinitialize_monitoring_module, ModulesTypeOK
    <2> QED  BY <1>2, <2>2, <2>3
  <1>5. CASE disable_module
    <2>1. UNCHANGED <<commands, cur_module, threads, hook, torn>> /\ last' = NoUse
      BY <1>5 DEF disable_module
    <2>2. /\ ready' \subseteq Module
          /\ cmd' \in [pc : {"idle", "disable", "publish"}, new : Module \cup {NoModule}]
      BY <1>1, <1>5 DEF disable_module, ModulesTypeOK
    <2> QED  BY <1>2, <2>1, <2>2
  <1>6. CASE Publish
    <2>1. cmd.new \in Module \cup {NoModule} /\ ready' \subseteq Module
          /\ cmd' \in [pc : {"idle", "disable", "publish"}, new : Module \cup {NoModule}]
      BY <1>1, <1>6 DEF Publish, ModulesTypeOK, NoCommand
    <2> QED  BY <1>3, <1>6, <2>1 DEF Publish
  <1>7. CASE deactivate
    <2>1. NoModule \in Module \cup {NoModule} /\ ready' \subseteq Module
          /\ cmd' \in [pc : {"idle", "disable", "publish"}, new : Module \cup {NoModule}]
      BY <1>1, <1>7 DEF deactivate, ModulesTypeOK
    <2> QED  BY <1>3, <1>7, <2>1 DEF deactivate
  <1> QED  BY <1>4, <1>5, <1>6, <1>7 DEF Administration

-----------------------------------------------------------------------------------
(* The steps of a thread change nobody else.                                        *)

\* What a step of thread t must keep of that thread, the others being untouched.
Fits(t) ==
    /\ hook[t].pc # "out" /\ ~hook[t].stale => hook[t].by = cur_module
    /\ hook[t].pc # "out" => hook[t].by # NoModule
    /\ hook[t].pc \in {"call", "free"} => hook[t].by = task_mod[t]
    /\ state[t] = "forking" /\ t \notin torn => task_mod[t] = cur_module
    /\ hook[t].pc = "out" => ~hook[t].stale
    /\ hook[t].pc = "fork" => state[t] = "forking"
    /\ hook[t].pc = "fork" /\ hook[t].stale => t \in torn
    /\ hook[t].pc \in {"call", "write", "free", "in"} => state[t] = "alive"
    /\ state[t] \in {"none", "forking"} => priv_data[t] = NoModule
    /\ priv_data[t] # Dummy
    /\ t \notin torn =>
         /\ state[t] = "alive" => priv_data[t] \in {NoModule, task_mod[t]}
         /\ state[t] = "freed" => priv_data[t] = NoModule

Local(t) ==
    /\ UNCHANGED manager
    /\ \A q \in Task \ {t} : /\ state'[q] = state[q] /\ task_mod'[q] = task_mod[q]
                             /\ priv_data'[q] = priv_data[q] /\ hook'[q] = hook[q]

LEMMA FitsAll == IInv <=> ModulesTypeOK /\ \A t \in Task : Fits(t)
  <1>1. ASSUME IInv, NEW t \in Task PROVE Fits(t)
    <2>1. t \notin torn =>
            /\ state[t] = "alive" => priv_data[t] \in {NoModule, task_mod[t]}
            /\ state[t] = "freed" => priv_data[t] = NoModule
      BY <1>1 DEF IInv, OwnerIsTaskMod, NoLeak
    <2>2. /\ state[t] \in {"none", "forking"} => priv_data[t] = NoModule
          /\ priv_data[t] # Dummy
      BY <1>1 DEF IInv, DataIsOfLive
    <2>3. ReadsAreCurrent
      BY <1>1 DEF IInv
    <2> QED  BY <2>1, <2>2, <2>3, Zenon DEF Fits, ReadsAreCurrent
  <1>2. ASSUME ModulesTypeOK, \A t \in Task : Fits(t) PROVE IInv
    <2>1. ReadsAreCurrent
      BY <1>2, Zenon DEF Fits, ReadsAreCurrent
    <2>2. DataIsOfLive /\ OwnerIsTaskMod /\ NoLeak
      BY <1>2 DEF Fits, DataIsOfLive, OwnerIsTaskMod, NoLeak
    <2> QED  BY <1>2, <2>1, <2>2 DEF IInv
  <1> QED  BY <1>1, <1>2 DEF IInv

LEMMA LocalKeeps ==
    ASSUME IInv, NEW t \in Task, Local(t), ModulesTypeOK', Fits(t)' PROVE IInv'
  <1>1. ASSUME NEW q \in Task \ {t} PROVE Fits(q)'
    <2>1. Fits(q)
      BY FitsAll
    <2> QED  BY <2>1 DEF Fits, Local, manager
  <1>2. ModulesTypeOK' /\ \A q \in Task : Fits(q)'
    BY <1>1
  <1> QED  BY <1>2 DEF IInv, Fits, ReadsAreCurrent, DataIsOfLive, OwnerIsTaskMod, NoLeak

\* A read or a reread is of a module, or of none.
LEMMA RereadIs ==
    ASSUME ModulesTypeOK, NEW t \in Task, NEW m \in Reread(t)
    PROVE  m \in Module \cup {NoModule} /\ (m = hook[t].by \/ m = cur_module)
  BY DEF ModulesTypeOK, Reread

LEMMA UsesType ==
    ASSUME ModulesTypeOK, NEW m \in Module \cup {NoModule}, NEW d \in Module \cup {NoModule}, NEW t \in Task,
           Uses(m, d, t)
    PROVE  last' \in [by : Module \cup {NoModule}, of : Module \cup {NoModule}, sound : BOOLEAN]
  BY DEF ModulesTypeOK, Uses, Sound

LEMMA UsesOwn ==
    ASSUME NEW m, NEW d, NEW t, Uses(m, d, t),
           ~hook[t].stale /\ t \notin torn => d \in {NoModule, m}
    PROVE  last'.sound => last'.of \in {NoModule, last'.by}
  <1>1. last'.sound = Sound(t) /\ last'.of = d /\ last'.by = m
    BY DEF Uses
  <1>2. Sound(t) => d \in {NoModule, m}
    BY DEF Sound
  <1> QED  BY <1>1, <1>2, Zenon

LEMMA NoUseOwn == ASSUME last' = NoUse PROVE last'.of \in {NoModule, last'.by}
  BY DEF NoUse

\* A thread that goes through a NULL pointer does nothing any more.
LEMMA OopsKeeps ==
    ASSUME IInv, NEW t \in Task, NEW m, Oops(t, m), hook[t].pc # "out"
    PROVE  IInv' /\ last' = NoUse
  <1>1. ModulesTypeOK /\ Fits(t)
    BY FitsAll
  <1>2. /\ hook' \in [Task -> HookType] /\ hook'[t] = NoHook
        /\ \A q \in Task \ {t} : hook'[q] = hook[q]
    BY <1>1, LeavesIs DEF Oops
  <1>3. /\ state' = [state EXCEPT ![t] = "oops"] /\ last' = NoUse
        /\ UNCHANGED <<manager, task_mod, priv_data>>
    BY DEF Oops
  <1>4. ModulesTypeOK'
    BY <1>1, <1>2, <1>3 DEF ModulesTypeOK, HookType, NoUse, manager
  <1>5. Local(t) /\ state'[t] = "oops"
    BY <1>1, <1>2, <1>3 DEF ModulesTypeOK, Local, manager
  <1>6. Fits(t)'
    BY <1>1, <1>2, <1>3, <1>5 DEF Fits, NoHook, manager
  <1> QED  BY <1>3, <1>4, <1>5, <1>6, LocalKeeps

LEMMA AssignKeeps ==
    ASSUME IInv, NEW t \in Task, Assign(t) PROVE IInv'
  <1>1. ModulesTypeOK /\ Fits(t)
    BY FitsAll
  <1>2. /\ state[t] = "none" /\ state' = [state EXCEPT ![t] = "forking"]
        /\ task_mod' = [task_mod EXCEPT ![t] = cur_module] /\ last' = NoUse
        /\ UNCHANGED <<manager, priv_data, hook>>
    BY DEF Assign
  <1>3. ModulesTypeOK'
    BY <1>1, <1>2 DEF ModulesTypeOK, NoUse, manager
  <1>4. Local(t) /\ state'[t] = "forking" /\ task_mod'[t] = cur_module
    BY <1>1, <1>2 DEF ModulesTypeOK, Local, manager
  <1>5. hook[t].pc = "out"
    BY <1>1, <1>2 DEF Fits, ModulesTypeOK
  <1>6. Fits(t)'
    BY <1>1, <1>2, <1>4, <1>5 DEF Fits, manager
  <1> QED  BY <1>3, <1>4, <1>6, LocalKeeps

\* A hook that starts by reading the current module.
LEMMA TestedKeeps ==
    ASSUME IInv, NEW t \in Task, NEW pc \in {"fork", "call", "write", "free"},
           Hooks(t, pc, cur_module), hook[t].pc = "out", cur_module # NoModule,
           pc = "fork" => state[t] = "forking", pc # "fork" => state[t] = "alive",
           pc \in {"call", "free"} => cur_module = task_mod[t],
           last' = NoUse, UNCHANGED <<manager, threads>>
    PROVE  IInv'
  <1>1. ModulesTypeOK /\ Fits(t) /\ cur_module \in Module \cup {NoModule}
    BY FitsAll DEF ModulesTypeOK
  <1>2. /\ hook' \in [Task -> HookType]
        /\ hook'[t].pc = pc /\ hook'[t].by = cur_module /\ hook'[t].stale = hook[t].stale
        /\ \A q \in Task \ {t} : hook'[q] = hook[q]
    BY <1>1, HooksIs
  <1>3. ModulesTypeOK'
    BY <1>1, <1>2 DEF ModulesTypeOK, HookType, NoUse, manager, threads
  <1>4. Local(t)
    BY <1>2 DEF Local, threads
  <1>5. Fits(t)'
    BY <1>1, <1>2 DEF Fits, manager, threads
  <1> QED  BY <1>3, <1>4, <1>5, LocalKeeps

LEMMA ForkTestsKeeps ==
    ASSUME IInv, NEW t \in Task, ForkTests(t) PROVE IInv'
  <1>1. ModulesTypeOK /\ Fits(t)
    BY FitsAll
  <1>2. CASE cur_module = NoModule
    <2>1. /\ state[t] = "forking" /\ hook[t].pc = "out" /\ last' = NoUse
          /\ state' = [state EXCEPT ![t] = "alive"] /\ UNCHANGED <<manager, task_mod, priv_data, hook>>
      BY <1>2 DEF ForkTests
    <2>2. ModulesTypeOK'
      BY <1>1, <2>1 DEF ModulesTypeOK, NoUse, manager
    <2>3. Local(t) /\ state'[t] = "alive"
      BY <1>1, <2>1 DEF ModulesTypeOK, Local, manager
    <2>4. Fits(t)'
      BY <1>1, <2>1, <2>3 DEF Fits, manager
    <2> QED  BY <2>2, <2>3, <2>4, LocalKeeps
  <1>3. CASE cur_module # NoModule
    BY <1>3, TestedKeeps DEF ForkTests, threads
  <1> QED  BY <1>2, <1>3

LEMMA TestsKeeps ==
    ASSUME IInv, NEW t \in Task, Tests(t) PROVE IInv'
  BY TestedKeeps DEF Tests, Outside, mod_task_is_curr

\* The module that mm_on_fork calls, if the thread is not torn, is the one it is of.
LEMMA ForkKeeps ==
    ASSUME IInv, NEW t \in Task, mm_on_fork(t)
    PROVE  IInv' /\ (last' = NoUse \/ last'.by \in ReadsAny)
  <1> USE ModulesAssumption
  <1>1. ModulesTypeOK /\ Fits(t) /\ hook[t].pc = "fork"
    BY FitsAll DEF mm_on_fork
  <1>2. PICK m \in Reread(t) :
           \/ m = NoModule /\ Oops(t, m)
           \/ /\ m # NoModule
              /\ state' = [state EXCEPT ![t] = "alive"]
              /\ priv_data' = [priv_data EXCEPT ![t] = IF HasFreeTask(m) THEN m ELSE NoModule]
              /\ \/ last' = NoUse
                 \/ /\ m \in ReadsAny
                    /\ \E p \in Task : state[p] = "alive" /\ Uses(m, priv_data[p], t)
              /\ Leaves(t)
           \/ /\ HasFreeTask(m)
              /\ state' = [state EXCEPT ![t] = "freed"]
              /\ Leaves(t)
              /\ last' = NoUse
              /\ UNCHANGED priv_data
    BY DEF mm_on_fork
  <1>3. UNCHANGED <<manager, task_mod>> /\ m \in Module \cup {NoModule}
        /\ (m = hook[t].by \/ m = cur_module)
    BY <1>1, <1>2, RereadIs DEF mm_on_fork
  <1>4. CASE Oops(t, m)
    BY <1>1, <1>4, OopsKeeps
  <1>5. CASE ~Oops(t, m)
    <2>1. /\ hook' \in [Task -> HookType] /\ hook'[t] = NoHook
          /\ \A q \in Task \ {t} : hook'[q] = hook[q]
      BY <1>1, <1>2, <1>5, LeavesIs
    <2>2. last' \in [by : Module \cup {NoModule}, of : Module \cup {NoModule}, sound : BOOLEAN]
          /\ (last' = NoUse \/ last'.by \in ReadsAny)
      <3>1. ASSUME NEW p \in Task, m \in ReadsAny, Uses(m, priv_data[p], t)
            PROVE  last' \in [by : Module \cup {NoModule}, of : Module \cup {NoModule}, sound : BOOLEAN]
                   /\ last'.by \in ReadsAny
        <4>1. priv_data[p] \in Module \cup {NoModule}
          BY <1>1 DEF ModulesTypeOK
        <4> QED  BY <1>1, <1>3, <3>1, <4>1, UsesType DEF Uses
      <3>2. NoUse \in [by : Module \cup {NoModule}, of : Module \cup {NoModule}, sound : BOOLEAN]
        BY DEF NoUse
      <3> QED  BY <1>2, <1>5, <3>1, <3>2
    <2>3. /\ state' \in [Task -> {"none", "forking", "alive", "freed", "oops"}]
          /\ priv_data' \in [Task -> Module \cup {NoModule}]
      BY <1>1, <1>2, <1>3, <1>5 DEF ModulesTypeOK
    <2>4. ModulesTypeOK'
      BY <1>1, <1>3, <2>1, <2>2, <2>3 DEF ModulesTypeOK, HookType, manager
    <2>5. Local(t)
      BY <1>1, <1>2, <1>3, <1>5, <2>1 DEF ModulesTypeOK, Local, manager
    <2>6. \/ state'[t] = "alive" /\ priv_data'[t] = (IF HasFreeTask(m) THEN m ELSE NoModule)
          \/ state'[t] = "freed" /\ priv_data'[t] = priv_data[t]
      BY <1>1, <1>2, <1>5 DEF ModulesTypeOK
    <2>7. t \notin torn => m = task_mod[t]
      BY <1>1, <1>3 DEF Fits
    <2>8. Fits(t)'
      BY <1>1, <1>3, <2>1, <2>6, <2>7 DEF Fits, NoHook, HasFreeTask, manager
    <2> QED  BY <2>2, <2>4, <2>5, <2>8, LocalKeeps
  <1> QED  BY <1>4, <1>5

\* A callback that was not overtaken is of the module the thread is assigned to.
LEMMA GetsInKeeps ==
    ASSUME IInv, NEW t \in Task, NEW m \in Module, Hooks(t, "in", m),
           m = hook[t].by \/ m = cur_module, hook[t].pc \in {"call", "write"},
           last' \in [by : Module \cup {NoModule}, of : Module \cup {NoModule}, sound : BOOLEAN],
           UNCHANGED <<manager, state, task_mod, priv_data>>
    PROVE  IInv'
  <1>1. ModulesTypeOK /\ Fits(t)
    BY FitsAll
  <1>2. /\ hook' \in [Task -> HookType]
        /\ hook'[t].pc = "in" /\ hook'[t].by = m /\ hook'[t].stale = hook[t].stale
        /\ \A q \in Task \ {t} : hook'[q] = hook[q]
    BY <1>1, HooksIs
  <1>3. ModulesTypeOK'
    BY <1>1, <1>2 DEF ModulesTypeOK, HookType, manager
  <1>4. Local(t)
    BY <1>2 DEF Local
  <1>5. m # NoModule
    BY ModulesAssumption
  <1>6. Fits(t)'
    BY <1>1, <1>2, <1>5 DEF Fits, manager
  <1> QED  BY <1>3, <1>4, <1>6, LocalKeeps

LEMMA CallbackKeeps ==
    ASSUME IInv, NEW t \in Task, Callback(t)
    PROVE  IInv' /\ (last'.sound => last'.of \in {NoModule, last'.by})
  <1>1. ModulesTypeOK /\ Fits(t) /\ hook[t].pc = "call"
    BY FitsAll DEF Callback
  <1>2. PICK m \in Reread(t) :
           \/ Oops(t, m)
           \/ /\ m # NoModule
              /\ Hooks(t, "in", m)
              /\ IF m = Dummy THEN last' = NoUse ELSE Uses(m, priv_data[t], t)
              /\ UNCHANGED <<manager, state, task_mod, priv_data>>
    BY DEF Callback
  <1>3. m \in Module \cup {NoModule} /\ (m = hook[t].by \/ m = cur_module)
        /\ priv_data[t] \in Module \cup {NoModule}
    BY <1>1, <1>2, RereadIs DEF ModulesTypeOK
  <1>4. CASE Oops(t, m)
    <2>1. IInv' /\ last' = NoUse
      BY <1>1, <1>4, OopsKeeps
    <2> QED  BY <2>1 DEF NoUse
  <1>5. CASE ~Oops(t, m)
    <2>1. last' \in [by : Module \cup {NoModule}, of : Module \cup {NoModule}, sound : BOOLEAN]
      <3>1. NoUse \in [by : Module \cup {NoModule}, of : Module \cup {NoModule}, sound : BOOLEAN]
        BY DEF NoUse
      <3> QED  BY <1>1, <1>2, <1>3, <1>5, <3>1, UsesType
    <2>2. IInv'
      BY <1>1, <1>2, <1>3, <1>5, <2>1, GetsInKeeps
    <2>3. ~hook[t].stale /\ t \notin torn => priv_data[t] \in {NoModule, m}
      BY <1>1, <1>3 DEF Fits
    <2> QED  BY <1>2, <1>5, <2>2, <2>3, UsesOwn, NoUseOwn
  <1> QED  BY <1>4, <1>5

LEMMA WriteKeeps ==
    ASSUME IInv, NEW t \in Task, mm_on_write_config(t)
    PROVE  IInv' /\ (last' = NoUse \/ last'.by \in ReadsAny)
  <1>1. ModulesTypeOK /\ Fits(t) /\ hook[t].pc = "write"
    BY FitsAll DEF mm_on_write_config
  <1>2. PICK m \in Reread(t) :
           \/ m = NoModule /\ Oops(t, m)
           \/ /\ m # NoModule
              /\ Hooks(t, "in", m)
              /\ IF m \in ReadsAny /\ priv_data[t] # NoModule
                 THEN Uses(m, priv_data[t], t)
                 ELSE last' = NoUse
              /\ UNCHANGED <<manager, state, task_mod, priv_data>>
    BY DEF mm_on_write_config
  <1>3. m \in Module \cup {NoModule} /\ (m = hook[t].by \/ m = cur_module)
        /\ priv_data[t] \in Module \cup {NoModule}
    BY <1>1, <1>2, RereadIs DEF ModulesTypeOK
  <1>4. CASE Oops(t, m)
    BY <1>1, <1>4, OopsKeeps
  <1>5. CASE ~Oops(t, m)
    <2>1. last' \in [by : Module \cup {NoModule}, of : Module \cup {NoModule}, sound : BOOLEAN]
      <3>1. NoUse \in [by : Module \cup {NoModule}, of : Module \cup {NoModule}, sound : BOOLEAN]
        BY DEF NoUse
      <3> QED  BY <1>1, <1>2, <1>3, <1>5, <3>1, UsesType
    <2>2. IInv'
      BY <1>1, <1>2, <1>3, <1>5, <2>1, GetsInKeeps
    <2> QED  BY <1>2, <1>5, <2>2 DEF Uses
  <1> QED  BY <1>4, <1>5

LEMMA ReturnKeeps ==
    ASSUME IInv, NEW t \in Task, CallbackReturns(t) PROVE IInv'
  <1>1. ModulesTypeOK /\ Fits(t) /\ hook[t].pc = "in"
    BY FitsAll DEF CallbackReturns
  <1>2. /\ hook' \in [Task -> HookType] /\ hook'[t] = NoHook /\ last' = NoUse
        /\ \A q \in Task \ {t} : hook'[q] = hook[q]
        /\ UNCHANGED <<manager, threads>>
    BY <1>1, LeavesIs DEF CallbackReturns
  <1>3. ModulesTypeOK'
    BY <1>1, <1>2 DEF ModulesTypeOK, HookType, NoUse, manager, threads
  <1>4. Local(t)
    BY <1>2 DEF Local, threads
  <1>5. Fits(t)'
    BY <1>1, <1>2 DEF Fits, NoHook, manager, threads
  <1> QED  BY <1>3, <1>4, <1>5, LocalKeeps

\* Freeing by a module that can, or when there is nothing to free.
LEMMA FreedKeeps ==
    ASSUME IInv, NEW t \in Task, NEW m \in Module \cup {NoModule}, FreedBy(t, m),
           t \notin torn => HasFreeTask(m) \/ priv_data[t] = NoModule
    PROVE  IInv'
  <1>1. ModulesTypeOK /\ Fits(t) /\ priv_data[t] \in Module \cup {NoModule}
    BY FitsAll DEF ModulesTypeOK
  <1>2. /\ hook' \in [Task -> HookType] /\ hook'[t] = NoHook
        /\ \A q \in Task \ {t} : hook'[q] = hook[q]
    BY <1>1, LeavesIs DEF FreedBy
  <1>3. last' \in [by : Module \cup {NoModule}, of : Module \cup {NoModule}, sound : BOOLEAN]
    <2>1. NoUse \in [by : Module \cup {NoModule}, of : Module \cup {NoModule}, sound : BOOLEAN]
      BY DEF NoUse
    <2> QED  BY <1>1, <2>1, UsesType DEF FreedBy
  <1>4. /\ state' = [state EXCEPT ![t] = "freed"] /\ UNCHANGED <<manager, task_mod>>
        /\ priv_data' = [priv_data EXCEPT ![t] = IF HasFreeTask(m) THEN NoModule ELSE @]
    BY <1>1 DEF FreedBy, ModulesTypeOK
  <1>5. ModulesTypeOK'
    BY <1>1, <1>2, <1>3, <1>4 DEF ModulesTypeOK, HookType, manager
  <1>6. Local(t) /\ state'[t] = "freed"
        /\ priv_data'[t] = (IF HasFreeTask(m) THEN NoModule ELSE priv_data[t])
    BY <1>1, <1>2, <1>4 DEF ModulesTypeOK, Local, manager
  <1>7. Fits(t)'
    BY <1>1, <1>2, <1>4, <1>6, ModulesAssumption DEF Fits, NoHook, HasFreeTask, manager
  <1> QED  BY <1>5, <1>6, <1>7, LocalKeeps

\* Whoever frees the data of a thread that is not torn frees all of it; and unless it was
\* overtaken, it is the module that allocated them.
LEMMA FreeKeeps ==
    ASSUME IInv, NEW t \in Task, mm_on_free_task(t)
    PROVE  IInv' /\ (last'.sound => last'.of \in {NoModule, last'.by})
  <1> USE ModulesAssumption
  <1> DEFINE own == IF priv_data[t] # NoModule THEN task_mod[t] ELSE NoModule
  <1>1. ModulesTypeOK /\ Fits(t) /\ own \in Module \cup {NoModule}
    BY FitsAll DEF ModulesTypeOK
  <1>2. CASE FreedBy(t, own) /\ state[t] = "alive"
    <2>1. t \notin torn => HasFreeTask(own) \/ priv_data[t] = NoModule
      BY <1>1, <1>2 DEF Fits, HasFreeTask
    <2>2. IInv'
      BY <1>1, <1>2, <2>1, FreedKeeps
    <2>3. t \notin torn => priv_data[t] \in {NoModule, own}
      BY <1>1, <1>2 DEF Fits
    <2> QED  BY <1>2, <2>2, <2>3, UsesOwn, NoUseOwn DEF FreedBy
  <1>3. CASE hook[t].pc = "free"
    <2>1. PICK m \in Reread(t) : \/ Oops(t, m)
                                 \/ HasFreeTask(m) /\ FreedBy(t, m)
                                 \/ m = Dummy /\ FreedBy(t, own)
      BY <1>3 DEF mm_on_free_task, Outside
    <2>2. m \in Module \cup {NoModule} /\ (m = hook[t].by \/ m = cur_module)
      BY <1>1, <2>1, RereadIs
    <2>3. CASE Oops(t, m)
      <3>1. IInv' /\ last' = NoUse
        BY <1>3, <2>3, OopsKeeps
      <3> QED  BY <3>1 DEF NoUse
    <2>4. CASE HasFreeTask(m) /\ FreedBy(t, m)
      <3>1. IInv'
        BY <2>2, <2>4, FreedKeeps
      <3>2. ~hook[t].stale /\ t \notin torn => priv_data[t] \in {NoModule, m}
        BY <1>1, <1>3, <2>2 DEF Fits
      <3> QED  BY <2>4, <3>1, <3>2, UsesOwn, NoUseOwn DEF FreedBy
    <2>5. CASE FreedBy(t, own)
      BY <1>1, <1>2, <1>3, <2>5 DEF Fits
    <2> QED  BY <2>1, <2>3, <2>4, <2>5
  <1>4. CASE hook[t].pc # "free"
    BY <1>2, <1>4 DEF mm_on_free_task, Outside
  <1> QED  BY <1>3, <1>4

LEMMA NextIInv == IInv /\ CarefulModuleReadsOwnData /\ [ModulesNext]_moduleVars
                    => IInv' /\ CarefulModuleReadsOwnData'
  <1> SUFFICES ASSUME IInv, CarefulModuleReadsOwnData, [ModulesNext]_moduleVars
               PROVE  IInv' /\ CarefulModuleReadsOwnData'
    OBVIOUS
  <1>1. CASE UNCHANGED moduleVars
    <2>1. IInv'
      BY <1>1 DEF moduleVars, IInv, ModulesTypeOK, ReadsAreCurrent, DataIsOfLive, OwnerIsTaskMod, NoLeak
    <2> QED
      BY <1>1, <2>1 DEF moduleVars, CarefulModuleReadsOwnData, CallbackReadsOwnData
  <1>2. CASE IInv' /\ last' = NoUse
    BY <1>2 DEF NoUse, CarefulModuleReadsOwnData, CallbackReadsOwnData
  <1>3. CASE IInv' /\ last'.by \in ReadsAny
    BY <1>3 DEF CarefulModuleReadsOwnData, CallbackReadsOwnData
  <1>4. CASE IInv' /\ (last'.sound => last'.of \in {NoModule, last'.by})
    BY <1>4 DEF CarefulModuleReadsOwnData, CallbackReadsOwnData
  <1>5. CASE Administration
    BY <1>2, <1>5, AdministrationKeeps
  <1>6. ASSUME NEW t \in Task, Thread(t) PROVE IInv' /\ CarefulModuleReadsOwnData'
    <2>1. CASE Assign(t)
      BY <1>2, <2>1, AssignKeeps DEF Assign
    <2>2. CASE ForkTests(t)
      BY <1>2, <2>2, ForkTestsKeeps DEF ForkTests
    <2>3. CASE mm_on_fork(t)
      BY <1>2, <1>3, <2>3, ForkKeeps
    <2>4. CASE Tests(t)
      BY <1>2, <2>4, TestsKeeps DEF Tests
    <2>5. CASE Callback(t)
      BY <1>4, <2>5, CallbackKeeps
    <2>6. CASE CallbackReturns(t)
      BY <1>2, <2>6, ReturnKeeps DEF CallbackReturns
    <2>7. CASE mm_on_write_config(t)
      BY <1>2, <1>3, <2>7, WriteKeeps
    <2>8. CASE mm_on_free_task(t)
      BY <1>4, <2>8, FreeKeeps
    <2> QED  BY <1>6, <2>1, <2>2, <2>3, <2>4, <2>5, <2>6, <2>7, <2>8 DEF Thread
  <1> QED  BY <1>1, <1>5, <1>6 DEF ModulesNext

LEMMA InitIInv == ModulesInit => IInv /\ CarefulModuleReadsOwnData
  <1> SUFFICES ASSUME ModulesInit PROVE IInv /\ CarefulModuleReadsOwnData
    OBVIOUS
  <1> USE ModulesAssumption
  <1>1. ModulesTypeOK
    BY DEF ModulesInit, init_mm_manager, ModulesTypeOK, NoHook, NoCommand, NoUse
  <1>2. ReadsAreCurrent /\ DataIsOfLive /\ OwnerIsTaskMod /\ NoLeak
    BY DEF ModulesInit, ReadsAreCurrent, DataIsOfLive, OwnerIsTaskMod, NoLeak, NoHook
  <1>3. CarefulModuleReadsOwnData
    BY DEF ModulesInit, NoUse, CarefulModuleReadsOwnData, CallbackReadsOwnData
  <1> QED  BY <1>1, <1>2, <1>3 DEF IInv

LEMMA IInvHolds == ModulesSpec => [](IInv /\ CarefulModuleReadsOwnData)
  BY InitIInv, NextIInv, PTL DEF ModulesSpec

-----------------------------------------------------------------------------------
\* However activations, with their steps, forks and hooks interleave, the data of a live
\* thread is of the module that it is assigned to, whatever module is current, unless
\* another was published between the two reads of its own fork.
THEOREM OwnerIsAlwaysTaskMod == ModulesSpec => []OwnerIsTaskMod
  <1>1. IInv => OwnerIsTaskMod
    BY DEF IInv
  <1> QED  BY <1>1, IInvHolds, PTL

\* A callback of a module that looks at no other thread's data only takes for its own what
\* its own module has allocated, unless another was published between the reads that led
\* to this call, or between those of the fork of its thread.
THEOREM CarefulModuleAlwaysReadsOwnData == ModulesSpec => []CarefulModuleReadsOwnData
  BY IInvHolds, PTL

-----------------------------------------------------------------------------------
(* What is enabled.  The administrator's steps run one after another; the hooks, which *)
(* do not wait for them, are in a module that was current when they read it.           *)

\* A module that is only activated is enabled while it is current, until it is disabled.
EnabledInTurn ==
    commands \subseteq {"activate"} =>
        /\ cur_module # NoModule
        /\ cmd.pc = "idle" => cmd.new = NoModule /\ ready = {cur_module}
        /\ cmd.pc = "disable" => cmd.new \notin {NoModule, cur_module}
                                 /\ ready = {cur_module, cmd.new}
        /\ cmd.pc = "publish" => cmd.new # NoModule /\ ready = {cmd.new}

\* Deactivations leave modules enabled, but never the current one disabled.
CurrentIsEnabled ==
    commands \subseteq {"activate", "deactivate"} =>
        /\ cur_module # NoModule /\ cmd.pc # "publish" => cur_module \in ready
        /\ cmd.pc # "idle" => cmd.new \in ready
        /\ cmd.pc = "disable" => cmd.new # cur_module

EInv == EnabledInTurn /\ CurrentIsEnabled

LEMMA NextEInv == IInv /\ EInv /\ [ModulesNext]_moduleVars => EInv'
  <1> SUFFICES ASSUME ModulesTypeOK, EInv, [ModulesNext]_moduleVars PROVE EInv'
    BY DEF IInv
  <1> USE ModulesAssumption
  <1>1. CASE UNCHANGED <<commands, cur_module, ready, cmd>>
    BY <1>1 DEF EInv, EnabledInTurn, CurrentIsEnabled
  <1>2. ASSUME NEW m \in Module, Enable(m) PROVE EInv'
    <2>1. /\ cmd.pc = "idle" /\ m # cur_module /\ UNCHANGED <<commands, cur_module>>
          /\ \/ /\ ready' = ready \cup {m} /\ cmd'.new = m
                /\ cmd'.pc = IF cur_module = NoModule THEN "publish" ELSE "disable"
             \/ ready' = ready \ {m} /\ cmd' = cmd
      BY <1>2 DEF Enable, Commanded
    <2>2. m # NoModule
      OBVIOUS
    <2>3. EnabledInTurn'
      BY <2>1, <2>2 DEF EInv, EnabledInTurn
    <2>4. CurrentIsEnabled'
      BY <2>1, <2>2 DEF EInv, CurrentIsEnabled
    <2> QED  BY <2>3, <2>4 DEF EInv
  <1>3. CASE disable_module
    <2>1. /\ cmd.pc = "disable" /\ ready' = ready \ {cur_module}
          /\ cmd'.pc = "publish" /\ cmd'.new = cmd.new /\ UNCHANGED <<commands, cur_module>>
      BY <1>3 DEF disable_module, ModulesTypeOK
    <2> QED  BY <2>1 DEF EInv, EnabledInTurn, CurrentIsEnabled
  <1>4. CASE Publish
    <2>1. /\ cmd.pc = "publish" /\ cur_module' = cmd.new
          /\ cmd'.pc = "idle" /\ cmd'.new = NoModule /\ UNCHANGED <<commands, ready>>
      BY <1>4 DEF Publish, Overtakes, NoCommand
    <2> QED  BY <2>1 DEF EInv, EnabledInTurn, CurrentIsEnabled
  <1>5. CASE deactivate
    <2>1. /\ "deactivate" \in commands /\ cmd.pc = "idle" /\ cur_module' = NoModule
          /\ UNCHANGED <<commands, ready, cmd>>
      BY <1>5 DEF deactivate, Overtakes, Commanded
    <2> QED  BY <2>1 DEF EInv, EnabledInTurn, CurrentIsEnabled
  <1>6. ASSUME NEW m \in Module, reinitialize_monitoring_module(m) PROVE EInv'
    <2>1. "reinitialize" \in commands /\ UNCHANGED commands
      BY <1>6 DEF reinitialize_monitoring_module, Commanded
    <2> QED  BY <2>1 DEF EInv, EnabledInTurn, CurrentIsEnabled
  <1>7. ASSUME NEW t \in Task, Thread(t) PROVE UNCHANGED <<commands, cur_module, ready, cmd>>
    BY <1>7 DEF Thread, Assign, ForkTests, mm_on_fork, Tests, Callback, CallbackReturns,
                mm_on_write_config, mm_on_free_task, FreedBy, Oops, manager
  <1> QED
    BY <1>1, <1>2, <1>3, <1>4, <1>5, <1>6, <1>7 DEF ModulesNext, Administration, moduleVars

\* However commands, forks and hooks interleave and activations fail: the data of a thread
\* is freed with it, unless the thread is torn; modules that are only activated are enabled
\* and disabled in turn, at each step of an activation; and a hook is in a module that is
\* enabled, unless that is being replaced, or was while the hook was in it.
THEOREM ModulesAreAlwaysBalanced == ModulesSpec => []ModulesAreBalanced
  <1>1. ModulesInit => EInv
    BY ModulesAssumption
    DEF ModulesInit, init_mm_manager, NoCommand, EInv, EnabledInTurn, CurrentIsEnabled
  <1>2. IInv /\ EInv => ModulesAreBalanced
    <2> SUFFICES ASSUME IInv, EInv PROVE ModulesAreBalanced
      OBVIOUS
    <2> USE ModulesAssumption
    <2>1. ActivationsAreBalanced
      <3>1. cmd.pc \in {"idle", "disable", "publish"}
        BY DEF IInv, ModulesTypeOK
      <3> QED
        BY <3>1 DEF EInv, EnabledInTurn, ActivationsAreBalanced, CurrentIsReady,
                    OnlyCurrentIsReady
    <2>2. CalledIsReady
      <3>1. ASSUME commands \subseteq {"activate", "deactivate"}, NEW t \in Task,
                   hook[t].pc = "in", hook[t].by \notin ready, ~hook[t].stale
            PROVE  cmd.pc = "publish" /\ hook[t].by = cur_module
        <4>1. hook[t].by = cur_module /\ hook[t].by # NoModule
          BY <3>1 DEF IInv, ReadsAreCurrent
        <4>2. cur_module # NoModule /\ cmd.pc # "publish" => cur_module \in ready
          BY <3>1 DEF EInv, CurrentIsEnabled
        <4> QED  BY <3>1, <4>1, <4>2
      <3> QED  BY <3>1, Zenon DEF CalledIsReady
    <2> QED  BY <2>1, <2>2 DEF IInv, ModulesAreBalanced
  <1> QED  BY <1>1, <1>2, IInvHolds, NextEInv, PTL DEF ModulesSpec

-----------------------------------------------------------------------------------
(* ModuleLoad.  What the loader has yet to do is a script.  One that takes down      *)
(* names each part that is up once, and the PMU after everything that threads are    *)
(* waited for; so that whoever is in the module when the PMU goes, or the code, had  *)
(* been waited for, or had a reference and kept the module from being unloaded.      *)

PartName ==
    {"pmu", "sched_switch", "sched_process_exit", "free_task", "copy_semundo", "sched_exec",
     "scheduler_tick", "finish_task_switch", "perf_event_nmi_handler",
     "intel_thermal_interrupt", "registered", "dir", "manager", "entries", "syswide"}
Pc == {"idle", "entered", "reading", "got", "in", "asleep", "done", "leaving"}
Call == [op : DOMAIN Hook \cup {Absent}, pc : Pc, failed : BOOLEAN]

\* Types, and what is never anything else.
LoadTypes ==
    /\ load \in LoadSetups
    /\ refs \in Int /\ waits \subseteq Caller
    /\ call \in [Caller -> Call]
    /\ task \in [Caller -> {"unborn", "alive", "dead"}]
    /\ prof \in [Caller -> {Absent, "live", "exited"}]
    /\ implementer \in BOOLEAN /\ twice \in BOOLEAN /\ pmctrack_initializing \in BOOLEAN

\* A script for taking down: each part once, and the PMU after what is waited for.
Distinct(q) ==
    /\ q \in Seq(PartName)
    /\ \A i, j \in 1 .. Len(q) : q[i] = q[j] => i = j
Tidy(q) ==
    /\ Distinct(q)
    /\ \A i, j \in 1 .. Len(q) : q[i] = "pmu" /\ q[j] \in Waited => j < i

HasRef(t) == call[t].op \in Blocking /\ call[t].pc \in {"got", "in", "asleep", "done"}

\* The first k - 1 parts.
Earlier(q, k) == {q[i] : i \in {j \in 1 .. Len(q) : j < k}}
UpTo(k) == Earlier(Parts, k)

\* The loader is about to set up part k, or to say so after the last; is idle in between;
\* takes down what is up; or is done.
SettingUp(k) ==
    /\ mod = "coming" /\ waits = {}
    /\ todo = SubSeq(pmctrack_module_init, k, Len(Parts) + 2)
    /\ up = UpTo(k) /\ load.fails \notin UpTo(k)
    /\ pmctrack_initializing = (k <= Len(Parts) + 1)
    /\ ~implementer => refs = 0 /\ \A t \in Caller : ~HasRef(t)

Loaded ==
    /\ mod = "live" /\ waits = {} /\ todo = <<>>
    /\ up = ToSet(Parts) /\ load.fails \notin ToSet(Parts)
    /\ ~pmctrack_initializing

TakingDown ==
    /\ mod \in {"coming", "going"}
    /\ pmctrack_initializing = (mod = "coming")
    /\ load.preempts /\ mod = "coming" => "registered" \notin up
    /\ \E q : Tidy(q) /\ ToSet(q) = up /\ todo = Undo(q)

Over == mod = "gone" /\ waits = {} /\ todo = <<>> /\ up = {}

\* A module without a PMU has nothing left that leads into it, and waits for nobody.
LoaderInv ==
    /\ (\E k \in 1 .. Len(Parts) + 2 : SettingUp(k)) \/ Loaded \/ TakingDown \/ Over
    /\ ~twice /\ up \subseteq ToSet(Parts)
    /\ implementer = ("registered" \in up)
    /\ "pmu" \notin up => Waited \cap up = {} /\ waits = {}

\* Only what may block takes a reference or sleeps, and only in a module that has been
\* initialized; a call is one that its thread may make.
CallsAreOrderly ==
    \A t \in Caller :
      /\ call[t].pc = "idle" => call[t] = Idle
      /\ call[t].op = Absent => call[t].pc = "idle"
      /\ call[t].op = "thermal" => call[t].pc = "in"
      /\ call[t].pc \in {"got", "asleep", "done"} => call[t].op \in Blocking
      /\ call[t].pc = "asleep" => ~pmctrack_initializing
      /\ call[t].op # Absent => May(t, call[t].op)

\* What was waited for is over: nobody is in an operation of a module that is not
\* registered, or in a stub that has been removed.
ReadersAreGone ==
    implementer \/ \A t \in Caller \ waits :
        call[t].pc \in {"in", "asleep"} => call[t].op = "thermal"
StubsAreLeft ==
    \A t \in Caller \ waits :
        call[t].pc # "idle" /\ (~Patched \/ call[t].op = "thermal") => Hook[call[t].op] \in up
\* A module that is being unloaded has no references, and gives out none.
RefusedWhenGoing ==
    mod \in {"going", "gone"} /\ ~pmctrack_initializing => \A t \in Caller : ~HasRef(t)

\* A profile without a thread is that of one whose fork has yet to return.
ProfsFollowTasks ==
    \A t \in Caller :
      /\ pmctrack_initializing => prof[t] = Absent
      /\ mod \in {"coming", "live"} =>
           /\ task[t] = "unborn" /\ prof[t] # Absent =>
                call[t].op = "fork" /\ call[t].pc \in {"done", "leaving"} /\ ~call[t].failed
           /\ call[t].op = "free" /\ call[t].pc \in {"done", "leaving"} => prof[t] = Absent

LInv ==
    /\ LoadTypes /\ LoaderInv /\ CallsAreOrderly /\ ModuleRefsAreCalls
    /\ ReadersAreGone /\ StubsAreLeft /\ RefusedWhenGoing /\ ProfsFollowTasks

-----------------------------------------------------------------------------------
(* Sequences of parts.                                                              *)

LEMMA ToSetIs ==
    ASSUME NEW q \in Seq(PartName)
    PROVE  /\ ToSet(q) = {q[i] : i \in 1 .. Len(q)} /\ Len(q) \in Nat /\ DOMAIN q = 1 .. Len(q)
           /\ \A x : x \in ToSet(q) <=> \E i \in 1 .. Len(q) : q[i] = x
  <1>1. DOMAIN q = 1 .. Len(q) /\ Len(q) \in Nat
    BY LenProperties
  <1> QED  BY <1>1 DEF ToSet

LEMMA ConcatToSet ==
    ASSUME NEW a \in Seq(PartName), NEW b \in Seq(PartName)
    PROVE  a \o b \in Seq(PartName) /\ ToSet(a \o b) = ToSet(a) \cup ToSet(b)
  <1> DEFINE c == a \o b
  <1>1. /\ c \in Seq(PartName) /\ Len(c) = Len(a) + Len(b)
        /\ \A i \in 1 .. Len(a) + Len(b) : c[i] = IF i <= Len(a) THEN a[i] ELSE b[i - Len(a)]
    BY ConcatProperties
  <1>2. Len(a) \in Nat /\ Len(b) \in Nat
    BY ToSetIs
  <1> HIDE DEF c
  <1>3. ASSUME NEW x \in ToSet(c) PROVE x \in ToSet(a) \cup ToSet(b)
    <2>1. PICK i \in 1 .. Len(c) : c[i] = x
      BY <1>1, ToSetIs
    <2>2. CASE i <= Len(a)
      BY <1>1, <1>2, <2>1, <2>2, ToSetIs
    <2>3. CASE ~(i <= Len(a))
      <3>1. i - Len(a) \in 1 .. Len(b) /\ b[i - Len(a)] = x
        BY <1>1, <1>2, <2>1, <2>3
      <3> QED  BY <3>1, ToSetIs
    <2> QED  BY <2>2, <2>3
  <1>4. ASSUME NEW x \in ToSet(a) PROVE x \in ToSet(c)
    <2>1. PICK i \in 1 .. Len(a) : a[i] = x
      BY ToSetIs
    <2>2. i \in 1 .. Len(c) /\ c[i] = x
      BY <1>1, <1>2, <2>1
    <2> QED  BY <1>1, <2>2, ToSetIs
  <1>5. ASSUME NEW x \in ToSet(b) PROVE x \in ToSet(c)
    <2>1. PICK i \in 1 .. Len(b) : b[i] = x
      BY ToSetIs
    <2> DEFINE j == i + Len(a)
    <2>2. j \in 1 .. Len(c) /\ ~(j <= Len(a)) /\ j - Len(a) = i
      BY <1>1, <1>2, <2>1
    <2> HIDE DEF j
    <2>3. c[j] = x
      BY <1>1, <2>1, <2>2
    <2> QED  BY <1>1, <2>2, <2>3, ToSetIs
  <1>6. ToSet(c) = ToSet(a) \cup ToSet(b)
    BY <1>3, <1>4, <1>5
  <1> QED  BY <1>1, <1>6 DEF c

LEMMA DistinctConcat ==
    ASSUME NEW a, NEW b, Distinct(a), Distinct(b), ToSet(a) \cap ToSet(b) = {}
    PROVE  Distinct(a \o b) /\ ToSet(a \o b) = ToSet(a) \cup ToSet(b)
  <1> DEFINE c == a \o b
  <1>0. a \in Seq(PartName) /\ b \in Seq(PartName)
    BY DEF Distinct
  <1>1. /\ c \in Seq(PartName) /\ Len(c) = Len(a) + Len(b)
        /\ \A i \in 1 .. Len(a) + Len(b) : c[i] = IF i <= Len(a) THEN a[i] ELSE b[i - Len(a)]
    BY <1>0, ConcatProperties
  <1>2. Len(a) \in Nat /\ Len(b) \in Nat
    BY <1>0, ToSetIs
  <1>3. ToSet(c) = ToSet(a) \cup ToSet(b)
    BY <1>0, ConcatToSet
  <1> HIDE DEF c
  <1>4. ASSUME NEW i \in 1 .. Len(a), NEW j \in 1 .. Len(b) PROVE a[i] # b[j]
    <2>1. a[i] \in ToSet(a) /\ b[j] \in ToSet(b)
      BY <1>0, ToSetIs
    <2> QED  BY <2>1
  <1>5. ASSUME NEW i \in 1 .. Len(c), NEW j \in 1 .. Len(c), c[i] = c[j] PROVE i = j
    <2>1. CASE i <= Len(a) /\ j <= Len(a)
      <3>1. i \in 1 .. Len(a) /\ j \in 1 .. Len(a) /\ a[i] = a[j]
        BY <1>1, <1>2, <1>5, <2>1
      <3> QED  BY <3>1 DEF Distinct
    <2>2. CASE i <= Len(a) /\ ~(j <= Len(a))
      <3>1. i \in 1 .. Len(a) /\ j - Len(a) \in 1 .. Len(b) /\ a[i] = b[j - Len(a)]
        BY <1>1, <1>2, <1>5, <2>2
      <3> QED  BY <1>4, <3>1
    <2>3. CASE ~(i <= Len(a)) /\ j <= Len(a)
      <3>1. j \in 1 .. Len(a) /\ i - Len(a) \in 1 .. Len(b) /\ a[j] = b[i - Len(a)]
        BY <1>1, <1>2, <1>5, <2>3
      <3> QED  BY <1>4, <3>1
    <2>4. CASE ~(i <= Len(a)) /\ ~(j <= Len(a))
      <3>1. /\ i - Len(a) \in 1 .. Len(b) /\ j - Len(a) \in 1 .. Len(b)
            /\ b[i - Len(a)] = b[j - Len(a)]
        BY <1>1, <1>2, <1>5, <2>4
      <3>2. i - Len(a) = j - Len(a)
        BY <3>1 DEF Distinct
      <3> QED  BY <1>1, <1>2, <3>2
    <2> QED  BY <2>1, <2>2, <2>3, <2>4
  <1>6. Distinct(c)
    BY <1>1, <1>5 DEF Distinct
  <1> QED  BY <1>3, <1>6 DEF c

LEMMA TidyConcat ==
    ASSUME NEW a, NEW b, Tidy(a), Tidy(b), ToSet(a) \cap ToSet(b) = {},
           "pmu" \notin ToSet(a) \/ ToSet(b) \cap Waited = {}
    PROVE  Tidy(a \o b) /\ ToSet(a \o b) = ToSet(a) \cup ToSet(b)
  <1> DEFINE c == a \o b
  <1>0. Distinct(a) /\ Distinct(b) /\ a \in Seq(PartName) /\ b \in Seq(PartName)
    BY DEF Distinct, Tidy
  <1>1. /\ Len(c) = Len(a) + Len(b)
        /\ \A i \in 1 .. Len(a) + Len(b) : c[i] = IF i <= Len(a) THEN a[i] ELSE b[i - Len(a)]
    BY <1>0, ConcatProperties
  <1>2. Len(a) \in Nat /\ Len(b) \in Nat
    BY <1>0, ToSetIs
  <1>3. Distinct(c) /\ ToSet(c) = ToSet(a) \cup ToSet(b)
    BY <1>0, DistinctConcat
  <1> HIDE DEF c
  <1>4. ASSUME NEW i \in 1 .. Len(c), NEW j \in 1 .. Len(c), c[i] = "pmu", c[j] \in Waited
        PROVE  j < i
    <2>1. CASE i <= Len(a) /\ j <= Len(a)
      <3>1. /\ i \in 1 .. Len(a) /\ j \in 1 .. Len(a)
            /\ a[i] = "pmu" /\ a[j] \in Waited
        BY <1>1, <1>2, <1>4, <2>1
      <3> QED  BY <3>1 DEF Tidy
    <2>2. CASE i <= Len(a) /\ ~(j <= Len(a))
      <3>1. /\ i \in 1 .. Len(a) /\ j - Len(a) \in 1 .. Len(b)
            /\ a[i] = "pmu" /\ b[j - Len(a)] \in Waited
        BY <1>1, <1>2, <1>4, <2>2
      <3>2. "pmu" \in ToSet(a) /\ b[j - Len(a)] \in ToSet(b)
        BY <1>0, <3>1, ToSetIs
      <3> QED  BY <3>1, <3>2
    <2>3. CASE ~(i <= Len(a)) /\ j <= Len(a)
      BY <1>1, <1>2, <2>3
    <2>4. CASE ~(i <= Len(a)) /\ ~(j <= Len(a))
      <3>1. /\ i - Len(a) \in 1 .. Len(b) /\ j - Len(a) \in 1 .. Len(b)
            /\ b[i - Len(a)] = "pmu" /\ b[j - Len(a)] \in Waited
        BY <1>1, <1>2, <1>4, <2>4
      <3>2. j - Len(a) < i - Len(a)
        BY <3>1 DEF Tidy
      <3> QED  BY <1>1, <1>2, <3>2
    <2> QED  BY <2>1, <2>2, <2>3, <2>4
  <1>5. Tidy(c)
    BY <1>3, <1>4 DEF Tidy
  <1> QED  BY <1>3, <1>5 DEF c

\* Where there is no PMU, distinct is tidy.
LEMMA TidyWithoutPmu ==
    ASSUME NEW q, Distinct(q), "pmu" \notin ToSet(q)
    PROVE  Tidy(q)
  <1>1. ASSUME NEW i \in 1 .. Len(q) PROVE q[i] # "pmu"
    BY ToSetIs DEF Distinct
  <1> QED  BY <1>1 DEF Tidy

LEMMA TupleNone == Distinct(<<>>) /\ ToSet(<<>>) = {}
  BY DEF Distinct, ToSet

LEMMA TupleOne ==
    ASSUME NEW x \in PartName
    PROVE  Distinct(<<x>>) /\ ToSet(<<x>>) = {x}
  BY DEF Distinct, ToSet

LEMMA TracepointNames ==
    /\ Distinct(<<"sched_switch", "sched_process_exit">>)
    /\ ToSet(<<"sched_switch", "sched_process_exit">>) = {"sched_switch", "sched_process_exit"}
  <1> DEFINE q == <<"sched_switch", "sched_process_exit">>
  <1>1. q \in Seq({"sched_switch", "sched_process_exit"})
    OBVIOUS
  <1>2. q \in Seq(PartName) /\ Len(q) = 2
    <2>1. {"sched_switch", "sched_process_exit"} \subseteq PartName
      BY DEF PartName
    <2>2. Len(q) = 2
      OBVIOUS
    <2> QED  BY <1>1, <2>1, <2>2, SeqMonotonic
  <1>3. /\ q[1] = "sched_switch" /\ q[2] = "sched_process_exit"
    OBVIOUS
  <1> HIDE DEF q
  <1>4. 1 .. 2 = {1, 2}
    OBVIOUS
  <1>5. ToSet(q) = {"sched_switch", "sched_process_exit"}
    <2>1. ToSet(q) = {q[i] : i \in {1, 2}}
      BY <1>2, <1>4, ToSetIs
    <2> QED  BY <1>3, <2>1, Zenon
  <1>6. ASSUME NEW i \in {1, 2}, NEW j \in {1, 2}, q[i] = q[j]
        PROVE  i = j
    BY <1>3, <1>6
  <1>7. Distinct(q)
    BY <1>2, <1>4, <1>6 DEF Distinct
  <1> QED  BY <1>5, <1>7 DEF q

LEMMA HookNames ==
    /\ Distinct(<<"sched_exec", "scheduler_tick", "finish_task_switch">>)
    /\ ToSet(<<"sched_exec", "scheduler_tick", "finish_task_switch">>) = {"sched_exec", "scheduler_tick", "finish_task_switch"}
  <1> DEFINE q == <<"sched_exec", "scheduler_tick", "finish_task_switch">>
  <1>1. q \in Seq({"sched_exec", "scheduler_tick", "finish_task_switch"})
    OBVIOUS
  <1>2. q \in Seq(PartName) /\ Len(q) = 3
    <2>1. {"sched_exec", "scheduler_tick", "finish_task_switch"} \subseteq PartName
      BY DEF PartName
    <2>2. Len(q) = 3
      OBVIOUS
    <2> QED  BY <1>1, <2>1, <2>2, SeqMonotonic
  <1>3. /\ q[1] = "sched_exec" /\ q[2] = "scheduler_tick"
        /\ q[3] = "finish_task_switch"
    OBVIOUS
  <1> HIDE DEF q
  <1>4. 1 .. 3 = {1, 2, 3}
    OBVIOUS
  <1>5. ToSet(q) = {"sched_exec", "scheduler_tick", "finish_task_switch"}
    <2>1. ToSet(q) = {q[i] : i \in {1, 2, 3}}
      BY <1>2, <1>4, ToSetIs
    <2> QED  BY <1>3, <2>1, Zenon
  <1>6. ASSUME NEW i \in {1, 2, 3}, NEW j \in {1, 2, 3}, q[i] = q[j]
        PROVE  i = j
    BY <1>3, <1>6
  <1>7. Distinct(q)
    BY <1>2, <1>4, <1>6 DEF Distinct
  <1> QED  BY <1>5, <1>7 DEF q

LEMMA InterruptNames ==
    /\ Distinct(<<"perf_event_nmi_handler", "intel_thermal_interrupt">>)
    /\ ToSet(<<"perf_event_nmi_handler", "intel_thermal_interrupt">>) = {"perf_event_nmi_handler", "intel_thermal_interrupt"}
  <1> DEFINE q == <<"perf_event_nmi_handler", "intel_thermal_interrupt">>
  <1>1. q \in Seq({"perf_event_nmi_handler", "intel_thermal_interrupt"})
    OBVIOUS
  <1>2. q \in Seq(PartName) /\ Len(q) = 2
    <2>1. {"perf_event_nmi_handler", "intel_thermal_interrupt"} \subseteq PartName
      BY DEF PartName
    <2>2. Len(q) = 2
      OBVIOUS
    <2> QED  BY <1>1, <2>1, <2>2, SeqMonotonic
  <1>3. /\ q[1] = "perf_event_nmi_handler" /\ q[2] = "intel_thermal_interrupt"
    OBVIOUS
  <1> HIDE DEF q
  <1>4. 1 .. 2 = {1, 2}
    OBVIOUS
  <1>5. ToSet(q) = {"perf_event_nmi_handler", "intel_thermal_interrupt"}
    <2>1. ToSet(q) = {q[i] : i \in {1, 2}}
      BY <1>2, <1>4, ToSetIs
    <2> QED  BY <1>3, <2>1, Zenon
  <1>6. ASSUME NEW i \in {1, 2}, NEW j \in {1, 2}, q[i] = q[j]
        PROVE  i = j
    BY <1>3, <1>6
  <1>7. Distinct(q)
    BY <1>2, <1>4, <1>6 DEF Distinct
  <1> QED  BY <1>5, <1>7 DEF q

LEMMA LastNames ==
    /\ Distinct(<<"registered", "pmu">>)
    /\ ToSet(<<"registered", "pmu">>) = {"registered", "pmu"}
  <1> DEFINE q == <<"registered", "pmu">>
  <1>1. q \in Seq({"registered", "pmu"})
    OBVIOUS
  <1>2. q \in Seq(PartName) /\ Len(q) = 2
    <2>1. {"registered", "pmu"} \subseteq PartName
      BY DEF PartName
    <2>2. Len(q) = 2
      OBVIOUS
    <2> QED  BY <1>1, <2>1, <2>2, SeqMonotonic
  <1>3. /\ q[1] = "registered" /\ q[2] = "pmu"
    OBVIOUS
  <1> HIDE DEF q
  <1>4. 1 .. 2 = {1, 2}
    OBVIOUS
  <1>5. ToSet(q) = {"registered", "pmu"}
    <2>1. ToSet(q) = {q[i] : i \in {1, 2}}
      BY <1>2, <1>4, ToSetIs
    <2> QED  BY <1>3, <2>1, Zenon
  <1>6. ASSUME NEW i \in {1, 2}, NEW j \in {1, 2}, q[i] = q[j]
        PROVE  i = j
    BY <1>3, <1>6
  <1>7. Distinct(q)
    BY <1>2, <1>4, <1>6 DEF Distinct
  <1> QED  BY <1>5, <1>7 DEF q

\* The last parts to be set up.
Late == <<"registered", "dir", "manager", "entries", "syswide">>
LEMMA LateIs ==
    /\ Distinct(Late) /\ Len(Late) = 5
    /\ ToSet(Late) = {"registered", "dir", "manager", "entries", "syswide"}
    /\ Late[1] = "registered" /\ Late[2] = "dir" /\ Late[3] = "manager"
    /\ Late[4] = "entries" /\ Late[5] = "syswide"
  <1> DEFINE q == Late
  <1>1. q \in Seq({"registered", "dir", "manager", "entries", "syswide"})
    BY DEF Late
  <1>2. q \in Seq(PartName) /\ Len(q) = 5
    <2>1. {"registered", "dir", "manager", "entries", "syswide"} \subseteq PartName
      BY DEF PartName
    <2>2. Len(q) = 5
      BY DEF Late
    <2> QED  BY <1>1, <2>1, <2>2, SeqMonotonic
  <1>3. /\ q[1] = "registered" /\ q[2] = "dir"
        /\ q[3] = "manager" /\ q[4] = "entries"
        /\ q[5] = "syswide"
    BY DEF Late
  <1> HIDE DEF q
  <1>4. 1 .. 5 = {1, 2, 3, 4, 5}
    OBVIOUS
  <1>5. ToSet(q) = {"registered", "dir", "manager", "entries", "syswide"}
    <2>1. ToSet(q) = {q[i] : i \in {1, 2, 3, 4, 5}}
      BY <1>2, <1>4, ToSetIs
    <2> QED  BY <1>3, <2>1, Zenon
  <1>6. ASSUME NEW i \in {1, 2, 3, 4, 5}, NEW j \in {1, 2, 3, 4, 5}, q[i] = q[j]
        PROVE  i = j
    BY <1>3, <1>6
  <1>7. Distinct(q)
    BY <1>2, <1>4, <1>6 DEF Distinct
  <1> QED  BY <1>2, <1>3, <1>5, <1>7 DEF q

\* What pmctrack_module_exit takes down besides the hooks.
NoHooks == <<"registered", "pmu", "manager", "entries", "syswide", "dir">>
LEMMA NoHooksIs ==
    /\ Distinct(NoHooks) /\ Len(NoHooks) = 6
    /\ ToSet(NoHooks) = {"registered", "pmu", "manager", "entries", "syswide", "dir"}
    /\ NoHooks[1] = "registered" /\ NoHooks[2] = "pmu" /\ NoHooks[3] = "manager"
    /\ NoHooks[4] = "entries" /\ NoHooks[5] = "syswide" /\ NoHooks[6] = "dir"
  <1> DEFINE q == NoHooks
  <1>1. q \in Seq({"registered", "pmu", "manager", "entries", "syswide", "dir"})
    BY DEF NoHooks
  <1>2. q \in Seq(PartName) /\ Len(q) = 6
    <2>1. {"registered", "pmu", "manager", "entries", "syswide", "dir"} \subseteq PartName
      BY DEF PartName
    <2>2. Len(q) = 6
      BY DEF NoHooks
    <2> QED  BY <1>1, <2>1, <2>2, SeqMonotonic
  <1>3. /\ q[1] = "registered" /\ q[2] = "pmu"
        /\ q[3] = "manager" /\ q[4] = "entries"
        /\ q[5] = "syswide" /\ q[6] = "dir"
    BY DEF NoHooks
  <1> HIDE DEF q
  <1>4. 1 .. 6 = {1, 2, 3, 4, 5, 6}
    OBVIOUS
  <1>5. ToSet(q) = {"registered", "pmu", "manager", "entries", "syswide", "dir"}
    <2>1. ToSet(q) = {q[i] : i \in {1, 2, 3, 4, 5, 6}}
      BY <1>2, <1>4, ToSetIs
    <2> QED  BY <1>3, <2>1, Zenon
  <1>6. ASSUME NEW i \in {1, 2, 3, 4, 5, 6}, NEW j \in {1, 2, 3, 4, 5, 6}, q[i] = q[j]
        PROVE  i = j
    BY <1>3, <1>6
  <1>7. Distinct(q)
    BY <1>2, <1>4, <1>6 DEF Distinct
  <1> QED  BY <1>2, <1>3, <1>5, <1>7 DEF q

-----------------------------------------------------------------------------------
(* What is set up, and taken down, in each build.                                   *)

TracepointSet == {"sched_switch", "sched_process_exit"}
HookSet == {"free_task", "copy_semundo", "sched_exec", "scheduler_tick", "finish_task_switch",
            "perf_event_nmi_handler", "intel_thermal_interrupt"}
LateSet == {"registered", "dir", "manager", "entries", "syswide"}

LEMMA TracepointsAre ==
    /\ Distinct(Tracepoints) /\ ToSet(Tracepoints) \subseteq TracepointSet
    /\ IF Patched THEN ToSet(Tracepoints) = {} ELSE "sched_process_exit" \in ToSet(Tracepoints)
  <1>1. CASE Patched
    BY <1>1, TupleNone DEF Tracepoints
  <1>2. CASE ~Patched
    BY <1>2, TracepointNames DEF Tracepoints, TracepointSet
  <1> QED  BY <1>1, <1>2

LEMMA KprobesAre ==
    /\ Distinct(Kprobes) /\ Len(Kprobes) <= 1
    /\ ToSet(Kprobes) = IF ~Patched /\ load.arch = "x86" THEN {"copy_semundo"} ELSE {}
  <1>1. CASE ~Patched /\ load.arch = "x86"
    BY <1>1, TupleOne DEF Kprobes, PartName
  <1>2. CASE ~(~Patched /\ load.arch = "x86")
    BY <1>2, TupleNone DEF Kprobes
  <1> QED  BY <1>1, <1>2

LEMMA ftrace_hooksAre ==
    /\ Distinct(ftrace_hooks) /\ ToSet(ftrace_hooks) \subseteq HookSet
    /\ load.arch = "x86" => "copy_semundo" \notin ToSet(ftrace_hooks)
    /\ ~Patched => "free_task" \in ToSet(ftrace_hooks)
    /\ ~Patched /\ load.arch # "x86" => "copy_semundo" \in ToSet(ftrace_hooks)
    /\ Patched /\ load.arch # "x86" => ToSet(ftrace_hooks) = {}
  <1> DEFINE hooks == <<"sched_exec", "scheduler_tick", "finish_task_switch">>
             fork == IF load.arch = "x86" THEN <<>> ELSE <<"copy_semundo">>
             first == <<"free_task">> \o fork \o hooks
             front == IF Patched THEN <<>> ELSE first
             back == IF load.arch = "x86" THEN <<"perf_event_nmi_handler", "intel_thermal_interrupt">>
                                          ELSE <<>>
  <1>1. ftrace_hooks = front \o back
    BY DEF ftrace_hooks
  <1>2. Distinct(hooks) /\ ToSet(hooks) = {"sched_exec", "scheduler_tick", "finish_task_switch"}
    BY HookNames
  <1>3. Distinct(fork) /\ ToSet(fork) = IF load.arch = "x86" THEN {} ELSE {"copy_semundo"}
    BY TupleNone, TupleOne DEF PartName
  <1>4. Distinct(<<"free_task">>) /\ ToSet(<<"free_task">>) = {"free_task"}
    BY TupleOne DEF PartName
  <1>5. /\ Distinct(back)
        /\ ToSet(back) = IF load.arch = "x86" THEN {"perf_event_nmi_handler", "intel_thermal_interrupt"}
                                              ELSE {}
    BY TupleNone, InterruptNames
  <1> HIDE DEF hooks, fork, back
  <1>6. /\ Distinct(<<"free_task">> \o fork)
        /\ ToSet(<<"free_task">> \o fork) = {"free_task"} \cup ToSet(fork)
    <2>1. ToSet(<<"free_task">>) \cap ToSet(fork) = {}
      BY <1>3, <1>4
    <2> QED  BY <1>3, <1>4, <2>1, DistinctConcat
  <1>7. /\ Distinct(first) /\ ToSet(first) = {"free_task"} \cup ToSet(fork) \cup ToSet(hooks)
    <2>1. ToSet(<<"free_task">> \o fork) \cap ToSet(hooks) = {}
      BY <1>2, <1>3, <1>6
    <2> QED  BY <1>2, <1>6, <2>1, DistinctConcat
  <1> HIDE DEF first
  <1>8. Distinct(front) /\ ToSet(front) = IF Patched THEN {} ELSE ToSet(first)
    BY <1>7, TupleNone
  <1> HIDE DEF front
  <1>9. Distinct(ftrace_hooks) /\ ToSet(ftrace_hooks) = ToSet(front) \cup ToSet(back)
    <2>1. ToSet(front) \cap ToSet(back) = {}
      BY <1>2, <1>3, <1>5, <1>7, <1>8
    <2> QED  BY <1>1, <1>5, <1>8, <2>1, DistinctConcat
  <1> QED  BY <1>2, <1>3, <1>5, <1>7, <1>8, <1>9 DEF HookSet

LEMMA PiecesAreApart ==
    /\ ToSet(Tracepoints) \cap ToSet(ftrace_hooks) = {}
    /\ (ToSet(Tracepoints) \cup ToSet(ftrace_hooks)) \cap ToSet(Kprobes) = {}
  BY TracepointsAre, KprobesAre, ftrace_hooksAre DEF TracepointSet, HookSet

StubSet == ToSet(Tracepoints) \cup ToSet(ftrace_hooks) \cup ToSet(Kprobes)

LEMMA StubsAre ==
    /\ Distinct(Stubs) /\ ToSet(Stubs) = StubSet
    /\ StubSet \cap ({"pmu"} \cup LateSet) = {}
    /\ Patched /\ load.arch # "x86" => StubSet = {}
    /\ ~Patched => {"copy_semundo", "sched_process_exit", "free_task"} \subseteq StubSet
  <1>1. /\ Distinct(Tracepoints \o ftrace_hooks)
        /\ ToSet(Tracepoints \o ftrace_hooks) = ToSet(Tracepoints) \cup ToSet(ftrace_hooks)
    BY TracepointsAre, ftrace_hooksAre, PiecesAreApart, DistinctConcat
  <1>2. /\ Distinct(Stubs) /\ ToSet(Stubs) = StubSet
    BY <1>1, KprobesAre, PiecesAreApart, DistinctConcat DEF Stubs, StubSet
  <1>3. StubSet \cap ({"pmu"} \cup LateSet) = {}
    BY TracepointsAre, KprobesAre, ftrace_hooksAre DEF StubSet, TracepointSet, HookSet, LateSet
  <1>4. Patched /\ load.arch # "x86" => StubSet = {}
    BY TracepointsAre, KprobesAre, ftrace_hooksAre DEF StubSet
  <1>5. ~Patched => {"copy_semundo", "sched_process_exit", "free_task"} \subseteq StubSet
    BY TracepointsAre, KprobesAre, ftrace_hooksAre DEF StubSet
  <1> QED  BY <1>2, <1>3, <1>4, <1>5

LEMMA WaitedIs == Waited = StubSet \cup {"registered"}
  BY StubsAre DEF Waited

LEMMA pmctrack_exitIs == Tidy(pmctrack_exit) /\ ToSet(pmctrack_exit) = StubSet
  <1>1. /\ Distinct(ftrace_hooks \o Tracepoints)
        /\ ToSet(ftrace_hooks \o Tracepoints) = ToSet(ftrace_hooks) \cup ToSet(Tracepoints)
    BY TracepointsAre, ftrace_hooksAre, PiecesAreApart, DistinctConcat
  <1>2. Distinct(pmctrack_exit) /\ ToSet(pmctrack_exit) = StubSet
    BY <1>1, KprobesAre, PiecesAreApart, DistinctConcat DEF pmctrack_exit, StubSet
  <1>3. "pmu" \notin ToSet(pmctrack_exit)
    BY <1>2, StubsAre
  <1> QED  BY <1>2, <1>3, TidyWithoutPmu

LEMMA PartsAre ==
    /\ Distinct(Parts) /\ ToSet(Parts) = {"pmu"} \cup StubSet \cup LateSet
    /\ Len(Stubs) \in Nat /\ Len(Parts) = Len(Stubs) + 6
    /\ Parts[1] = "pmu"
    /\ \A i \in 1 .. Len(Stubs) : Parts[i + 1] = Stubs[i]
    /\ \A i \in 1 .. 5 : Parts[Len(Stubs) + 1 + i] = Late[i]
  <1> DEFINE front == <<"pmu">> \o Stubs
  <1>1. Parts = front \o Late
    BY DEF Parts, Late
  <1>2. /\ Distinct(<<"pmu">>) /\ ToSet(<<"pmu">>) = {"pmu"} /\ <<"pmu">>[1] = "pmu"
        /\ Len(<<"pmu">>) = 1 /\ <<"pmu">> \in Seq(PartName)
    BY TupleOne DEF PartName, Distinct
  <1>3. Stubs \in Seq(PartName) /\ Late \in Seq(PartName) /\ Len(Stubs) \in Nat /\ Len(Late) = 5
    BY StubsAre, LateIs, ToSetIs DEF Distinct
  <1>4. Distinct(front) /\ ToSet(front) = {"pmu"} \cup StubSet
    <2>1. ToSet(<<"pmu">>) \cap ToSet(Stubs) = {}
      BY <1>2, StubsAre
    <2> QED  BY <1>2, <2>1, StubsAre, DistinctConcat
  <1>5. /\ Len(front) = Len(Stubs) + 1 /\ front \in Seq(PartName)
        /\ front[1] = "pmu" /\ \A i \in 1 .. Len(Stubs) : front[i + 1] = Stubs[i]
    <2>1. /\ front \in Seq(PartName) /\ Len(front) = 1 + Len(Stubs)
          /\ \A i \in 1 .. 1 + Len(Stubs) : front[i] = IF i <= 1 THEN <<"pmu">>[i] ELSE Stubs[i - 1]
      BY <1>2, <1>3, ConcatProperties
    <2> HIDE DEF front
    <2>2. front[1] = "pmu"
      BY <1>2, <1>3, <2>1
    <2>3. ASSUME NEW i \in 1 .. Len(Stubs) PROVE front[i + 1] = Stubs[i]
      BY <1>3, <2>1
    <2> QED  BY <1>3, <2>1, <2>2, <2>3
  <1> HIDE DEF front
  <1>6. Distinct(Parts) /\ ToSet(Parts) = {"pmu"} \cup StubSet \cup LateSet
    <2>1. ToSet(front) \cap ToSet(Late) = {}
      BY <1>4, LateIs, StubsAre DEF LateSet
    <2> QED  BY <1>1, <1>4, <2>1, LateIs, DistinctConcat DEF LateSet
  <1>7. /\ Len(Parts) = Len(front) + 5
        /\ \A i \in 1 .. Len(front) + 5 :
             Parts[i] = IF i <= Len(front) THEN front[i] ELSE Late[i - Len(front)]
    <2>1. /\ Len(front \o Late) = Len(front) + Len(Late)
          /\ \A i \in 1 .. Len(front) + Len(Late) :
               (front \o Late)[i] = IF i <= Len(front) THEN front[i] ELSE Late[i - Len(front)]
      BY <1>3, <1>5, ConcatProperties
    <2> QED  BY <1>1, <1>3, <2>1
  <1>8. Len(Parts) = Len(Stubs) + 6 /\ Parts[1] = "pmu"
    BY <1>3, <1>5, <1>7
  <1>9. ASSUME NEW i \in 1 .. Len(Stubs) PROVE Parts[i + 1] = Stubs[i]
    BY <1>3, <1>5, <1>7
  <1>10. ASSUME NEW i \in 1 .. 5 PROVE Parts[Len(Stubs) + 1 + i] = Late[i]
    <2> DEFINE j == Len(Stubs) + 1 + i
    <2>1. j \in 1 .. Len(front) + 5 /\ ~(j <= Len(front)) /\ j - Len(front) = i
      BY <1>3, <1>5
    <2> HIDE DEF j
    <2>2. Parts[j] = Late[i]
      BY <1>7, <2>1
    <2> QED  BY <2>2 DEF j
  <1> QED  BY <1>3, <1>6, <1>8, <1>9, <1>10

-----------------------------------------------------------------------------------
(* What is undone when a step fails.                                                *)

LEMMA EarlierIs ==
    ASSUME NEW q \in Seq(PartName), NEW k
    PROVE  \A x : x \in Earlier(q, k) <=> \E i \in 1 .. Len(q) : i < k /\ q[i] = x
  BY DEF Earlier

LEMMA ConcatEarlier ==
    ASSUME NEW a \in Seq(PartName), NEW b \in Seq(PartName), NEW k \in Nat
    PROVE  Earlier(a \o b, k) = IF k <= Len(a) THEN Earlier(a, k)
                              ELSE ToSet(a) \cup Earlier(b, k - Len(a))
  <1> DEFINE c == a \o b
  <1>1. /\ c \in Seq(PartName) /\ Len(c) = Len(a) + Len(b)
        /\ \A i \in 1 .. Len(a) + Len(b) : c[i] = IF i <= Len(a) THEN a[i] ELSE b[i - Len(a)]
    BY ConcatProperties
  <1>2. Len(a) \in Nat /\ Len(b) \in Nat
    BY ToSetIs
  <1> HIDE DEF c
  <1>3. ASSUME NEW x \in Earlier(c, k)
        PROVE  x \in Earlier(a, k) \/ (k > Len(a) /\ x \in Earlier(b, k - Len(a)))
    <2>1. PICK i \in 1 .. Len(c) : i < k /\ c[i] = x
      BY <1>1, EarlierIs
    <2>2. CASE i <= Len(a)
      <3>1. i \in 1 .. Len(a) /\ a[i] = x
        BY <1>1, <1>2, <2>1, <2>2
      <3> QED  BY <2>1, <3>1, EarlierIs
    <2>3. CASE ~(i <= Len(a))
      <3>1. i - Len(a) \in 1 .. Len(b) /\ b[i - Len(a)] = x /\ i - Len(a) < k - Len(a)
        BY <1>1, <1>2, <2>1, <2>3
      <3>2. k > Len(a)
        BY <1>1, <1>2, <2>1, <2>3
      <3> QED  BY <3>1, <3>2, EarlierIs
    <2> QED  BY <2>2, <2>3
  <1>4. ASSUME NEW x \in Earlier(a, k) PROVE x \in Earlier(c, k)
    <2>1. PICK i \in 1 .. Len(a) : i < k /\ a[i] = x
      BY EarlierIs
    <2>2. i \in 1 .. Len(c) /\ c[i] = x
      BY <1>1, <1>2, <2>1
    <2> QED  BY <1>1, <2>1, <2>2, EarlierIs
  <1>5. ASSUME k > Len(a), NEW x \in Earlier(b, k - Len(a)) PROVE x \in Earlier(c, k)
    <2>1. PICK i \in 1 .. Len(b) : i < k - Len(a) /\ b[i] = x
      BY EarlierIs
    <2> DEFINE j == i + Len(a)
    <2>2. j \in 1 .. Len(c) /\ ~(j <= Len(a)) /\ j - Len(a) = i /\ j < k
      BY <1>1, <1>2, <2>1
    <2> HIDE DEF j
    <2>3. c[j] = x
      BY <1>1, <2>1, <2>2
    <2> QED  BY <1>1, <2>2, <2>3, EarlierIs
  <1>6. k > Len(a) => Earlier(a, k) = ToSet(a)
    <2>1. ASSUME k > Len(a), NEW x PROVE x \in Earlier(a, k) <=> x \in ToSet(a)
      <3>1. \A i \in 1 .. Len(a) : i < k
        BY <1>2, <2>1
      <3> QED  BY <3>1, EarlierIs, ToSetIs
    <2> QED  BY <2>1
  <1>7. k > Len(a) <=> ~(k <= Len(a))
    BY <1>2
  <1> QED  BY <1>3, <1>4, <1>5, <1>6, <1>7 DEF c

LEMMA BeforeIs ==
    ASSUME NEW q, Distinct(q), NEW k \in 1 .. Len(q)
    PROVE  Distinct(Before(q, q[k])) /\ ToSet(Before(q, q[k])) = Earlier(q, k)
  <1>1. q \in Seq(PartName) /\ Len(q) \in Nat /\ DOMAIN q = 1 .. Len(q)
    BY ToSetIs DEF Distinct
  <1>2. (CHOOSE i \in DOMAIN q : q[i] = q[k]) = k
    BY <1>1 DEF Distinct
  <1> DEFINE p == SubSeq(q, 1, k - 1)
  <1>3. Before(q, q[k]) = p
    BY <1>2 DEF Before
  <1>4. /\ p \in Seq(PartName) /\ Len(p) = k - 1
        /\ \A i \in 1 .. k - 1 : p[i] = q[i]
    <2>1. \A i \in 1 .. k - 1 : q[i] \in PartName
      BY <1>1, ElementOfSeq
    <2>2. /\ p \in Seq(PartName) /\ Len(p) = IF 1 <= k - 1 THEN k - 1 - 1 + 1 ELSE 0
          /\ \A i \in 1 .. k - 1 - 1 + 1 : p[i] = q[1 + i - 1]
      BY <1>1, <2>1, SubSeqProperties
    <2> HIDE DEF p
    <2>3. Len(p) = k - 1
      BY <1>1, <2>2
    <2>4. ASSUME NEW i \in 1 .. k - 1 PROVE p[i] = q[i]
      <3>1. i \in 1 .. k - 1 - 1 + 1 /\ 1 + i - 1 = i
        BY <1>1
      <3> QED  BY <2>2, <3>1
    <2> QED  BY <2>2, <2>3, <2>4
  <1> HIDE DEF p
  <1>5. Distinct(p)
    <2>1. ASSUME NEW i \in 1 .. Len(p), NEW j \in 1 .. Len(p), p[i] = p[j] PROVE i = j
      <3>1. i \in 1 .. k - 1 /\ j \in 1 .. k - 1 /\ i \in 1 .. Len(q) /\ j \in 1 .. Len(q)
        BY <1>1, <1>4
      <3>2. q[i] = q[j]
        BY <1>4, <2>1, <3>1
      <3> QED  BY <3>1, <3>2 DEF Distinct
    <2> QED  BY <1>4, <2>1 DEF Distinct
  <1>6. ASSUME NEW x PROVE x \in ToSet(p) <=> x \in Earlier(q, k)
    <2>1. x \in ToSet(p) <=> \E i \in 1 .. k - 1 : p[i] = x
      BY <1>4, ToSetIs
    <2>2. (\E i \in 1 .. k - 1 : q[i] = x) <=> \E i \in 1 .. Len(q) : i < k /\ q[i] = x
      BY <1>1
    <2> QED  BY <1>1, <1>4, <2>1, <2>2, EarlierIs
  <1> QED  BY <1>3, <1>5, <1>6

LEMMA ReverseIs ==
    ASSUME NEW q, Distinct(q)
    PROVE  Distinct(Reverse(q)) /\ ToSet(Reverse(q)) = ToSet(q)
  <1> DEFINE n == Len(q)
             p == Reverse(q)
  <1>1. q \in Seq(PartName) /\ n \in Nat
    BY ToSetIs DEF Distinct
  <1>2. ASSUME NEW i \in 1 .. n PROVE n - i + 1 \in 1 .. n /\ q[n - i + 1] \in PartName
    <2>1. n - i + 1 \in 1 .. n
      BY <1>1
    <2> QED  BY <1>1, <2>1, ElementOfSeq
  <1>3. /\ p \in Seq(PartName) /\ Len(p) = n
        /\ \A i \in 1 .. n : p[i] = q[n - i + 1]
    <2>1. p = [i \in 1 .. n |-> q[n - i + 1]]
      BY DEF Reverse
    <2>2. p \in [1 .. n -> PartName]
      BY <1>2, <2>1
    <2>3. p \in Seq(PartName)
      BY <1>1, <2>2, SeqDef
    <2>4. Len(p) = n
      BY <1>1, <2>1, <2>3, LenProperties
    <2> QED  BY <2>1, <2>3, <2>4
  <1> HIDE DEF p
  <1>4. Distinct(p)
    <2>1. ASSUME NEW i \in 1 .. Len(p), NEW j \in 1 .. Len(p), p[i] = p[j] PROVE i = j
      <3>1. /\ n - i + 1 \in 1 .. n /\ n - j + 1 \in 1 .. n /\ q[n - i + 1] = q[n - j + 1]
        BY <1>2, <1>3, <2>1
      <3>2. n - i + 1 = n - j + 1
        BY <3>1 DEF Distinct
      <3> QED  BY <1>1, <1>3, <3>2
    <2> QED  BY <1>3, <2>1 DEF Distinct
  <1>5. ASSUME NEW x \in ToSet(p) PROVE x \in ToSet(q)
    <2>1. PICK i \in 1 .. n : p[i] = x
      BY <1>3, ToSetIs
    <2> QED  BY <1>1, <1>2, <1>3, <2>1, ToSetIs
  <1>6. ASSUME NEW x \in ToSet(q) PROVE x \in ToSet(p)
    <2>1. PICK i \in 1 .. n : q[i] = x
      BY <1>1, ToSetIs
    <2>2. n - i + 1 \in 1 .. n /\ n - (n - i + 1) + 1 = i
      BY <1>1
    <2>3. p[n - i + 1] = x
      BY <1>3, <2>1, <2>2
    <2> QED  BY <1>3, <2>2, <2>3, ToSetIs
  <1>7. ToSet(p) = ToSet(q)
    BY <1>5, <1>6
  <1> QED  BY <1>4, <1>7 DEF p

LEMMA StubsConcat ==
    /\ Tracepoints \in Seq(PartName) /\ ftrace_hooks \in Seq(PartName) /\ Kprobes \in Seq(PartName)
    /\ Len(Tracepoints) \in Nat /\ Len(ftrace_hooks) \in Nat /\ Len(Kprobes) \in Nat
    /\ Len(Stubs) = Len(Tracepoints) + Len(ftrace_hooks) + Len(Kprobes)
    /\ \A k \in 1 .. Len(Stubs) :
         LET m == k - Len(Tracepoints)
         IN  /\ k <= Len(Tracepoints) =>
                  Stubs[k] = Tracepoints[k] /\ Earlier(Stubs, k) = Earlier(Tracepoints, k)
             /\ k > Len(Tracepoints) /\ m <= Len(ftrace_hooks) =>
                  /\ Stubs[k] = ftrace_hooks[m]
                  /\ Earlier(Stubs, k) = ToSet(Tracepoints) \cup Earlier(ftrace_hooks, m)
             /\ m > Len(ftrace_hooks) =>
                  /\ Stubs[k] = Kprobes[m - Len(ftrace_hooks)]
                  /\ Earlier(Stubs, k) = ToSet(Tracepoints) \cup ToSet(ftrace_hooks)
                                         \cup Earlier(Kprobes, m - Len(ftrace_hooks))
  <1> DEFINE a == Tracepoints
             b == ftrace_hooks
             c == Kprobes
             ab == a \o b
  <1>1. /\ a \in Seq(PartName) /\ b \in Seq(PartName) /\ c \in Seq(PartName)
        /\ Len(a) \in Nat /\ Len(b) \in Nat /\ Len(c) \in Nat
    BY TracepointsAre, ftrace_hooksAre, KprobesAre, ToSetIs DEF Distinct
  <1>2. Stubs = ab \o c
    BY DEF Stubs
  <1> HIDE DEF a, b, c
  <1>3. /\ ab \in Seq(PartName) /\ Len(ab) = Len(a) + Len(b) /\ ToSet(ab) = ToSet(a) \cup ToSet(b)
        /\ \A i \in 1 .. Len(a) + Len(b) : ab[i] = IF i <= Len(a) THEN a[i] ELSE b[i - Len(a)]
    BY <1>1, ConcatProperties, ConcatToSet
  <1>4. \A k \in Nat : Earlier(ab, k) = IF k <= Len(a) THEN Earlier(a, k)
                                      ELSE ToSet(a) \cup Earlier(b, k - Len(a))
    BY <1>1, ConcatEarlier
  <1> HIDE DEF ab
  <1>5. /\ Len(Stubs) = Len(ab) + Len(c)
        /\ \A i \in 1 .. Len(ab) + Len(c) : Stubs[i] = IF i <= Len(ab) THEN ab[i] ELSE c[i - Len(ab)]
    <2>1. /\ ab \o c \in Seq(PartName) /\ Len(ab \o c) = Len(ab) + Len(c)
          /\ \A i \in 1 .. Len(ab) + Len(c) :
               (ab \o c)[i] = IF i <= Len(ab) THEN ab[i] ELSE c[i - Len(ab)]
      <3>1. ab \in Seq(PartName) /\ c \in Seq(PartName)
        BY <1>1, <1>3
      <3> QED  BY <3>1, ConcatProperties
    <2> QED  BY <1>2, <2>1
  <1>6. \A k \in Nat : Earlier(Stubs, k) = IF k <= Len(ab) THEN Earlier(ab, k)
                                         ELSE ToSet(ab) \cup Earlier(c, k - Len(ab))
    <2>1. \A k \in Nat : Earlier(ab \o c, k) = IF k <= Len(ab) THEN Earlier(ab, k)
                                              ELSE ToSet(ab) \cup Earlier(c, k - Len(ab))
      BY <1>1, <1>3, ConcatEarlier
    <2> QED  BY <1>2, <2>1
  <1>7. ASSUME NEW k \in 1 .. Len(Stubs), k <= Len(a)
        PROVE  Stubs[k] = a[k] /\ Earlier(Stubs, k) = Earlier(a, k)
    <2>1. k \in 1 .. Len(ab) + Len(c) /\ k \in 1 .. Len(a) + Len(b) /\ k <= Len(ab) /\ k \in Nat
      BY <1>1, <1>3, <1>5, <1>7
    <2> QED  BY <1>3, <1>4, <1>5, <1>6, <1>7, <2>1
  <1>8. ASSUME NEW k \in 1 .. Len(Stubs), k > Len(a), k - Len(a) <= Len(b)
        PROVE  /\ Stubs[k] = b[k - Len(a)]
               /\ Earlier(Stubs, k) = ToSet(a) \cup Earlier(b, k - Len(a))
    <2>1. /\ k \in 1 .. Len(ab) + Len(c) /\ k \in 1 .. Len(a) + Len(b) /\ k <= Len(ab) /\ k \in Nat
          /\ ~(k <= Len(a))
      BY <1>1, <1>3, <1>5, <1>8
    <2> QED  BY <1>3, <1>4, <1>5, <1>6, <2>1
  <1>9. ASSUME NEW k \in 1 .. Len(Stubs), k - Len(a) > Len(b)
        PROVE  /\ Stubs[k] = c[k - Len(a) - Len(b)]
               /\ Earlier(Stubs, k) = ToSet(a) \cup ToSet(b) \cup Earlier(c, k - Len(a) - Len(b))
    <2>1. /\ k \in 1 .. Len(ab) + Len(c) /\ ~(k <= Len(ab)) /\ k \in Nat
          /\ k - Len(ab) = k - Len(a) - Len(b)
      BY <1>1, <1>3, <1>5, <1>9
    <2> QED  BY <1>3, <1>5, <1>6, <2>1
  <1>10. Len(Stubs) = Len(a) + Len(b) + Len(c)
    BY <1>1, <1>3, <1>5
  <1> QED  BY <1>1, <1>7, <1>8, <1>9, <1>10 DEF a, b, c

LEMMA UndoneStubsIs ==
    ASSUME NEW k \in 1 .. Len(Stubs)
    PROVE  /\ Tidy(UndoneStubs(Stubs[k])) /\ ToSet(UndoneStubs(Stubs[k])) = Earlier(Stubs, k)
           /\ Earlier(Stubs, k) \subseteq StubSet
  <1> DEFINE a == Tracepoints
             b == ftrace_hooks
             c == Kprobes
             m == k - Len(a)
             s == Stubs[k]
  <1>0. k \in Nat /\ Len(a) \in Nat /\ Len(b) \in Nat /\ Len(c) \in Nat
        /\ Len(Stubs) = Len(a) + Len(b) + Len(c)
    BY StubsAre, StubsConcat, ToSetIs DEF Distinct
  <1>1. /\ Distinct(a) /\ Distinct(b) /\ Distinct(c) /\ Len(c) <= 1
        /\ ToSet(a) \cap ToSet(b) = {} /\ (ToSet(a) \cup ToSet(b)) \cap ToSet(c) = {}
    BY TracepointsAre, ftrace_hooksAre, KprobesAre, PiecesAreApart
  <1>2. "pmu" \notin ToSet(a) \cup ToSet(b)
    BY StubsAre DEF StubSet
  <1>3. Earlier(Stubs, k) \subseteq StubSet
    BY StubsAre, EarlierIs, ToSetIs DEF Distinct
  <1>4. CASE k <= Len(a)
    <2>1. k \in 1 .. Len(a) /\ s = a[k] /\ Earlier(Stubs, k) = Earlier(a, k)
      BY <1>0, <1>4, StubsConcat
    <2>2. s \in ToSet(a) /\ s \notin ToSet(b)
      BY <1>1, <2>1, ToSetIs DEF Distinct
    <2>3. UndoneStubs(s) = Before(a, a[k])
      BY <2>1, <2>2 DEF UndoneStubs
    <2>4. Distinct(UndoneStubs(s)) /\ ToSet(UndoneStubs(s)) = Earlier(Stubs, k)
      BY <1>1, <2>1, <2>3, BeforeIs
    <2>5. "pmu" \notin ToSet(UndoneStubs(s))
      BY <1>3, <2>4, StubsAre
    <2> QED  BY <1>3, <2>4, <2>5, TidyWithoutPmu
  <1>5. CASE k > Len(a) /\ m <= Len(b)
    <2>1. /\ m \in 1 .. Len(b) /\ s = b[m] /\ Earlier(Stubs, k) = ToSet(a) \cup Earlier(b, m)
      BY <1>0, <1>5, StubsConcat
    <2>2. s \in ToSet(b) /\ s \notin ToSet(a)
      BY <1>1, <2>1, ToSetIs DEF Distinct
    <2> DEFINE undone == Reverse(Before(b, b[m]))
    <2>3. UndoneStubs(s) = undone \o a
      BY <2>1, <2>2 DEF UndoneStubs
    <2>4. Distinct(undone) /\ ToSet(undone) = Earlier(b, m)
      BY <1>1, <2>1, BeforeIs, ReverseIs
    <2>5. ToSet(undone) \cap ToSet(a) = {}
      <3>1. Earlier(b, m) \subseteq ToSet(b)
        BY <1>1, EarlierIs, ToSetIs DEF Distinct
      <3> QED  BY <1>1, <2>4, <3>1
    <2> HIDE DEF undone
    <2>6. Distinct(UndoneStubs(s)) /\ ToSet(UndoneStubs(s)) = Earlier(Stubs, k)
      <3>1. Distinct(undone \o a) /\ ToSet(undone \o a) = ToSet(undone) \cup ToSet(a)
        BY <1>1, <2>4, <2>5, DistinctConcat
      <3> QED  BY <2>1, <2>3, <2>4, <3>1
    <2>7. "pmu" \notin ToSet(UndoneStubs(s))
      BY <1>3, <2>6, StubsAre
    <2> QED  BY <1>3, <2>6, <2>7, TidyWithoutPmu
  <1>6. CASE m > Len(b)
    <2>1. m - Len(b) = 1 /\ 1 \in 1 .. Len(c)
      BY <1>0, <1>1, <1>6
    <2>2. s = c[1] /\ Earlier(Stubs, k) = ToSet(a) \cup ToSet(b) \cup Earlier(c, 1)
      BY <1>6, <2>1, StubsConcat
    <2>3. s \in ToSet(c) /\ s \notin ToSet(a) /\ s \notin ToSet(b)
      BY <1>1, <2>1, <2>2, ToSetIs DEF Distinct
    <2>4. UndoneStubs(s) = b \o a
      BY <2>3 DEF UndoneStubs
    <2>5. Earlier(c, 1) = {}
      BY <1>0 DEF Earlier
    <2>6. Distinct(UndoneStubs(s)) /\ ToSet(UndoneStubs(s)) = Earlier(Stubs, k)
      <3>1. Distinct(b \o a) /\ ToSet(b \o a) = ToSet(b) \cup ToSet(a)
        BY <1>1, DistinctConcat
      <3> QED  BY <2>2, <2>4, <2>5, <3>1
    <2>7. "pmu" \notin ToSet(UndoneStubs(s))
      BY <1>3, <2>6, StubsAre
    <2> QED  BY <1>3, <2>6, <2>7, TidyWithoutPmu
  <1> QED  BY <1>0, <1>4, <1>5, <1>6

\* Which part is set up in each step, and what has been before.
LEMMA StepsAre ==
    ASSUME NEW k \in 1 .. Len(Parts)
    PROVE  \/ Parts[k] = "pmu" /\ UpTo(k) = {}
           \/ \E i \in 1 .. Len(Stubs) :
                Parts[k] = Stubs[i] /\ UpTo(k) = {"pmu"} \cup Earlier(Stubs, i)
           \/ Parts[k] = "registered" /\ UpTo(k) = {"pmu"} \cup StubSet
           \/ Parts[k] = "dir" /\ UpTo(k) = {"pmu"} \cup StubSet \cup {"registered"}
           \/ Parts[k] \in {"manager", "entries", "syswide"}
  <1> DEFINE L == Len(Stubs)
             head == <<"pmu">>
             front == head \o Stubs
  <1>1. L \in Nat /\ Len(Parts) = L + 6 /\ k \in Nat /\ k >= 1
    BY PartsAre
  <1>2. Stubs \in Seq(PartName) /\ Late \in Seq(PartName)
    BY StubsAre, LateIs DEF Distinct
  <1>3. head \in Seq(PartName) /\ ToSet(head) = {"pmu"} /\ Len(head) = 1
    BY TupleOne DEF PartName, Distinct
  <1>5. Parts = front \o Late
    BY DEF Parts, Late
  <1> HIDE DEF head
  <1>4. front \in Seq(PartName) /\ Len(front) = L + 1 /\ ToSet(front) = {"pmu"} \cup StubSet
    <2>1. Len(front) = Len(head) + Len(Stubs)
      BY <1>2, <1>3, ConcatProperties
    <2> QED  BY <1>1, <1>2, <1>3, <2>1, ConcatToSet, StubsAre
  <1>7. Earlier(front, k) = IF k <= 1 THEN Earlier(head, k) ELSE {"pmu"} \cup Earlier(Stubs, k - 1)
    <2>1. Earlier(head \o Stubs, k) = IF k <= Len(head) THEN Earlier(head, k)
                                     ELSE ToSet(head) \cup Earlier(Stubs, k - Len(head))
      BY <1>1, <1>2, <1>3, ConcatEarlier
    <2> QED  BY <1>3, <2>1
  <1> HIDE DEF front
  <1>6. UpTo(k) = IF k <= L + 1 THEN Earlier(front, k)
                  ELSE {"pmu"} \cup StubSet \cup Earlier(Late, k - (L + 1))
    <2>1. Earlier(front \o Late, k) = IF k <= L + 1 THEN Earlier(front, k)
                                     ELSE {"pmu"} \cup StubSet \cup Earlier(Late, k - (L + 1))
      BY <1>1, <1>2, <1>4, ConcatEarlier
    <2> QED  BY <1>5, <2>1 DEF UpTo
  <1>8. CASE k = 1
    <2>1. UpTo(k) = {}
      BY <1>8 DEF UpTo, Earlier
    <2> QED  BY <1>8, <2>1, PartsAre
  <1>9. CASE k \in 2 .. L + 1
    <2>1. k - 1 \in 1 .. L /\ k - 1 + 1 = k /\ k <= L + 1 /\ ~(k <= 1)
      BY <1>1, <1>9
    <2>2. Parts[k] = Stubs[k - 1]
      <3> DEFINE i == k - 1
      <3>1. i \in 1 .. L /\ i + 1 = k
        BY <2>1
      <3> HIDE DEF i
      <3>2. Parts[i + 1] = Stubs[i]
        BY <3>1, PartsAre
      <3> QED  BY <3>1, <3>2 DEF i
    <2>3. UpTo(k) = {"pmu"} \cup Earlier(Stubs, k - 1)
      BY <1>6, <1>7, <2>1
    <2> QED  BY <2>1, <2>2, <2>3
  <1>10. CASE k = L + 2
    <2>1. Parts[L + 1 + 1] = Late[1] /\ L + 1 + 1 = k /\ k - (L + 1) = 1 /\ ~(k <= L + 1)
      BY <1>1, <1>10, PartsAre
    <2>2. Earlier(Late, 1) = {}
      BY DEF Earlier
    <2> QED  BY <1>6, <2>1, <2>2, LateIs
  <1>11. CASE k = L + 3
    <2>1. Parts[L + 1 + 2] = Late[2] /\ L + 1 + 2 = k /\ k - (L + 1) = 2 /\ ~(k <= L + 1)
      BY <1>1, <1>11, PartsAre
    <2>2. Earlier(Late, 2) = {"registered"}
      <3>1. {j \in 1 .. 5 : j < 2} = {1}
        OBVIOUS
      <3>2. Earlier(Late, 2) = {Late[i] : i \in {1}}
        BY <3>1, LateIs DEF Earlier
      <3> QED  BY <3>2, LateIs
    <2>3. UpTo(k) = {"pmu"} \cup StubSet \cup {"registered"}
      BY <1>6, <2>1, <2>2
    <2> QED  BY <2>1, <2>3, LateIs
  <1>12. CASE k \in L + 4 .. L + 6
    <2> DEFINE i == k - (L + 1)
    <2>1. i \in 3 .. 5 /\ L + 1 + i = k /\ i \in 1 .. 5
      BY <1>1, <1>12
    <2> HIDE DEF i
    <2>2. Parts[k] = Late[i]
      BY <2>1, PartsAre
    <2>3. i = 3 \/ i = 4 \/ i = 5
      BY <2>1
    <2>4. Late[i] \in {"manager", "entries", "syswide"}
      BY <2>3, LateIs
    <2> QED  BY <2>2, <2>4
  <1>13. k = 1 \/ k \in 2 .. L + 1 \/ k = L + 2 \/ k = L + 3 \/ k \in L + 4 .. L + 6
    BY <1>1
  <1> QED  BY <1>8, <1>9, <1>10, <1>11, <1>12, <1>13

LEMMA PmuIsTidy == Tidy(<<"pmu">>) /\ ToSet(<<"pmu">>) = {"pmu"} /\ ToSet(<<"pmu">>) \cap Waited = {}
  <1>1. Distinct(<<"pmu">>) /\ ToSet(<<"pmu">>) = {"pmu"}
    BY TupleOne DEF PartName
  <1>2. {"pmu"} \cap Waited = {}
    BY WaitedIs, StubsAre
  <1>3. \A j \in 1 .. Len(<<"pmu">>) : <<"pmu">>[j] \notin Waited
    BY <1>1, <1>2, ToSetIs DEF Distinct
  <1> QED  BY <1>1, <1>2, <1>3 DEF Tidy

LEMMA out_errorIs ==
    ASSUME NEW k \in 1 .. Len(Parts), Parts[k] \notin {"manager", "entries", "syswide"}
    PROVE  \E q : Tidy(q) /\ ToSet(q) = UpTo(k) /\ out_error(Parts[k]) = Undo(q)
  <1> DEFINE p == Parts[k]
  <1>1. CASE p = "pmu" /\ UpTo(k) = {}
    <2>0. p \notin ToSet(Stubs) /\ p # "registered" /\ p # "dir"
      BY <1>1, StubsAre
    <2>1. out_error(p) = Undo(<<>>)
      BY <1>1, <2>0 DEF out_error
    <2>2. Tidy(<<>>) /\ ToSet(<<>>) = {}
      BY TupleNone, TidyWithoutPmu
    <2> QED  BY <1>1, <2>1, <2>2
  <1>2. ASSUME NEW i \in 1 .. Len(Stubs), p = Stubs[i], UpTo(k) = {"pmu"} \cup Earlier(Stubs, i)
        PROVE  \E q : Tidy(q) /\ ToSet(q) = UpTo(k) /\ out_error(p) = Undo(q)
    <2>1. p \in StubSet /\ p \in ToSet(Stubs) /\ p # "pmu" /\ p # "registered" /\ p # "dir"
      BY <1>2, StubsAre, ToSetIs DEF Distinct, LateSet
    <2>2. out_error(p) = Undo(UndoneStubs(p) \o <<"pmu">>)
      BY <2>1 DEF out_error
    <2>3. Tidy(UndoneStubs(p)) /\ ToSet(UndoneStubs(p)) = Earlier(Stubs, i) /\ Earlier(Stubs, i) \subseteq StubSet
      BY <1>2, UndoneStubsIs
    <2>4. ToSet(UndoneStubs(p)) \cap ToSet(<<"pmu">>) = {}
      BY <2>3, StubsAre, PmuIsTidy
    <2>5. /\ Tidy(UndoneStubs(p) \o <<"pmu">>)
          /\ ToSet(UndoneStubs(p) \o <<"pmu">>) = Earlier(Stubs, i) \cup {"pmu"}
      BY <2>3, <2>4, PmuIsTidy, TidyConcat
    <2> QED  BY <1>2, <2>2, <2>5
  <1>3. CASE p = "registered" /\ UpTo(k) = {"pmu"} \cup StubSet
    <2>1. p \notin ToSet(Stubs)
      BY <1>3, StubsAre DEF LateSet
    <2>2. out_error(p) = Undo(pmctrack_exit \o <<"pmu">>)
      BY <1>3, <2>1 DEF out_error
    <2>3. ToSet(pmctrack_exit) \cap ToSet(<<"pmu">>) = {}
      BY pmctrack_exitIs, PmuIsTidy, StubsAre
    <2>4. /\ Tidy(pmctrack_exit \o <<"pmu">>)
          /\ ToSet(pmctrack_exit \o <<"pmu">>) = StubSet \cup {"pmu"}
      BY <2>3, pmctrack_exitIs, PmuIsTidy, TidyConcat
    <2> QED  BY <1>3, <2>2, <2>4
  <1>4. CASE p = "dir" /\ UpTo(k) = {"pmu"} \cup StubSet \cup {"registered"}
    <2> DEFINE ending == <<"registered", "pmu">>
    <2>1. p \notin ToSet(Stubs)
      BY <1>4, StubsAre DEF LateSet
    <2>2. out_error(p) = Undo(pmctrack_exit \o ending)
      BY <1>4, <2>1 DEF out_error
    <2>3. Distinct(ending) /\ ToSet(ending) = {"registered", "pmu"}
      BY LastNames
    <2>4. Len(ending) = 2 /\ ending[1] = "registered" /\ ending[2] = "pmu"
      OBVIOUS
    <2> HIDE DEF ending
    <2>5. Tidy(ending)
      <3>1. "pmu" \notin Waited
        BY WaitedIs, StubsAre
      <3>2. ASSUME NEW i \in 1 .. Len(ending), NEW j \in 1 .. Len(ending),
                   ending[i] = "pmu", ending[j] \in Waited
            PROVE  j < i
        <4>1. (i = 1 \/ i = 2) /\ (j = 1 \/ j = 2)
          BY <2>4
        <4>2. j # 2
          BY <2>4, <3>1, <3>2
        <4>3. i # 1
          BY <2>4, <3>2
        <4> QED  BY <4>1, <4>2, <4>3
      <3> QED  BY <2>3, <3>2 DEF Tidy
    <2>6. "pmu" \notin ToSet(pmctrack_exit) /\ ToSet(pmctrack_exit) \cap ToSet(ending) = {}
      BY <2>3, pmctrack_exitIs, StubsAre DEF LateSet
    <2>7. /\ Tidy(pmctrack_exit \o ending)
          /\ ToSet(pmctrack_exit \o ending) = StubSet \cup {"registered", "pmu"}
      BY <2>3, <2>5, <2>6, pmctrack_exitIs, TidyConcat
    <2>8. ToSet(pmctrack_exit \o ending) = UpTo(k)
      BY <1>4, <2>7
    <2> QED  BY <2>2, <2>7, <2>8
  <1> QED  BY <1>1, <1>2, <1>3, <1>4, StepsAre

LEMMA pmctrack_module_exitIs ==
    ASSUME ~(Patched /\ load.arch = "x86")
    PROVE  \E q : Tidy(q) /\ ToSet(q) = ToSet(Parts) /\ pmctrack_module_exit = Undo(q)
  <1> DEFINE hooks == IF Patched THEN <<>> ELSE pmctrack_exit
  <1>1. pmctrack_module_exit = Undo(hooks \o NoHooks)
    BY DEF pmctrack_module_exit, NoHooks
  <1>2. Tidy(hooks) /\ ToSet(hooks) = StubSet
    <2>1. CASE Patched
      <3>1. StubSet = {}
        BY <2>1, StubsAre
      <3> QED  BY <2>1, <3>1, TupleNone, TidyWithoutPmu
    <2>2. CASE ~Patched
      BY <2>2, pmctrack_exitIs
    <2> QED  BY <2>1, <2>2
  <1> HIDE DEF hooks
  <1>3. Tidy(NoHooks)
    <2>1. Waited \cap ToSet(NoHooks) = {"registered"}
      BY WaitedIs, StubsAre, NoHooksIs DEF LateSet
    <2>2. ASSUME NEW i \in 1 .. Len(NoHooks), NEW j \in 1 .. Len(NoHooks),
                 NoHooks[i] = "pmu", NoHooks[j] \in Waited
          PROVE  j < i
      <3>1. NoHooks[j] \in ToSet(NoHooks)
        BY NoHooksIs, ToSetIs DEF Distinct
      <3>2. NoHooks[j] = "registered"
        BY <2>1, <2>2, <3>1
      <3>3. 1 \in 1 .. Len(NoHooks) /\ 2 \in 1 .. Len(NoHooks)
        BY NoHooksIs
      <3>4. j = 1
        BY <3>2, <3>3, NoHooksIs DEF Distinct
      <3>5. i = 2
        BY <2>2, <3>3, NoHooksIs DEF Distinct
      <3> QED  BY <3>4, <3>5
    <2> QED  BY <2>2, NoHooksIs DEF Tidy
  <1>4. "pmu" \notin ToSet(hooks) /\ ToSet(hooks) \cap ToSet(NoHooks) = {}
    BY <1>2, NoHooksIs, StubsAre DEF LateSet
  <1>5. Tidy(hooks \o NoHooks) /\ ToSet(hooks \o NoHooks) = ToSet(hooks) \cup ToSet(NoHooks)
    BY <1>2, <1>3, <1>4, TidyConcat
  <1>6. ToSet(hooks \o NoHooks) = ToSet(Parts)
    BY <1>2, <1>5, NoHooksIs, PartsAre DEF LateSet
  <1> QED  BY <1>1, <1>5, <1>6

-----------------------------------------------------------------------------------
(* Scripts: what the loader has yet to do, step by step.                            *)

Step == [does : {"add", "remove", "become"}, part : PartName \cup {"initialized", "live", "gone"}]

LEMMA StepsDiffer ==
    ASSUME NEW a, NEW b
    PROVE  /\ Adds(a) = Adds(b) <=> a = b
           /\ Removes(a) = Removes(b) <=> a = b
           /\ Becomes(a) = Becomes(b) <=> a = b
           /\ Adds(a) # Removes(b) /\ Adds(a) # Becomes(b) /\ Removes(a) # Becomes(b)
  <1>1. /\ Adds(a).does = "add" /\ Adds(a).part = a /\ Adds(b).part = b
        /\ Removes(a).does = "remove" /\ Removes(a).part = a /\ Removes(b).part = b
        /\ Removes(b).does = "remove"
        /\ Becomes(a).part = a /\ Becomes(b).does = "become" /\ Becomes(b).part = b
    BY DEF Adds, Removes, Becomes
  <1>2. (a = b => Adds(a) = Adds(b) /\ Removes(a) = Removes(b) /\ Becomes(a) = Becomes(b))
    OBVIOUS
  <1> QED  BY <1>1, <1>2

LEMMA InitIs ==
    /\ pmctrack_module_init \in Seq(Step) /\ Len(pmctrack_module_init) = Len(Parts) + 2
    /\ Len(Parts) \in Nat /\ Len(Parts) >= 6
    /\ \A k \in 1 .. Len(Parts) : pmctrack_module_init[k] = Adds(Parts[k])
    /\ pmctrack_module_init[Len(Parts) + 1] = Becomes("initialized")
    /\ pmctrack_module_init[Len(Parts) + 2] = Becomes("live")
  <1> DEFINE n == Len(Parts)
             adds == [i \in DOMAIN Parts |-> Adds(Parts[i])]
             ending == <<Becomes("initialized"), Becomes("live")>>
  <1>1. n \in Nat /\ n >= 6 /\ Parts \in Seq(PartName) /\ DOMAIN Parts = 1 .. n
    BY PartsAre, ToSetIs DEF Distinct
  <1>2. adds \in Seq(Step) /\ Len(adds) = n /\ \A k \in 1 .. n : adds[k] = Adds(Parts[k])
    <2>1. \A k \in 1 .. n : Adds(Parts[k]) \in Step
      <3>1. \A k \in 1 .. n : Parts[k] \in PartName
        BY <1>1, ElementOfSeq
      <3> QED  BY <3>1 DEF Adds, Step
    <2>2. adds \in [1 .. n -> Step] /\ \A k \in 1 .. n : adds[k] = Adds(Parts[k])
      BY <1>1, <2>1
    <2>3. adds \in Seq(Step)
      BY <1>1, <2>2, SeqDef
    <2>4. DOMAIN adds = 1 .. n
      BY <1>1
    <2> HIDE DEF adds
    <2>5. Len(adds) = n
      BY <1>1, <2>3, <2>4, LenProperties
    <2> QED  BY <2>2, <2>3, <2>5
  <1>3. /\ ending \in Seq(Step) /\ Len(ending) = 2
        /\ ending[1] = Becomes("initialized") /\ ending[2] = Becomes("live")
    <2>1. Becomes("initialized") \in Step /\ Becomes("live") \in Step
      BY DEF Becomes, Step
    <2> QED  BY <2>1
  <1>4. pmctrack_module_init = adds \o ending
    BY DEF pmctrack_module_init
  <1> HIDE DEF adds, ending
  <1>5. /\ adds \o ending \in Seq(Step) /\ Len(adds \o ending) = n + 2
        /\ \A k \in 1 .. n + 2 : (adds \o ending)[k] = IF k <= n THEN adds[k] ELSE ending[k - n]
    <2>1. /\ adds \o ending \in Seq(Step) /\ Len(adds \o ending) = Len(adds) + Len(ending)
          /\ \A k \in 1 .. Len(adds) + Len(ending) :
               (adds \o ending)[k] = IF k <= Len(adds) THEN adds[k] ELSE ending[k - Len(adds)]
      <3>1. adds \in Seq(Step) /\ ending \in Seq(Step)
        BY <1>2, <1>3
      <3> QED  BY <3>1, ConcatProperties
    <2> QED  BY <1>2, <1>3, <2>1
  <1> HIDE DEF n
  <1>6. \A k \in 1 .. n : (adds \o ending)[k] = Adds(Parts[k])
    BY <1>1, <1>2, <1>5
  <1>7. (adds \o ending)[n + 1] = Becomes("initialized") /\ (adds \o ending)[n + 2] = Becomes("live")
    <2>1. ASSUME NEW j \in {1, 2} PROVE (adds \o ending)[n + j] = ending[j]
      <3> DEFINE k == n + j
      <3>1. k \in 1 .. n + 2 /\ ~(k <= n) /\ k - n = j
        BY <1>1
      <3> HIDE DEF k
      <3>2. (adds \o ending)[k] = ending[j]
        BY <1>5, <3>1
      <3> QED  BY <3>2 DEF k
    <2> QED  BY <1>3, <2>1
  <1> QED  BY <1>1, <1>4, <1>5, <1>6, <1>7 DEF n

LEMMA RestOfInit ==
    ASSUME NEW k \in 1 .. Len(Parts) + 2
    PROVE  LET rest == SubSeq(pmctrack_module_init, k, Len(Parts) + 2)
           IN  /\ rest # <<>> /\ Head(rest) = pmctrack_module_init[k]
               /\ Tail(rest) = SubSeq(pmctrack_module_init, k + 1, Len(Parts) + 2)
               /\ k = Len(Parts) + 2 => Tail(rest) = <<>>
  <1> DEFINE s == pmctrack_module_init
             n == Len(Parts) + 2
             rest == SubSeq(s, k, n)
  <1>1. s \in Seq(Step) /\ Len(s) = n /\ n \in Nat /\ k \in 1 .. Len(s) /\ n \in k .. Len(s)
    BY InitIs
  <1> HIDE DEF s, n
  <1>2. Head(rest) = s[k] /\ Tail(rest) = SubSeq(s, k + 1, n)
    BY <1>1, HeadTailOfSubSeq
  <1>3. Len(rest) = n - k + 1
    <2>1. \A i \in k .. n : s[i] \in Step
      BY <1>1, ElementOfSeq
    <2>2. k \in Int /\ n \in Int /\ k <= n
      BY <1>1
    <2> QED  BY <2>1, <2>2, SubSeqProperties
  <1>4. rest # <<>>
    BY <1>1, <1>3, EmptySeq
  <1>5. k = n => Tail(rest) = <<>>
    BY <1>1, <1>2, SubSeqEmpty
  <1> QED  BY <1>2, <1>4, <1>5 DEF s, n

LEMMA UndoSeq ==
    ASSUME NEW q, Distinct(q)
    PROVE  /\ Undo(q) \in Seq(Step) /\ Len(Undo(q)) = Len(q) + 1
           /\ \A i \in 1 .. Len(q) : Undo(q)[i] = Removes(q[i])
           /\ Undo(q)[Len(q) + 1] = Becomes("gone")
  <1> DEFINE n == Len(q)
             removes == [i \in DOMAIN q |-> Removes(q[i])]
             ending == <<Becomes("gone")>>
  <1>1. q \in Seq(PartName) /\ n \in Nat /\ DOMAIN q = 1 .. n
    BY ToSetIs DEF Distinct
  <1>2. removes \in Seq(Step) /\ Len(removes) = n /\ \A i \in 1 .. n : removes[i] = Removes(q[i])
    <2>1. \A i \in 1 .. n : Removes(q[i]) \in Step
      <3>1. \A i \in 1 .. n : q[i] \in PartName
        BY <1>1, ElementOfSeq
      <3> QED  BY <3>1 DEF Removes, Step
    <2>2. removes \in [1 .. n -> Step] /\ \A i \in 1 .. n : removes[i] = Removes(q[i])
      BY <1>1, <2>1
    <2>3. removes \in Seq(Step)
      BY <1>1, <2>2, SeqDef
    <2>4. DOMAIN removes = 1 .. n
      BY <1>1
    <2> HIDE DEF removes
    <2>5. Len(removes) = n
      BY <1>1, <2>3, <2>4, LenProperties
    <2> QED  BY <2>2, <2>3, <2>5
  <1>3. ending \in Seq(Step) /\ Len(ending) = 1 /\ ending[1] = Becomes("gone")
    <2>1. Becomes("gone") \in Step
      BY DEF Becomes, Step
    <2> QED  BY <2>1
  <1>4. Undo(q) = removes \o ending
    BY DEF Undo
  <1> HIDE DEF removes, ending
  <1>5. /\ Undo(q) \in Seq(Step) /\ Len(Undo(q)) = n + 1
        /\ \A i \in 1 .. n + 1 : Undo(q)[i] = IF i <= n THEN removes[i] ELSE ending[i - n]
    <2>1. /\ removes \o ending \in Seq(Step) /\ Len(removes \o ending) = Len(removes) + Len(ending)
          /\ \A i \in 1 .. Len(removes) + Len(ending) :
               (removes \o ending)[i] = IF i <= Len(removes) THEN removes[i] ELSE ending[i - Len(removes)]
      <3>1. removes \in Seq(Step) /\ ending \in Seq(Step)
        BY <1>2, <1>3
      <3> QED  BY <3>1, ConcatProperties
    <2> QED  BY <1>2, <1>3, <1>4, <2>1
  <1>6. \A i \in 1 .. n : Undo(q)[i] = Removes(q[i])
    BY <1>1, <1>2, <1>5
  <1>7. Undo(q)[n + 1] = Becomes("gone")
    <2> DEFINE k == n + 1
    <2>1. k \in 1 .. n + 1 /\ ~(k <= n) /\ k - n = 1
      BY <1>1
    <2> HIDE DEF k
    <2>2. Undo(q)[k] = ending[1]
      BY <1>5, <2>1
    <2> QED  BY <1>3, <2>2 DEF k
  <1> QED  BY <1>5, <1>6, <1>7

LEMMA TailIs ==
    ASSUME NEW q, Tidy(q), q # <<>>
    PROVE  /\ q[1] \in ToSet(q) /\ Len(q) \in Nat /\ Len(q) >= 1
           /\ Tidy(Tail(q)) /\ ToSet(Tail(q)) = ToSet(q) \ {q[1]}
           /\ Len(Tail(q)) = Len(q) - 1 /\ \A i \in 1 .. Len(q) - 1 : Tail(q)[i] = q[i + 1]
           /\ q[1] = "pmu" => ToSet(q) \cap Waited = {}
  <1> DEFINE n == Len(q)
             r == Tail(q)
  <1>1. Distinct(q) /\ q \in Seq(PartName)
    BY DEF Tidy, Distinct
  <1>2. n \in Nat /\ n >= 1
    BY <1>1, EmptySeq, LenProperties
  <1>3. /\ r \in Seq(PartName) /\ Len(r) = n - 1 /\ \A i \in 1 .. n - 1 : r[i] = q[i + 1]
    BY <1>1, HeadTailProperties
  <1> HIDE DEF r
  <1>4. ASSUME NEW i \in 1 .. n - 1 PROVE i + 1 \in 1 .. n /\ i + 1 # 1 /\ r[i] = q[i + 1]
    BY <1>2, <1>3
  <1>5. ASSUME NEW i \in 1 .. Len(r), NEW j \in 1 .. Len(r), r[i] = r[j] PROVE i = j
    <2>1. i + 1 \in 1 .. n /\ j + 1 \in 1 .. n /\ q[i + 1] = q[j + 1]
      BY <1>3, <1>4, <1>5
    <2>2. i + 1 = j + 1
      BY <1>1, <2>1 DEF Distinct
    <2> QED  BY <1>2, <1>3, <2>2
  <1>6. ASSUME NEW i \in 1 .. Len(r), NEW j \in 1 .. Len(r), r[i] = "pmu", r[j] \in Waited
        PROVE  j < i
    <2>1. i + 1 \in 1 .. n /\ j + 1 \in 1 .. n /\ q[i + 1] = "pmu" /\ q[j + 1] \in Waited
      BY <1>3, <1>4, <1>6
    <2>2. j + 1 < i + 1
      BY <2>1 DEF Tidy
    <2> QED  BY <1>2, <1>3, <2>2
  <1>7. Tidy(r)
    BY <1>3, <1>5, <1>6 DEF Tidy, Distinct
  <1>8. ASSUME NEW x \in ToSet(r) PROVE x \in ToSet(q) /\ x # q[1]
    <2>1. PICK i \in 1 .. n - 1 : r[i] = x
      BY <1>3, ToSetIs
    <2>2. i + 1 \in 1 .. n /\ 1 \in 1 .. n /\ i + 1 # 1 /\ q[i + 1] = x
      BY <1>2, <1>4, <2>1
    <2>3. q[i + 1] # q[1]
      BY <1>1, <2>2 DEF Distinct
    <2> QED  BY <1>1, <2>2, <2>3, ToSetIs
  <1>9. ASSUME NEW x \in ToSet(q), x # q[1] PROVE x \in ToSet(r)
    <2>1. PICK j \in 1 .. n : q[j] = x
      BY <1>1, ToSetIs
    <2> DEFINE i == j - 1
    <2>2. i \in 1 .. n - 1 /\ i + 1 = j
      BY <1>2, <1>9, <2>1
    <2> HIDE DEF i
    <2>3. r[i] = x
      BY <1>4, <2>1, <2>2
    <2> QED  BY <1>3, <2>2, <2>3, ToSetIs
  <1>10. q[1] \in ToSet(q)
    BY <1>1, <1>2, ToSetIs
  <1>11. ToSet(r) = ToSet(q) \ {q[1]}
    BY <1>8, <1>9
  <1>12. ASSUME q[1] = "pmu", NEW x \in ToSet(q) \cap Waited PROVE FALSE
    <2>1. PICK j \in 1 .. n : q[j] = x
      BY <1>1, ToSetIs
    <2>2. 1 \in 1 .. n
      BY <1>2
    <2>3. j < 1
      BY <1>12, <2>1, <2>2 DEF Tidy
    <2> QED  BY <1>2, <2>3
  <1> QED  BY <1>2, <1>3, <1>7, <1>10, <1>11, <1>12 DEF r

LEMMA UndoIs ==
    ASSUME NEW q, Tidy(q)
    PROVE  /\ Undo(q) # <<>>
           /\ \/ q = <<>> /\ ToSet(q) = {} /\ Head(Undo(q)) = Becomes("gone") /\ Tail(Undo(q)) = <<>>
              \/ \E p \in ToSet(q) : \E r :
                   /\ Head(Undo(q)) = Removes(p) /\ Tail(Undo(q)) = Undo(r)
                   /\ Tidy(r) /\ ToSet(r) = ToSet(q) \ {p}
                   /\ p = "pmu" => ToSet(q) \cap Waited = {}
  <1>1. Distinct(q) /\ q \in Seq(PartName)
    BY DEF Tidy, Distinct
  <1> DEFINE n == Len(q)
             u == Undo(q)
  <1>2. /\ u \in Seq(Step) /\ Len(u) = n + 1 /\ \A i \in 1 .. n : u[i] = Removes(q[i])
        /\ u[n + 1] = Becomes("gone") /\ n \in Nat
    BY <1>1, UndoSeq, ToSetIs
  <1> HIDE DEF u
  <1>3. u # <<>>
    BY <1>2, EmptySeq
  <1>4. /\ Tail(u) \in Seq(Step) /\ Len(Tail(u)) = n
        /\ \A i \in 1 .. n : Tail(u)[i] = u[i + 1]
    <2>1. /\ Tail(u) \in Seq(Step) /\ Len(Tail(u)) = Len(u) - 1
          /\ \A i \in 1 .. Len(Tail(u)) : Tail(u)[i] = u[i + 1]
      BY <1>2, <1>3, HeadTailProperties
    <2>2. Len(u) - 1 = n
      BY <1>2
    <2> QED  BY <2>1, <2>2
  <1>5. Head(u) = u[1]
    BY <1>2, <1>3
  <1>6. CASE q = <<>>
    <2>1. n = 0
      BY <1>6, EmptySeq
    <2>2. Tail(u) = <<>>
      BY <1>4, <2>1, EmptySeq
    <2>3. Head(u) = Becomes("gone")
      BY <1>2, <1>5, <2>1
    <2> QED  BY <1>3, <1>6, <2>2, <2>3, TupleNone DEF u
  <1>7. CASE q # <<>>
    <2> DEFINE r == Tail(q)
    <2>1. /\ q[1] \in ToSet(q) /\ n >= 1 /\ Tidy(r) /\ ToSet(r) = ToSet(q) \ {q[1]}
          /\ Len(r) = n - 1 /\ \A i \in 1 .. n - 1 : r[i] = q[i + 1]
          /\ q[1] = "pmu" => ToSet(q) \cap Waited = {}
      BY <1>7, TailIs
    <2> HIDE DEF r
    <2>2. /\ Undo(r) \in Seq(Step) /\ Len(Undo(r)) = n
          /\ \A i \in 1 .. n - 1 : Undo(r)[i] = Removes(r[i])
          /\ Undo(r)[n] = Becomes("gone")
      <3>1. Distinct(r)
        BY <2>1 DEF Tidy
      <3>2. /\ Undo(r) \in Seq(Step) /\ Len(Undo(r)) = Len(r) + 1
            /\ \A i \in 1 .. Len(r) : Undo(r)[i] = Removes(r[i])
            /\ Undo(r)[Len(r) + 1] = Becomes("gone")
        BY <3>1, UndoSeq
      <3>3. Len(r) + 1 = n
        BY <1>2, <2>1
      <3> QED  BY <2>1, <3>2, <3>3
    <2>3. ASSUME NEW i \in 1 .. n PROVE Tail(u)[i] = Undo(r)[i]
      <3>1. CASE i = n
        BY <1>2, <1>4, <2>2, <3>1
      <3>2. CASE i # n
        <4>1. i \in 1 .. n - 1 /\ i + 1 \in 1 .. n
          BY <1>2, <3>2
        <4>2. Undo(r)[i] = Removes(q[i + 1])
          BY <2>1, <2>2, <4>1
        <4>3. Tail(u)[i] = Removes(q[i + 1])
          <5> DEFINE j == i + 1
          <5>1. Tail(u)[i] = u[j] /\ j \in 1 .. n
            BY <1>4, <4>1
          <5> HIDE DEF j
          <5>2. u[j] = Removes(q[j])
            BY <1>2, <5>1
          <5> QED  BY <5>1, <5>2 DEF j
        <4> QED  BY <4>2, <4>3
      <3> QED  BY <3>1, <3>2
    <2>4. Tail(u) = Undo(r)
      BY <1>4, <2>2, <2>3, SeqEqual
    <2>5. Head(u) = Removes(q[1])
      BY <1>2, <1>5, <2>1
    <2> QED  BY <1>3, <2>1, <2>4, <2>5 DEF u
  <1> QED  BY <1>6, <1>7

-----------------------------------------------------------------------------------
(* Where the loader is.                                                             *)

LEMMA UpToIs ==
    /\ UpTo(1) = {}
    /\ \A k \in 1 .. Len(Parts) : UpTo(k + 1) = UpTo(k) \cup {Parts[k]} /\ "pmu" \in UpTo(k + 1)
    /\ UpTo(Len(Parts) + 1) = ToSet(Parts) /\ UpTo(Len(Parts) + 2) = ToSet(Parts)
    /\ \A k : UpTo(k) \subseteq ToSet(Parts)
  <1> DEFINE n == Len(Parts)
  <1>1. Parts \in Seq(PartName) /\ n \in Nat /\ n >= 6 /\ Parts[1] = "pmu"
    BY PartsAre, InitIs DEF Distinct
  <1>2. \A k, x : x \in UpTo(k) <=> \E i \in 1 .. n : i < k /\ Parts[i] = x
    BY <1>1, EarlierIs DEF UpTo
  <1>3. \A x : x \in ToSet(Parts) <=> \E i \in 1 .. n : Parts[i] = x
    BY <1>1, ToSetIs
  <1> HIDE DEF n
  <1>4. UpTo(1) = {}
    BY <1>1, <1>2
  <1>5. ASSUME NEW k \in 1 .. n PROVE UpTo(k + 1) = UpTo(k) \cup {Parts[k]} /\ "pmu" \in UpTo(k + 1)
    <2>1. \A i \in 1 .. n : i < k + 1 <=> i < k \/ i = k
      BY <1>1
    <2>2. UpTo(k + 1) = UpTo(k) \cup {Parts[k]}
      BY <1>2, <2>1
    <2>3. 1 \in 1 .. n /\ 1 < k + 1
      BY <1>1
    <2> QED  BY <1>1, <1>2, <2>2, <2>3
  <1>6. ASSUME NEW k \in {n + 1, n + 2} PROVE UpTo(k) = ToSet(Parts)
    <2>1. \A i \in 1 .. n : i < k
      BY <1>1
    <2> QED  BY <1>2, <1>3, <2>1
  <1>7. \A k : UpTo(k) \subseteq ToSet(Parts)
    BY <1>2, <1>3
  <1> QED  BY <1>4, <1>5, <1>6, <1>7 DEF n

\* The circumstances do not change, and so neither do the scripts.
LEMMA LoadStays ==
    ASSUME load' = load
    PROVE  /\ Patched' = Patched /\ Stubs' = Stubs /\ Parts' = Parts /\ Waited' = Waited
           /\ pmctrack_module_init' = pmctrack_module_init
           /\ \A k : UpTo(k)' = UpTo(k)
           /\ \A q : Undo(q)' = Undo(q)
           /\ \A q : Tidy(q)' <=> Tidy(q)
           /\ \A c : Holds(c)' <=> Holds(c)
  <1>1. Patched' = Patched
    BY DEF Patched
  <1>2. Tracepoints' = Tracepoints /\ ftrace_hooks' = ftrace_hooks /\ Kprobes' = Kprobes
    BY <1>1 DEF Tracepoints, ftrace_hooks, Kprobes
  <1>3. Stubs' = Stubs
    BY <1>2 DEF Stubs
  <1>4. Parts' = Parts
    BY <1>3 DEF Parts
  <1>5. Waited' = Waited
    BY <1>3 DEF Waited
  <1>6. pmctrack_module_init' = pmctrack_module_init
    BY <1>4 DEF pmctrack_module_init, Adds, Becomes
  <1>7. \A k : UpTo(k)' = UpTo(k)
    BY <1>4 DEF UpTo, Earlier
  <1>8. \A q : Undo(q)' = Undo(q)
    BY DEF Undo, Removes, Becomes
  <1>9. \A q : Tidy(q)' <=> Tidy(q)
    BY <1>5 DEF Tidy, Distinct
  <1>10. \A c : Holds(c)' <=> Holds(c)
    BY <1>1 DEF Holds
  <1> QED  BY <1>1, <1>3, <1>4, <1>5, <1>6, <1>7, <1>8, <1>9, <1>10

LEMMA HooksAreStubs ==
    ASSUME NEW op \in DOMAIN Hook, Hook[op] \in ToSet(Parts)
    PROVE  Hook[op] \in ToSet(Stubs) /\ Hook[op] \in Waited
  <1>1. Hook[op] \notin {"pmu"} \cup LateSet
    BY DEF Hook, LateSet
  <1> QED  BY <1>1, PartsAre, StubsAre, WaitedIs

\* A module that is there, and that has been initialized, has all of its parts.
LEMMA FullyUp ==
    ASSUME LoaderInv, mod \in {"coming", "live"}, ~pmctrack_initializing
    PROVE  up = ToSet(Parts) /\ implementer /\ waits = {}
  <1>1. up = ToSet(Parts) /\ waits = {}
    <2>1. ASSUME NEW k \in 1 .. Len(Parts) + 2, SettingUp(k) PROVE up = ToSet(Parts) /\ waits = {}
      <3>0. ~(k <= Len(Parts) + 1)
        <4>1. pmctrack_initializing = (k <= Len(Parts) + 1)
          BY <2>1 DEF SettingUp
        <4> QED  BY <4>1
      <3>1. k = Len(Parts) + 2
        BY <3>0, InitIs
      <3> QED  BY <2>1, <3>1, UpToIs DEF SettingUp
    <2>2. CASE Loaded
      BY <2>2 DEF Loaded
    <2>3. CASE TakingDown
      BY <2>3 DEF TakingDown
    <2>4. CASE Over
      BY <2>4 DEF Over
    <2> QED  BY <2>1, <2>2, <2>3, <2>4 DEF LoaderInv
  <1>2. "registered" \in ToSet(Parts)
    BY PartsAre DEF LateSet
  <1> QED  BY <1>1, <1>2 DEF LoaderInv

LEMMA ModIs ==
    ASSUME LoaderInv
    PROVE  mod \in {"coming", "live", "going", "gone"} /\ (mod = "gone" => up = {} /\ ~implementer)
  BY DEF LoaderInv, SettingUp, Loaded, TakingDown, Over

\* Only one that is there sleeps: it has been initialized, and was registered before.
LEMMA SleepersAreRegistered ==
    ASSUME LoaderInv, RefusedWhenGoing, NEW t \in Caller, HasRef(t), ~pmctrack_initializing
    PROVE  implementer /\ waits = {} /\ mod \in {"coming", "live"} /\ up = ToSet(Parts)
  BY ModIs, FullyUp DEF RefusedWhenGoing

LEMMA HeadIs ==
    ASSUME LoaderInv, todo # <<>>
    PROVE  \/ \E k \in 1 .. Len(Parts) :
                /\ SettingUp(k) /\ Head(todo) = Adds(Parts[k])
                /\ Tail(todo) = SubSeq(pmctrack_module_init, k + 1, Len(Parts) + 2)
           \/ /\ SettingUp(Len(Parts) + 1) /\ Head(todo) = Becomes("initialized")
              /\ Tail(todo) = SubSeq(pmctrack_module_init, Len(Parts) + 2, Len(Parts) + 2)
           \/ SettingUp(Len(Parts) + 2) /\ Head(todo) = Becomes("live") /\ Tail(todo) = <<>>
           \/ TakingDown /\ up = {} /\ Head(todo) = Becomes("gone") /\ Tail(todo) = <<>>
           \/ /\ TakingDown
              /\ \E p \in up : \E r :
                   /\ Head(todo) = Removes(p) /\ Tail(todo) = Undo(r)
                   /\ Tidy(r) /\ ToSet(r) = up \ {p}
                   /\ p = "pmu" => up \cap Waited = {}
  <1> DEFINE n == Len(Parts)
  <1>1. ASSUME NEW k \in 1 .. n + 2, SettingUp(k)
        PROVE  \/ \E i \in 1 .. n :
                    /\ SettingUp(i) /\ Head(todo) = Adds(Parts[i])
                    /\ Tail(todo) = SubSeq(pmctrack_module_init, i + 1, n + 2)
               \/ /\ SettingUp(n + 1) /\ Head(todo) = Becomes("initialized")
                  /\ Tail(todo) = SubSeq(pmctrack_module_init, n + 2, n + 2)
               \/ SettingUp(n + 2) /\ Head(todo) = Becomes("live") /\ Tail(todo) = <<>>
    <2>1. /\ Head(todo) = pmctrack_module_init[k]
          /\ Tail(todo) = SubSeq(pmctrack_module_init, k + 1, n + 2)
          /\ k = n + 2 => Tail(todo) = <<>>
      BY <1>1, RestOfInit DEF SettingUp
    <2>2. k \in 1 .. n \/ (k = n + 1 /\ k + 1 = n + 2) \/ k = n + 2
      BY InitIs
    <2> QED  BY <1>1, <2>1, <2>2, InitIs
  <1>2. CASE TakingDown
    <2>1. PICK q : Tidy(q) /\ ToSet(q) = up /\ todo = Undo(q)
      BY <1>2 DEF TakingDown
    <2> QED  BY <1>2, <2>1, UndoIs
  <1>3. ~Loaded /\ ~Over
    BY DEF Loaded, Over
  <1> QED  BY <1>1, <1>2, <1>3 DEF LoaderInv

LEMMA CallsStay ==
    ASSUME UNCHANGED <<load, call, task>>
    PROVE  \A t \in Caller : /\ HasRef(t)' <=> HasRef(t)
                             /\ \A op : May(t, op)' <=> May(t, op)
  BY DEF HasRef, May

-----------------------------------------------------------------------------------
(* The steps of the loader.                                                         *)

LEMMA SetUpKeeps ==
    ASSUME LInv, Orderly, NEW part, SetUp(part)
    PROVE  LInv'
  <1> DEFINE n == Len(Parts)
  <1>1. /\ todo # <<>> /\ Head(todo) = Adds(part)
        /\ UNCHANGED <<mod, twice, pmctrack_initializing, waits, load, call, task, prof, refs>>
    BY DEF SetUp, Loader, Idles
  <1>2. LoaderInv /\ LoadTypes
    BY DEF LInv
  <1>3. PICK k \in 1 .. n : /\ SettingUp(k) /\ part = Parts[k]
                            /\ Tail(todo) = SubSeq(pmctrack_module_init, k + 1, n + 2)
    <2>1. \A b : /\ Adds(part) # Becomes(b) /\ Adds(part) # Removes(b)
                 /\ Adds(part) = Adds(b) => part = b
      BY StepsDiffer
    <2>2. PICK k \in 1 .. n : /\ SettingUp(k) /\ Adds(part) = Adds(Parts[k])
                              /\ Tail(todo) = SubSeq(pmctrack_module_init, k + 1, n + 2)
      BY <1>1, <1>2, <2>1, HeadIs
    <2> QED  BY <2>1, <2>2
  <1>4. n \in Nat /\ n >= 6
    BY InitIs
  <1>5. /\ mod = "coming" /\ waits = {} /\ up = UpTo(k) /\ load.fails \notin UpTo(k)
        /\ ~implementer => refs = 0 /\ \A t \in Caller : ~HasRef(t)
    BY <1>3 DEF SettingUp
  <1>6. pmctrack_initializing
    <2>1. pmctrack_initializing = (k <= n + 1)
      BY <1>3 DEF SettingUp
    <2>2. k <= n + 1
      BY <1>4
    <2> QED  BY <2>1, <2>2
  <1>8. /\ load' = load /\ Parts' = Parts /\ Waited' = Waited
        /\ pmctrack_module_init' = pmctrack_module_init
        /\ \A j : UpTo(j)' = UpTo(j)
        /\ \A q : Undo(q)' = Undo(q)
        /\ \A q : Tidy(q)' <=> Tidy(q)
    BY <1>1, LoadStays
  <1>9. \A t \in Caller : HasRef(t)' <=> HasRef(t)
    BY <1>1, CallsStay
  <1> HIDE DEF n
  <1>10. CASE load.fails = part
    <2>1. todo' = out_error(part) /\ up' = up /\ implementer' = implementer
      BY <1>10 DEF SetUp
    <2>2. part \notin {"manager", "entries", "syswide"}
      BY <1>10 DEF Orderly
    <2>3. PICK q : Tidy(q) /\ ToSet(q) = up /\ out_error(part) = Undo(q)
      BY <1>3, <1>5, <2>2, out_errorIs DEF n
    <2>4. load.preempts => "registered" \notin up
      <3>1. ASSUME load.preempts PROVE StubSet = {} /\ part # "dir"
        BY <1>10, <3>1, StubsAre DEF Orderly
      <3>2. ASSUME load.preempts, NEW i \in 1 .. Len(Stubs) PROVE FALSE
        BY <3>1, <3>2, StubsAre, ToSetIs DEF Distinct
      <3> QED  BY <1>3, <1>5, <2>2, <3>1, <3>2, StepsAre DEF n
    <2>5. TakingDown'
      <3>1. \E r : Tidy(r)' /\ ToSet(r) = up' /\ todo' = Undo(r)'
        BY <1>8, <2>1, <2>3
      <3>2. mod' = "coming" /\ pmctrack_initializing' = (mod' = "coming")
        BY <1>1, <1>5, <1>6, <1>2 DEF LoadTypes
      <3> QED  BY <1>1, <1>8, <2>1, <2>4, <3>1, <3>2 DEF TakingDown
    <2>6. LoaderInv'
      BY <1>1, <1>2, <1>8, <2>1, <2>5 DEF LoaderInv
    <2>7. LoadTypes'
      BY <1>1, <1>2, <2>1 DEF LoadTypes, Call
    <2> QED  BY <1>1, <2>1, <2>6, <2>7, <1>9, CallsStay, LoadStays
              DEF LInv, CallsAreOrderly, ModuleRefsAreCalls, ReadersAreGone, StubsAreLeft,
                  RefusedWhenGoing, ProfsFollowTasks
  <1>11. CASE load.fails # part
    <2>1. /\ todo' = Tail(todo) /\ up' = up \cup {part}
          /\ implementer' = (implementer \/ part = "registered")
      BY <1>11 DEF SetUp
    <2>2. SettingUp(k + 1)'
      <3>1. up' = UpTo(k + 1) /\ load.fails \notin UpTo(k + 1)
        BY <1>3, <1>5, <1>11, <2>1, UpToIs DEF n
      <3>2. pmctrack_initializing' = (k + 1 <= n + 1)
        <4>1. k + 1 <= n + 1
          BY <1>4
        <4>2. pmctrack_initializing' = TRUE
          BY <1>1, <1>2, <1>6 DEF LoadTypes
        <4> QED  BY <4>1, <4>2
      <3>3. todo' = SubSeq(pmctrack_module_init, k + 1, n + 2)
        BY <1>3, <2>1
      <3> QED  BY <1>1, <1>5, <1>8, <1>9, <2>1, <3>1, <3>2, <3>3 DEF SettingUp, n
    <2>3. LoaderInv'
      <3>1. k + 1 \in 1 .. n + 2
        BY <1>4
      <3>2. part \in ToSet(Parts) /\ "pmu" \in up'
        BY <1>3, <1>5, <2>1, UpToIs, PartsAre, ToSetIs DEF n, Distinct
      <3>3. \E j \in 1 .. Len(Parts) + 2 : SettingUp(j)'
        BY <2>2, <3>1 DEF n
      <3>4. up' \subseteq ToSet(Parts) /\ ~twice'
        BY <1>1, <1>2, <2>1, <3>2 DEF LoaderInv
      <3>5. implementer' = ("registered" \in up')
        <4>1. implementer = ("registered" \in up)
          BY <1>2 DEF LoaderInv
        <4>2. implementer' = ("registered" \in up \/ part = "registered")
          BY <2>1, <4>1
        <4>3. "registered" \in up \/ part = "registered" <=> "registered" \in up'
          BY <2>1
        <4> QED  BY <4>2, <4>3
      <3> QED  BY <1>8, <3>2, <3>3, <3>4, <3>5 DEF LoaderInv
    <2>4. LoadTypes'
      BY <1>1, <1>2, <2>1 DEF LoadTypes, Call
    <2>5. ModuleRefsAreCalls'
      <3>1. CASE implementer
        BY <1>1, <3>1 DEF LInv, ModuleRefsAreCalls
      <3>2. CASE ~implementer
        <4>1. {t \in Caller : HasRef(t)} = {} /\ refs = 0
          BY <1>5, <3>2
        <4>2. Cardinality({t \in Caller : HasRef(t)}) = 0
          BY <4>1, FS_EmptySet
        <4> QED  BY <1>1, <4>1, <4>2 DEF ModuleRefsAreCalls, HasRef
      <3> QED  BY <3>1, <3>2
    <2>6. ReadersAreGone' /\ StubsAreLeft'
      BY <1>1, <1>2, <2>1, LoadStays DEF LInv, ReadersAreGone, StubsAreLeft, LoadTypes
    <2> QED  BY <1>1, <2>1, <2>3, <2>4, <2>5, <2>6, <1>9, CallsStay, LoadStays
              DEF LInv, CallsAreOrderly, RefusedWhenGoing, ProfsFollowTasks
  <1> QED  BY <1>10, <1>11

LEMMA TakeDownKeeps ==
    ASSUME LInv, Orderly, NEW part, TakeDown(part)
    PROVE  LInv'
  <1>1. /\ todo # <<>> /\ Head(todo) = Removes(part) /\ waits = {}
        /\ todo' = Tail(todo) /\ up' = up \ {part}
        /\ twice' = (twice \/ part \notin up)
        /\ implementer' = (implementer /\ part # "registered")
        /\ waits' = IF part \in Waited THEN {t \in Caller : Holds(call[t])} ELSE {}
        /\ UNCHANGED <<mod, pmctrack_initializing, load, call, task, prof, refs>>
    BY DEF TakeDown, Loader, Idles
  <1>2. LoaderInv /\ LoadTypes /\ CallsAreOrderly
    BY DEF LInv
  <1>3. PICK r : /\ TakingDown /\ part \in up /\ Tail(todo) = Undo(r)
                 /\ Tidy(r) /\ ToSet(r) = up \ {part}
                 /\ part = "pmu" => up \cap Waited = {}
    <2>1. \A b : /\ Removes(part) # Becomes(b) /\ Adds(b) # Removes(part)
                 /\ Removes(part) = Removes(b) => part = b
      BY StepsDiffer
    <2> QED  BY <1>1, <1>2, <2>1, HeadIs
  <1>4. /\ load' = load /\ Parts' = Parts /\ Waited' = Waited /\ Patched' = Patched
        /\ \A q : Undo(q)' = Undo(q)
        /\ \A q : Tidy(q)' <=> Tidy(q)
    BY <1>1, LoadStays
  <1>5. \A t \in Caller : HasRef(t)' <=> HasRef(t)
    BY <1>1, CallsStay
  <1>6. /\ mod \in {"coming", "going"} /\ pmctrack_initializing = (mod = "coming")
        /\ load.preempts /\ mod = "coming" => "registered" \notin up
    BY <1>3 DEF TakingDown
  <1>7. implementer = ("registered" \in up) /\ ~twice /\ up \subseteq ToSet(Parts)
    BY <1>2 DEF LoaderInv
  \* The module is being unloaded when somebody may be asleep in it, and then nobody is.
  <1>8. \A t \in Caller : call[t].pc # "asleep"
    <2>1. ASSUME NEW t \in Caller, call[t].pc = "asleep" PROVE FALSE
      <3>1. HasRef(t) /\ ~pmctrack_initializing
        BY <1>2, <2>1 DEF CallsAreOrderly, HasRef
      <3>2. mod = "going"
        BY <1>6, <3>1
      <3> QED  BY <3>1, <3>2 DEF LInv, RefusedWhenGoing
    <2> QED  BY <2>1
  <1>9. LoaderInv'
    <2>1. TakingDown'
      <3>1. \E q : Tidy(q)' /\ ToSet(q) = up' /\ todo' = Undo(q)'
        BY <1>1, <1>3, <1>4
      <3>2. load'.preempts /\ mod' = "coming" => "registered" \notin up'
        BY <1>1, <1>4, <1>6
      <3>3. mod' \in {"coming", "going"} /\ pmctrack_initializing' = (mod' = "coming")
        BY <1>1, <1>6
      <3> QED  BY <3>1, <3>2, <3>3 DEF TakingDown
    <2>2. implementer' = ("registered" \in up')
      <3>1. implementer' = ("registered" \in up /\ part # "registered")
        BY <1>1, <1>7
      <3>2. "registered" \in up /\ part # "registered" <=> "registered" \in up'
        BY <1>1
      <3> QED  BY <3>1, <3>2
    <2>3. ~twice' /\ up' \subseteq ToSet(Parts)
      BY <1>1, <1>3, <1>7
    <2>4. "pmu" \notin up' => Waited \cap up' = {} /\ waits' = {}
      <3>1. CASE part = "pmu"
        BY <1>1, <1>3, <3>1
      <3>2. CASE "pmu" \notin up
        BY <1>1, <1>2, <1>3, <3>2 DEF LoaderInv
      <3> QED  BY <1>1, <3>1, <3>2
    <2> QED  BY <1>4, <2>1, <2>2, <2>3, <2>4 DEF LoaderInv
  <1>10. LoadTypes'
    BY <1>1, <1>2 DEF LoadTypes, Call
  <1>11. ReadersAreGone'
    <2>1. CASE ~implementer
      BY <1>1, <2>1 DEF LInv, ReadersAreGone
    <2>2. CASE implementer /\ part = "registered"
      <3>1. part \in Waited
        BY <2>2, WaitedIs
      <3>2. mod = "coming" => ~load.preempts
        BY <1>6, <1>7, <2>2
      <3>3. ASSUME NEW t \in Caller \ waits', call[t].pc \in {"in", "asleep"}, call[t].op # "thermal"
            PROVE  FALSE
        <4>1. ~Holds(call[t]) /\ call[t].pc = "in"
          BY <1>1, <1>8, <3>1, <3>3
        <4>2. load.preempts /\ mod = "going"
          BY <1>6, <3>2, <4>1 DEF Holds
        <4>3. ~HasRef(t)
          BY <1>6, <4>2 DEF LInv, RefusedWhenGoing
        <4>4. call[t].op \notin Blocking
          BY <4>1, <4>3 DEF HasRef
        <4> QED  BY <4>1, <4>2, <4>4 DEF Holds, Blocking
      <3> QED  BY <1>1, <3>3 DEF ReadersAreGone
    <2>3. CASE implementer /\ part # "registered"
      BY <1>1, <2>3 DEF ReadersAreGone
    <2> QED  BY <2>1, <2>2, <2>3
  <1>12. StubsAreLeft'
    <2>1. ASSUME NEW t \in Caller \ waits', call[t].pc # "idle", ~Patched \/ call[t].op = "thermal"
          PROVE  Hook[call[t].op] \in up'
      <3>1. Hook[call[t].op] \in up
        BY <1>1, <2>1 DEF LInv, StubsAreLeft
      <3>2. SUFFICES ASSUME Hook[call[t].op] = part PROVE FALSE
        BY <1>1, <3>1
      <3>3. call[t].op \in DOMAIN Hook
        BY <1>2, <2>1 DEF CallsAreOrderly, LoadTypes, Call
      <3>4. part \in ToSet(Stubs) /\ part \in Waited
        BY <1>7, <3>1, <3>2, <3>3, HooksAreStubs
      <3>5. ~Holds(call[t])
        BY <1>1, <2>1, <3>4
      <3>6. load.preempts
        BY <1>8, <2>1, <3>5 DEF Holds
      <3>7. StubSet = {}
        BY <3>6, StubsAre DEF Orderly
      <3> QED  BY <3>4, <3>7, StubsAre
    <2> QED  BY <1>1, <1>4, <2>1 DEF StubsAreLeft
  <1>13. ModuleRefsAreCalls'
    BY <1>1 DEF LInv, ModuleRefsAreCalls
  <1> QED  BY <1>1, <1>5, <1>9, <1>10, <1>11, <1>12, <1>13, CallsStay
            DEF LInv, CallsAreOrderly, RefusedWhenGoing, ProfsFollowTasks

LEMMA BecomeKeeps ==
    ASSUME LInv, NEW result, Become(result)
    PROVE  LInv'
  <1> DEFINE n == Len(Parts)
  <1>1. /\ todo # <<>> /\ Head(todo) = Becomes(result) /\ waits = {} /\ todo' = Tail(todo)
        /\ mod' = IF result = "initialized" THEN mod ELSE result
        /\ pmctrack_initializing' = (pmctrack_initializing /\ result # "initialized")
        /\ UNCHANGED <<up, twice, implementer, waits, load, call, task, prof, refs>>
    BY DEF Become, Loader, Idles
  <1>2. LoaderInv /\ LoadTypes
    BY DEF LInv
  <1>3. \A b : /\ Becomes(result) # Adds(b) /\ Becomes(result) # Removes(b)
               /\ Becomes(result) = Becomes(b) => result = b
    BY StepsDiffer
  <1>4. /\ load' = load /\ Parts' = Parts /\ Waited' = Waited
        /\ pmctrack_module_init' = pmctrack_module_init
        /\ \A j : UpTo(j)' = UpTo(j)
    BY <1>1, LoadStays
  <1>5. \A t \in Caller : HasRef(t)' <=> HasRef(t)
    BY <1>1, CallsStay
  <1>6. n \in Nat
    BY InitIs
  <1>7. \/ /\ SettingUp(n + 1) /\ result = "initialized"
           /\ Tail(todo) = SubSeq(pmctrack_module_init, n + 2, n + 2)
        \/ SettingUp(n + 2) /\ result = "live" /\ Tail(todo) = <<>>
        \/ TakingDown /\ up = {} /\ result = "gone" /\ Tail(todo) = <<>>
    BY <1>1, <1>2, <1>3, HeadIs
  <1>8. /\ (\E k \in 1 .. n + 2 : SettingUp(k)') \/ Loaded' \/ Over'
        /\ mod' = "gone" => mod = "going" \/ pmctrack_initializing'
    <2>1. CASE /\ SettingUp(n + 1) /\ result = "initialized"
               /\ Tail(todo) = SubSeq(pmctrack_module_init, n + 2, n + 2)
      <3>1. pmctrack_initializing' = (n + 2 <= n + 1)
        <4>1. (n + 2 <= n + 1) = FALSE
          BY <1>6
        <4>2. pmctrack_initializing' = FALSE
          BY <1>1, <2>1
        <4> QED  BY <4>1, <4>2
      <3>2. /\ mod = "coming" /\ up = UpTo(n + 1) /\ load.fails \notin UpTo(n + 1)
            /\ ~implementer => refs = 0 /\ \A t \in Caller : ~HasRef(t)
        BY <2>1 DEF SettingUp
      <3> HIDE DEF n
      <3>4. PICK k \in 1 .. n + 2 : k = n + 2
        BY <1>6
      <3>3. SettingUp(k)'
        BY <1>1, <1>4, <1>5, <2>1, <3>1, <3>2, <3>4, UpToIs DEF SettingUp, n
      <3>5. mod' # "gone"
        BY <1>1, <2>1, <3>2
      <3> QED  BY <3>3, <3>4, <3>5
    <2>2. CASE SettingUp(n + 2) /\ result = "live" /\ Tail(todo) = <<>>
      <3>1. ~pmctrack_initializing
        <4>1. ~(n + 2 <= n + 1)
          BY <1>6
        <4>2. pmctrack_initializing = (n + 2 <= n + 1)
          BY <2>2 DEF SettingUp
        <4> QED  BY <4>1, <4>2
      <3>2. Loaded'
        BY <1>1, <1>4, <2>2, <3>1, UpToIs DEF SettingUp, Loaded
      <3> QED  BY <1>1, <2>2, <3>2
    <2>3. CASE TakingDown /\ up = {} /\ result = "gone" /\ Tail(todo) = <<>>
      <3>1. Over'
        BY <1>1, <2>3 DEF Over
      <3>2. mod = "going" \/ pmctrack_initializing'
        BY <1>1, <2>3 DEF TakingDown
      <3> QED  BY <3>1, <3>2
    <2> QED  BY <1>7, <2>1, <2>2, <2>3
  <1>9. LoaderInv'
    BY <1>1, <1>2, <1>4, <1>8 DEF LoaderInv
  <1>10. LoadTypes'
    BY <1>1, <1>2 DEF LoadTypes, Call
  <1>11. /\ pmctrack_initializing' => pmctrack_initializing
         /\ mod' \in {"coming", "live"} => mod \in {"coming", "live"}
         /\ mod' = "going" => mod = "going"
    BY <1>1, <1>7 DEF SettingUp
  <1>12. CallsAreOrderly'
    BY <1>1, <1>11, CallsStay DEF LInv, CallsAreOrderly
  <1>13. RefusedWhenGoing'
    <2>1. ASSUME mod' \in {"going", "gone"}, ~pmctrack_initializing'
          PROVE  mod \in {"going", "gone"} /\ ~pmctrack_initializing
      <3>1. mod' = "gone" /\ result # "initialized"
        BY <1>1, <1>7, <2>1 DEF SettingUp
      <3>2. ~pmctrack_initializing
        BY <1>1, <2>1, <3>1
      <3> QED  BY <1>8, <2>1, <3>1, <3>2
    <2> QED  BY <1>5, <2>1 DEF LInv, RefusedWhenGoing
  <1>14. ProfsFollowTasks'
    BY <1>1, <1>11 DEF LInv, ProfsFollowTasks
  <1> QED  BY <1>1, <1>9, <1>10, <1>12, <1>13, <1>14, LoadStays
            DEF LInv, ModuleRefsAreCalls, ReadersAreGone, StubsAreLeft

LEMMA delete_moduleKeeps ==
    ASSUME LInv, Orderly, delete_module
    PROVE  LInv'
  <1>1. /\ mod = "live" /\ todo = <<>> /\ refs = 0 /\ mod' = "going" /\ todo' = pmctrack_module_exit
        /\ UNCHANGED <<up, twice, implementer, pmctrack_initializing, waits, load, call, task, prof, refs>>
    BY DEF delete_module, Idles
  <1>2. LoaderInv /\ LoadTypes
    BY DEF LInv
  <1>3. Loaded
    BY <1>1, <1>2 DEF LoaderInv, SettingUp, TakingDown, Over
  <1>4. up = ToSet(Parts) /\ implementer /\ ~pmctrack_initializing /\ load.fails \notin ToSet(Parts)
    BY <1>1, <1>2, <1>3, FullyUp DEF Loaded
  <1>5. /\ load' = load /\ Parts' = Parts /\ Waited' = Waited
        /\ \A q : Undo(q)' = Undo(q)
        /\ \A q : Tidy(q)' <=> Tidy(q)
    BY <1>1, LoadStays
  <1>6. PICK q : Tidy(q) /\ ToSet(q) = up /\ pmctrack_module_exit = Undo(q)
    <2>1. ~(Patched /\ load.arch = "x86")
      BY <1>4 DEF Orderly
    <2> QED  BY <1>4, <2>1, pmctrack_module_exitIs
  <1>7. TakingDown'
    <2>1. \E r : Tidy(r)' /\ ToSet(r) = up' /\ todo' = Undo(r)'
      BY <1>1, <1>5, <1>6
    <2>2. pmctrack_initializing' = (mod' = "coming")
      BY <1>1, <1>2, <1>4 DEF LoadTypes
    <2> QED  BY <1>1, <2>1, <2>2 DEF TakingDown
  <1>8. LoaderInv'
    BY <1>1, <1>2, <1>5, <1>7 DEF LoaderInv
  <1>9. LoadTypes'
    BY <1>1, <1>2 DEF LoadTypes, Call
  <1>10. \A t \in Caller : ~HasRef(t)
    <2> DEFINE S == {t \in Caller : HasRef(t)}
    <2>1. Cardinality(S) = 0
      BY <1>1, <1>4 DEF LInv, ModuleRefsAreCalls, HasRef
    <2>2. IsFiniteSet(S)
      BY LoadAssumption, FS_Subset
    <2> HIDE DEF S
    <2>3. S = {}
      BY <2>1, <2>2, FS_EmptySet
    <2> QED  BY <2>3 DEF S
  <1>11. RefusedWhenGoing'
    BY <1>1, <1>10, CallsStay DEF RefusedWhenGoing
  <1>12. CallsAreOrderly'
    BY <1>1, CallsStay DEF LInv, CallsAreOrderly
  <1> QED  BY <1>1, <1>8, <1>9, <1>11, <1>12, LoadStays
            DEF LInv, ModuleRefsAreCalls, ReadersAreGone, StubsAreLeft, ProfsFollowTasks

-----------------------------------------------------------------------------------
(* Where a thread is.                                                               *)

RefOf(c) == c.op \in Blocking /\ c.pc \in {"got", "in", "asleep", "done"}

\* What a step of a thread that goes to c has to observe.
Permitted(t, c) ==
    /\ c \in Call
    /\ c.pc = "idle" => c = Idle
    /\ c.op = Absent => c.pc = "idle"
    /\ c.op = "thermal" => c.pc = "in"
    /\ c.pc \in {"got", "asleep", "done"} => c.op \in Blocking
    /\ c.pc = "asleep" => ~pmctrack_initializing /\ implementer /\ waits = {}
    /\ c.pc = "in" /\ c.op # "thermal" => implementer
    /\ RefOf(c) => HasRef(t) \/ (implementer /\ mod # "going")
    /\ c.pc # "idle" => Calls(c.op) \/ (c.op = call[t].op /\ call[t].pc # "idle")

RefsAfter(t, c) ==
    IF ~implementer THEN refs
    ELSE IF RefOf(c) /\ ~HasRef(t) THEN refs + 1
    ELSE IF HasRef(t) /\ ~RefOf(c) THEN refs - 1
    ELSE refs

ProfFollows(t, c) ==
    /\ pmctrack_initializing => prof'[t] = Absent
    /\ mod \in {"coming", "live"} =>
         /\ task'[t] = "unborn" /\ prof'[t] # Absent =>
              c.op = "fork" /\ c.pc \in {"done", "leaving"} /\ ~c.failed
         /\ c.op = "free" /\ c.pc \in {"done", "leaving"} => prof'[t] = Absent

\* What a thread is counted by.
LEMMA RefsCount ==
    ASSUME NEW t \in Caller, NEW S \in SUBSET Caller, NEW T \in SUBSET Caller,
           \A u \in Caller \ {t} : u \in S <=> u \in T
    PROVE  /\ Cardinality(S) \in Nat
           /\ Cardinality(T) = IF t \in T /\ t \notin S THEN Cardinality(S) + 1
                               ELSE IF t \in S /\ t \notin T THEN Cardinality(S) - 1
                               ELSE Cardinality(S)
  <1>1. IsFiniteSet(S) /\ Cardinality(S) \in Nat
    BY LoadAssumption, FS_Subset, FS_CardinalityType
  <1>2. CASE t \in T /\ t \notin S
    <2>1. T = S \cup {t}
      BY <1>2
    <2> QED  BY <1>1, <1>2, <2>1, FS_AddElement
  <1>3. CASE t \in S /\ t \notin T
    <2>1. T = S \ {t}
      BY <1>3
    <2> QED  BY <1>1, <1>3, <2>1, FS_RemoveElement
  <1>4. CASE t \in S <=> t \in T
    <2>1. T = S
      BY <1>4
    <2> QED  BY <1>1, <1>4, <2>1
  <1> QED  BY <1>1, <1>2, <1>3, <1>4

LEMMA GoesKeeps ==
    ASSUME LInv, Orderly, NEW t \in Caller, NEW c, Goes(t, c), Permitted(t, c),
           implementer' = implementer, refs' = RefsAfter(t, c), ProfFollows(t, c),
           task' \in [Caller -> {"unborn", "alive", "dead"}],
           prof' \in [Caller -> {Absent, "live", "exited"}],
           \A u \in Caller \ {t} : task'[u] = task[u] /\ prof'[u] = prof[u],
           c.op # Absent => May(t, c.op) /\ task'[t] = task[t]
    PROVE  LInv'
  <1>1. /\ call' = [call EXCEPT ![t] = c]
        /\ waits' = IF Holds(c) THEN waits ELSE waits \ {t}
        /\ UNCHANGED <<load, mod, todo, up, twice, pmctrack_initializing, implementer>>
    BY DEF Goes
  <1>2. LoaderInv /\ LoadTypes /\ CallsAreOrderly
    BY DEF LInv
  <1>3. /\ call'[t] = c /\ \A u \in Caller \ {t} : call'[u] = call[u]
        /\ call' \in [Caller -> Call]
    BY <1>1, <1>2 DEF LoadTypes, Permitted
  <1>4. /\ load' = load /\ Parts' = Parts /\ Waited' = Waited /\ Patched' = Patched
        /\ pmctrack_module_init' = pmctrack_module_init
        /\ \A j : UpTo(j)' = UpTo(j)
        /\ \A q : Undo(q)' = Undo(q)
        /\ \A q : Tidy(q)' <=> Tidy(q)
    BY <1>1, LoadStays
  <1>5. waits' \subseteq waits /\ \A u \in Caller \ {t} : u \in waits' <=> u \in waits
    BY <1>1
  <1>6. /\ HasRef(t)' <=> RefOf(c)
        /\ \A u \in Caller \ {t} : HasRef(u)' <=> HasRef(u)
    BY <1>3 DEF HasRef, RefOf
  <1>7. LoadTypes'
    <2>1. refs' \in Int
      BY <1>2 DEF LoadTypes, RefsAfter
    <2> QED  BY <1>1, <1>2, <1>3, <1>5, <2>1 DEF LoadTypes, Call
  <1>8. LoaderInv'
    <2>1. ASSUME NEW k \in 1 .. Len(Parts) + 2, SettingUp(k) PROVE SettingUp(k)'
      <3>1. waits' = {}
        BY <1>5, <2>1 DEF SettingUp
      <3>2. ASSUME ~implementer PROVE refs' = 0 /\ \A u \in Caller : ~HasRef(u)'
        <4>1. refs = 0 /\ \A u \in Caller : ~HasRef(u)
          BY <2>1, <3>2 DEF SettingUp
        <4>2. refs' = 0
          BY <3>2, <4>1 DEF RefsAfter
        <4>3. ~RefOf(c)
          BY <3>2, <4>1 DEF Permitted
        <4> QED  BY <1>6, <4>1, <4>2, <4>3
      <3> QED  BY <1>1, <1>4, <2>1, <3>1, <3>2 DEF SettingUp
    <2>2. ASSUME Loaded PROVE Loaded'
      BY <1>1, <1>4, <1>5, <2>2 DEF Loaded
    <2>3. ASSUME TakingDown PROVE TakingDown'
      <3>1. \E q : Tidy(q)' /\ ToSet(q) = up' /\ todo' = Undo(q)'
        BY <1>1, <1>4, <2>3 DEF TakingDown
      <3> QED  BY <1>1, <1>4, <2>3, <3>1 DEF TakingDown
    <2>4. ASSUME Over PROVE Over'
      BY <1>1, <1>5, <2>4 DEF Over
    <2>5. (\E k \in 1 .. Len(Parts) + 2 : SettingUp(k)') \/ Loaded' \/ TakingDown' \/ Over'
      BY <1>2, <2>1, <2>2, <2>3, <2>4 DEF LoaderInv
    <2> QED  BY <1>1, <1>2, <1>4, <1>5, <2>5 DEF LoaderInv
  <1>9. CallsAreOrderly'
    <2>1. ASSUME NEW u \in Caller \ {t}, NEW op PROVE May(u, op)' <=> May(u, op)
      BY <2>1 DEF May
    <2>2. ASSUME NEW op, task'[t] = task[t] PROVE May(t, op)' <=> May(t, op)
      BY <2>2 DEF May
    <2>3. ASSUME NEW u \in Caller \ {t}
          PROVE  /\ call'[u].pc = "idle" => call'[u] = Idle
                 /\ call'[u].op = Absent => call'[u].pc = "idle"
                 /\ call'[u].op = "thermal" => call'[u].pc = "in"
                 /\ call'[u].pc \in {"got", "asleep", "done"} => call'[u].op \in Blocking
                 /\ call'[u].pc = "asleep" => ~pmctrack_initializing'
                 /\ call'[u].op # Absent => May(u, call[u].op)'
      BY <1>1, <1>2, <1>3, <2>1 DEF CallsAreOrderly
    <2>4. /\ c.pc = "idle" => c = Idle
          /\ c.op = Absent => c.pc = "idle"
          /\ c.op = "thermal" => c.pc = "in"
          /\ c.pc \in {"got", "asleep", "done"} => c.op \in Blocking
          /\ c.pc = "asleep" => ~pmctrack_initializing'
      BY <1>1 DEF Permitted
    <2>5. c.op # Absent => task'[t] = CASE c.op = "fork" -> "unborn" [] c.op = "free" -> "dead"
                                        [] OTHER -> "alive"
      BY DEF May
    <2>6. \A u \in Caller \ {t} : call[u].op # Absent =>
             task'[u] = CASE call[u].op = "fork" -> "unborn" [] call[u].op = "free" -> "dead"
                          [] OTHER -> "alive"
      BY <1>2 DEF CallsAreOrderly, May
    <2> QED  BY <1>3, <2>3, <2>4, <2>5, <2>6 DEF CallsAreOrderly, May
  <1>10. ModuleRefsAreCalls'
    <2> DEFINE S == {u \in Caller : HasRef(u)}
               T == {u \in Caller : HasRef(u)'}
    <2>1. SUFFICES ASSUME implementer PROVE refs' = Cardinality(T)
      BY <1>1 DEF ModuleRefsAreCalls, HasRef
    <2>2. refs = Cardinality(S)
      BY <2>1 DEF LInv, ModuleRefsAreCalls, HasRef
    <2>3. /\ \A u \in Caller \ {t} : u \in S <=> u \in T
          /\ t \in S <=> HasRef(t)
          /\ t \in T <=> RefOf(c)
          /\ S \in SUBSET Caller /\ T \in SUBSET Caller
      BY <1>6
    <2> HIDE DEF S, T
    <2>4. Cardinality(T) = IF t \in T /\ t \notin S THEN Cardinality(S) + 1
                           ELSE IF t \in S /\ t \notin T THEN Cardinality(S) - 1
                           ELSE Cardinality(S)
      BY <2>3, RefsCount
    <2> QED  BY <2>1, <2>2, <2>3, <2>4 DEF RefsAfter
  <1>11. ReadersAreGone'
    <2>1. SUFFICES ASSUME ~implementer, NEW u \in Caller \ waits', call'[u].pc \in {"in", "asleep"}
                   PROVE  call'[u].op = "thermal"
      BY <1>1 DEF ReadersAreGone
    <2>2. CASE u = t
      BY <1>3, <2>1, <2>2 DEF Permitted
    <2>3. CASE u # t
      BY <1>3, <1>5, <2>1, <2>3 DEF LInv, ReadersAreGone
    <2> QED  BY <2>2, <2>3
  <1>12. StubsAreLeft'
    <2>1. SUFFICES ASSUME NEW u \in Caller \ waits', call'[u].pc # "idle",
                          ~Patched \/ call'[u].op = "thermal"
                   PROVE  Hook[call'[u].op] \in up
      BY <1>1, <1>4 DEF StubsAreLeft
    <2>2. CASE u # t
      BY <1>3, <1>5, <2>1, <2>2 DEF LInv, StubsAreLeft
    <2>3. CASE u = t /\ Calls(c.op)
      BY <1>3, <2>1, <2>3 DEF Calls
    <2>4. CASE u = t /\ c.op = call[t].op /\ call[t].pc # "idle"
      <3>1. t \notin waits
        <4>1. SUFFICES ASSUME t \in waits PROVE FALSE
          OBVIOUS
        <4>2. ~Holds(c)
          BY <1>1, <2>1, <2>4, <4>1
        <4>3. c.pc # "asleep"
          BY <4>1 DEF Permitted
        <4>4. load.preempts
          BY <1>3, <2>1, <2>4, <4>2, <4>3 DEF Holds
        <4>5. Patched
          BY <4>4 DEF Orderly
        <4>6. c.op = "thermal"
          BY <1>3, <2>1, <2>4, <4>5
        <4> QED  BY <1>3, <2>1, <2>4, <4>2, <4>4, <4>6 DEF Holds
      <3> QED  BY <1>3, <2>1, <2>4, <3>1 DEF LInv, StubsAreLeft
    <2> QED  BY <1>3, <2>1, <2>2, <2>3, <2>4 DEF Permitted
  <1>13. RefusedWhenGoing'
    <2>1. SUFFICES ASSUME mod \in {"going", "gone"}, ~pmctrack_initializing, NEW u \in Caller
                   PROVE  ~HasRef(u)'
      BY <1>1 DEF RefusedWhenGoing
    <2>2. \A v \in Caller : ~HasRef(v)
      BY <2>1 DEF LInv, RefusedWhenGoing
    <2>3. ~RefOf(c)
      BY <1>2, <2>1, <2>2, ModIs DEF Permitted
    <2> QED  BY <1>6, <2>2, <2>3
  <1>14. ProfsFollowTasks'
    <2>1. ASSUME NEW u \in Caller
          PROVE  /\ pmctrack_initializing => prof'[u] = Absent
                 /\ mod \in {"coming", "live"} =>
                      /\ task'[u] = "unborn" /\ prof'[u] # Absent =>
                           call'[u].op = "fork" /\ call'[u].pc \in {"done", "leaving"} /\ ~call'[u].failed
                      /\ call'[u].op = "free" /\ call'[u].pc \in {"done", "leaving"} => prof'[u] = Absent
      <3>1. CASE u = t
        BY <1>3, <3>1 DEF ProfFollows
      <3>2. CASE u # t
        BY <1>3, <3>2 DEF LInv, ProfsFollowTasks
      <3> QED  BY <3>1, <3>2
    <2> QED  BY <1>1, <2>1 DEF ProfsFollowTasks
  <1> QED  BY <1>7, <1>8, <1>9, <1>10, <1>11, <1>12, <1>13, <1>14 DEF LInv

LEMMA AtIs ==
    ASSUME NEW c \in Call, NEW pc \in Pc
    PROVE  LET d == [c EXCEPT !.pc = pc]
           IN  d \in Call /\ d.op = c.op /\ d.pc = pc /\ d.failed = c.failed
  BY DEF Call

LEMMA IdleIs == Idle \in Call /\ Idle.op = Absent /\ Idle.pc = "idle" /\ ~Idle.failed
  BY DEF Idle, Call, Pc, Absent

\* A step within a call, in which the thread and its profile stay what they are.
LEMMA AtKeeps ==
    ASSUME LInv, Orderly, NEW t \in Caller, NEW pc \in Pc, pc \notin {"idle", "asleep"},
           call[t].pc # "idle", call[t].op # "thermal", At(t, pc), UNCHANGED <<implementer, task, prof>>,
           pc \in {"got", "done"} => call[t].op \in Blocking,
           pc = "in" => implementer,
           call[t].op \in Blocking /\ pc \in {"got", "in", "done"} =>
                HasRef(t) \/ (implementer /\ mod # "going"),
           refs' = RefsAfter(t, [call[t] EXCEPT !.pc = pc]),
           call[t].op = "fork" /\ pc \notin {"done", "leaving"} => call[t].pc \notin {"done", "leaving"},
           mod \in {"coming", "live"} /\ call[t].op = "free" /\ pc \in {"done", "leaving"} =>
                prof[t] = Absent
    PROVE  LInv'
  <1> DEFINE c == [call[t] EXCEPT !.pc = pc]
  <1>1. call[t] \in Call /\ LoadTypes /\ CallsAreOrderly
    BY DEF LInv, LoadTypes
  <1>2. c \in Call /\ c.op = call[t].op /\ c.pc = pc /\ c.failed = call[t].failed
    BY <1>1, AtIs
  <1>3. Goes(t, c) /\ refs' = RefsAfter(t, c)
    BY DEF At
  <1> HIDE DEF c
  <1>4. c.op # Absent /\ May(t, c.op)
    BY <1>1, <1>2 DEF CallsAreOrderly
  <1>5. Permitted(t, c)
    BY <1>2, <1>4 DEF Permitted, RefOf
  <1>6. ProfFollows(t, c)
    BY <1>2 DEF LInv, ProfsFollowTasks, ProfFollows
  <1> QED  BY <1>1, <1>3, <1>4, <1>5, <1>6, GoesKeeps DEF LoadTypes

LEMMA ReadsKeeps ==
    ASSUME LInv, Orderly, NEW t \in Caller, Reads(t)
    PROVE  LInv'
  <1>1. PICK pc \in {"reading", "in", "leaving"} :
            /\ At(t, pc) /\ call[t].pc \in {"entered", "reading"} /\ call[t].op \notin Blocking
            /\ pc = "in" => implementer
            /\ UNCHANGED <<implementer, refs, task, prof>>
    BY DEF Reads
  <1>2. pc \in Pc /\ call[t].op # "thermal" /\ call[t] \in Call
    BY <1>1 DEF LInv, CallsAreOrderly, Pc, LoadTypes
  <1>3. refs' = RefsAfter(t, [call[t] EXCEPT !.pc = pc])
    BY <1>1, <1>2, AtIs DEF RefsAfter, RefOf, HasRef
  <1> QED  BY <1>1, <1>2, <1>3, AtKeeps DEF Blocking

\* Where nothing is registered while the module is there, no profile has been made.
LEMMA NoProfsYet ==
    ASSUME LInv, ~implementer, mod \in {"coming", "live"}, NEW t \in Caller
    PROVE  prof[t] = Absent
  BY FullyUp DEF LInv, ProfsFollowTasks

LEMMA try_module_getKeeps ==
    ASSUME LInv, Orderly, NEW t \in Caller, try_module_get(t)
    PROVE  LInv'
  <1> DEFINE got == implementer /\ mod # "going"
             pc == IF got THEN "got" ELSE "leaving"
  <1>1. /\ At(t, pc) /\ call[t].pc = "entered" /\ call[t].op \in Blocking
        /\ refs' = IF got THEN refs + 1 ELSE refs
        /\ UNCHANGED <<implementer, task, prof>>
    BY DEF try_module_get
  <1>2. pc \in {"got", "leaving"} /\ pc \in Pc /\ (pc = "got" <=> got)
    BY DEF Pc
  <1>3. call[t].op # "thermal" /\ call[t] \in Call
    BY <1>1 DEF LInv, CallsAreOrderly, LoadTypes
  <1>4. refs' = RefsAfter(t, [call[t] EXCEPT !.pc = pc])
    <2> HIDE DEF pc
    <2>1. RefOf([call[t] EXCEPT !.pc = pc]) <=> got
      BY <1>1, <1>2, <1>3, AtIs DEF RefOf
    <2> QED  BY <1>1, <2>1 DEF RefsAfter, HasRef
  <1>5. mod \in {"coming", "live"} /\ pc = "leaving" => prof[t] = Absent
    BY <1>2, NoProfsYet
  <1> HIDE DEF pc
  <1> QED  BY <1>1, <1>2, <1>3, <1>4, <1>5, AtKeeps

LEMMA DereferencesKeeps ==
    ASSUME LInv, Orderly, NEW t \in Caller, Dereferences(t)
    PROVE  LInv'
  <1> DEFINE pc == IF implementer THEN "in" ELSE "done"
  <1>1. At(t, pc) /\ call[t].pc = "got" /\ UNCHANGED <<implementer, refs, task, prof>>
    BY DEF Dereferences
  <1>2. pc \in {"in", "done"} /\ pc \in Pc /\ (pc = "in" <=> implementer)
    BY DEF Pc
  <1>3. call[t].op \in Blocking /\ call[t].op # "thermal" /\ call[t] \in Call /\ HasRef(t)
    BY <1>1 DEF LInv, CallsAreOrderly, LoadTypes, HasRef
  <1> HIDE DEF pc
  <1>4. refs' = RefsAfter(t, [call[t] EXCEPT !.pc = pc])
    BY <1>1, <1>2, <1>3, AtIs DEF RefsAfter, RefOf
  <1>5. mod \in {"coming", "live"} /\ pc = "done" => prof[t] = Absent
    BY <1>2, NoProfsYet
  <1> QED  BY <1>1, <1>2, <1>3, <1>4, <1>5, AtKeeps

LEMMA module_putKeeps ==
    ASSUME LInv, Orderly, NEW t \in Caller, module_put(t)
    PROVE  LInv'
  <1>1. /\ At(t, "leaving") /\ call[t].pc = "done" /\ refs' = IF implementer THEN refs - 1 ELSE refs
        /\ UNCHANGED <<implementer, task, prof>>
    BY DEF module_put
  <1>2. call[t].op \in Blocking /\ call[t].op # "thermal" /\ call[t] \in Call /\ HasRef(t)
    BY <1>1 DEF LInv, CallsAreOrderly, LoadTypes, HasRef
  <1>3. refs' = RefsAfter(t, [call[t] EXCEPT !.pc = "leaving"])
    BY <1>1, <1>2, AtIs DEF RefsAfter, RefOf, Pc
  <1>4. mod \in {"coming", "live"} /\ call[t].op = "free" => prof[t] = Absent
    BY <1>1 DEF LInv, ProfsFollowTasks
  <1> QED  BY <1>1, <1>2, <1>3, <1>4, AtKeeps DEF Pc

LEMMA SleepsKeeps ==
    ASSUME LInv, Orderly, NEW t \in Caller, Sleeps(t)
    PROVE  LInv'
  <1> DEFINE c == [call[t] EXCEPT !.pc = "asleep"]
  <1>1. /\ Goes(t, c) /\ call[t].pc = "in" /\ call[t].op \in {"fork", "exit"}
        /\ call[t].op = "fork" => ~pmctrack_initializing
        /\ call[t].op = "exit" => prof[t] = "live"
        /\ UNCHANGED <<implementer, refs, task, prof>>
    BY DEF Sleeps, At
  <1>2. LoadTypes /\ CallsAreOrderly /\ LoaderInv /\ RefusedWhenGoing /\ call[t] \in Call
    BY DEF LInv, LoadTypes
  <1>3. call[t].op \in Blocking /\ HasRef(t)
    BY <1>1 DEF Blocking, HasRef
  <1>4. ~pmctrack_initializing
    BY <1>1 DEF LInv, ProfsFollowTasks, Absent
  <1>5. implementer /\ waits = {}
    BY <1>2, <1>3, <1>4, SleepersAreRegistered
  <1>6. c \in Call /\ c.op = call[t].op /\ c.pc = "asleep" /\ c.failed = call[t].failed
    BY <1>2, AtIs DEF Pc
  <1> HIDE DEF c
  <1>7. Permitted(t, c)
    BY <1>1, <1>3, <1>4, <1>5, <1>6 DEF Permitted, RefOf, Absent
  <1>8. refs' = RefsAfter(t, c)
    BY <1>1, <1>3, <1>6 DEF RefsAfter, RefOf
  <1>9. ProfFollows(t, c)
    BY <1>1, <1>6 DEF LInv, ProfsFollowTasks, ProfFollows
  <1>10. May(t, c.op)
    BY <1>1, <1>2, <1>6 DEF CallsAreOrderly, Absent
  <1> QED  BY <1>1, <1>2, <1>7, <1>8, <1>9, <1>10, GoesKeeps DEF LoadTypes

LEMMA RunsKeeps ==
    ASSUME LInv, Orderly, NEW t \in Caller, Runs(t)
    PROVE  LInv'
  <1> DEFINE o == call[t]
             refused == o.op = "fork" /\ pmctrack_initializing
             pc == IF o.op \in Blocking THEN "done" ELSE "leaving"
             c == [o EXCEPT !.pc = pc, !.failed = refused]
  <1>1. /\ Goes(t, c)
        /\ (o.pc = "in" /\ o.op # "thermal") \/ o.pc = "asleep"
        /\ prof' = [prof EXCEPT ![t] = ProfAfter(o.op, refused, @)]
        /\ UNCHANGED <<implementer, refs, task>>
    BY DEF Runs
  <1>2. LoadTypes /\ CallsAreOrderly /\ o \in Call
    BY DEF LInv, LoadTypes
  <1>3. o.op # "thermal" /\ o.op # Absent /\ o.pc \in {"in", "asleep"}
    BY <1>1, <1>2 DEF CallsAreOrderly
  <1>4. /\ c \in Call /\ c.op = o.op /\ c.pc = pc /\ c.failed = refused
        /\ pc \in {"done", "leaving"} /\ (pc = "done" <=> o.op \in Blocking)
    BY <1>2 DEF Call, Pc, LoadTypes
  <1>5. prof'[t] = ProfAfter(o.op, refused, prof[t]) /\ \A u \in Caller \ {t} : prof'[u] = prof[u]
    BY <1>1, <1>2 DEF LoadTypes
  <1>6. prof' \in [Caller -> {Absent, "live", "exited"}]
    BY <1>1, <1>2 DEF LoadTypes, ProfAfter
  <1>7. May(t, o.op)
    BY <1>2, <1>3 DEF CallsAreOrderly
  <1>8. RefOf(c) <=> HasRef(t)
    BY <1>3, <1>4 DEF RefOf, HasRef
  <1>9. ProfFollows(t, c)
    <2>1. ASSUME pmctrack_initializing PROVE prof'[t] = Absent
      <3>1. prof[t] = Absent
        BY <2>1 DEF LInv, ProfsFollowTasks
      <3> QED  BY <1>5, <2>1, <3>1 DEF ProfAfter, Absent
    <2>2. CASE o.op = "fork"
      BY <1>4, <1>5, <2>1, <2>2 DEF ProfFollows
    <2>3. CASE o.op = "free"
      BY <1>5, <2>1, <2>3 DEF ProfFollows, ProfAfter
    <2>4. CASE o.op \notin {"fork", "free"}
      <3>1. task[t] = "alive"
        BY <1>7, <2>4 DEF May
      <3> QED  BY <1>1, <1>4, <2>1, <2>4, <3>1 DEF ProfFollows
    <2> QED  BY <2>2, <2>3, <2>4
  <1>10. Permitted(t, c)
    BY <1>3, <1>4, <1>8 DEF Permitted
  <1>11. refs' = RefsAfter(t, c)
    BY <1>1, <1>8 DEF RefsAfter
  <1> HIDE DEF c, pc, refused
  <1> QED  BY <1>1, <1>2, <1>4, <1>5, <1>6, <1>7, <1>9, <1>10, <1>11, GoesKeeps DEF LoadTypes

LEMMA ReturnsKeeps ==
    ASSUME LInv, Orderly, NEW t \in Caller, Returns(t)
    PROVE  LInv'
  <1> DEFINE o == call[t]
  <1>1. /\ Goes(t, Idle)
        /\ o.pc = "leaving" \/ o.op = "thermal"
        /\ task' = [task EXCEPT ![t] = StateAfter(t, o.op, o.failed)]
        /\ UNCHANGED <<implementer, refs, prof>>
    BY DEF Returns
  <1>2. LoadTypes /\ CallsAreOrderly /\ o \in Call
    BY DEF LInv, LoadTypes
  <1>3. o.op # Absent /\ (o.op = "thermal" => o.pc = "in") /\ May(t, o.op)
    BY <1>1, <1>2 DEF CallsAreOrderly, Absent
  <1>4. ~HasRef(t)
    BY <1>1, <1>3 DEF HasRef, Blocking
  <1>5. task'[t] = StateAfter(t, o.op, o.failed) /\ \A u \in Caller \ {t} : task'[u] = task[u]
    BY <1>1, <1>2 DEF LoadTypes
  <1>6. task' \in [Caller -> {"unborn", "alive", "dead"}]
    BY <1>1, <1>2 DEF LoadTypes, StateAfter
  <1>7. ProfFollows(t, Idle)
    <2>1. pmctrack_initializing => prof[t] = Absent
      BY DEF LInv, ProfsFollowTasks
    <2>2. ASSUME mod \in {"coming", "live"}, task'[t] = "unborn" PROVE prof[t] = Absent
      <3>1. CASE o.op = "fork"
        <4>1. o.failed /\ task[t] = "unborn"
          BY <1>3, <1>5, <2>2, <3>1 DEF StateAfter, May
        <4> QED  BY <2>2, <4>1 DEF LInv, ProfsFollowTasks
      <3>2. CASE o.op = "free"
        BY <1>1, <2>2, <3>2 DEF LInv, ProfsFollowTasks
      <3>3. CASE o.op \notin {"fork", "free"}
        BY <1>3, <1>5, <2>2, <3>3 DEF StateAfter, May
      <3> QED  BY <3>1, <3>2, <3>3
    <2> QED  BY <1>1, <2>1, <2>2, IdleIs DEF ProfFollows, Absent
  <1>8. Permitted(t, Idle)
    BY IdleIs DEF Permitted, RefOf, Absent, Blocking
  <1>9. refs' = RefsAfter(t, Idle)
    BY <1>1, <1>4, IdleIs DEF RefsAfter, RefOf
  <1> QED  BY <1>1, <1>2, <1>5, <1>6, <1>7, <1>8, <1>9, IdleIs, GoesKeeps DEF LoadTypes

LEMMA EntersKeeps ==
    ASSUME LInv, Orderly, NEW t \in Caller, NEW op \in DOMAIN Hook, Enters(t, op)
    PROVE  LInv'
  <1>1. call[t] = Idle /\ May(t, op) /\ UNCHANGED <<implementer, refs, prof>>
    BY DEF Enters
  <1>2. LoadTypes /\ CallsAreOrderly /\ LoaderInv
    BY DEF LInv
  <1>3. ~HasRef(t)
    BY <1>1, IdleIs DEF HasRef
  <1>4. op # Absent
    BY DEF Hook, Absent
  <1>5. /\ pmctrack_initializing => prof[t] = Absent
        /\ mod \in {"coming", "live"} /\ task[t] = "unborn" => prof[t] = Absent
    BY <1>1, IdleIs DEF LInv, ProfsFollowTasks, Absent
  <1>6. CASE Calls(op)
    <2> DEFINE c == [op |-> op, pc |-> IF op = "thermal" THEN "in" ELSE "entered", failed |-> FALSE]
    <2>1. Goes(t, c) /\ task' = task
      BY <1>6 DEF Enters
    <2>2. /\ c \in Call /\ c.op = op /\ c.pc \in {"in", "entered"} /\ (c.pc = "in" <=> op = "thermal")
      BY DEF Call, Pc
    <2> HIDE DEF c
    <2>3. ~RefOf(c)
      BY <2>2 DEF RefOf, Blocking
    <2>4. Permitted(t, c)
      BY <1>4, <1>6, <2>2, <2>3 DEF Permitted
    <2>5. ProfFollows(t, c)
      BY <1>1, <1>5, <2>1, <2>2 DEF ProfFollows
    <2>6. refs' = RefsAfter(t, c)
      BY <1>1, <1>3, <2>3 DEF RefsAfter
    <2> QED  BY <1>1, <1>2, <2>1, <2>2, <2>4, <2>5, <2>6, GoesKeeps DEF LoadTypes
  <1>7. CASE ~Calls(op)
    <2>1. op \in Blocking /\ task' = [task EXCEPT ![t] = StateAfter(t, op, FALSE)] /\ Goes(t, Idle)
      BY <1>7 DEF Enters
    <2>2. task'[t] = StateAfter(t, op, FALSE) /\ \A u \in Caller \ {t} : task'[u] = task[u]
      BY <1>2, <2>1 DEF LoadTypes
    <2>3. task' \in [Caller -> {"unborn", "alive", "dead"}]
      BY <1>2, <2>1 DEF LoadTypes, StateAfter
    <2>4. ProfFollows(t, Idle)
      <3>1. ASSUME mod \in {"coming", "live"}, task'[t] = "unborn" PROVE prof[t] = Absent
        <4>1. op = "free" /\ ~Patched
          BY <1>7, <2>1, <2>2, <3>1 DEF StateAfter, Blocking, Calls
        <4>2. "free_task" \notin up
          BY <1>7, <4>1 DEF Calls, Hook
        <4>3. "free_task" \in ToSet(Parts)
          BY <4>1, PartsAre, StubsAre
        <4>4. pmctrack_initializing
          BY <1>2, <3>1, <4>2, <4>3, FullyUp
        <4> QED  BY <1>5, <4>4
      <3> QED  BY <1>1, <1>5, <3>1, IdleIs DEF ProfFollows, Absent
    <2>5. Permitted(t, Idle)
      BY IdleIs DEF Permitted, RefOf, Absent, Blocking
    <2>6. refs' = RefsAfter(t, Idle)
      BY <1>1, <1>3, IdleIs DEF RefsAfter, RefOf
    <2> QED  BY <1>1, <1>2, <2>1, <2>2, <2>3, <2>4, <2>5, <2>6, IdleIs, GoesKeeps DEF LoadTypes
  <1> QED  BY <1>6, <1>7

-----------------------------------------------------------------------------------
(* The invariant, and what follows from it.                                         *)

LEMMA LInvInit == LoadInit => LInv
  <1> SUFFICES ASSUME LoadInit PROVE LInv
    OBVIOUS
  <1>1. /\ load \in LoadSetups /\ mod = "coming" /\ todo = pmctrack_module_init /\ up = {}
        /\ twice = FALSE /\ implementer = FALSE /\ refs = 0 /\ pmctrack_initializing = TRUE /\ waits = {}
        /\ call = [t \in Caller |-> Idle] /\ task \in [Caller -> {"unborn", "alive"}]
        /\ prof = [t \in Caller |-> Absent]
    BY DEF LoadInit
  <1>2. \A t \in Caller : call[t] = Idle /\ prof[t] = Absent /\ ~HasRef(t)
    BY <1>1, IdleIs DEF HasRef
  <1>3. LoadTypes
    <2>1. call \in [Caller -> Call]
      BY <1>1, IdleIs
    <2>2. prof \in [Caller -> {Absent, "live", "exited"}]
      BY <1>1
    <2>3. task \in [Caller -> {"unborn", "alive", "dead"}]
      BY <1>1
    <2>4. load \in LoadSetups /\ refs \in Int /\ waits \subseteq Caller
      BY <1>1
    <2>5. implementer \in BOOLEAN /\ twice \in BOOLEAN /\ pmctrack_initializing \in BOOLEAN
      BY <1>1
    <2> QED  BY <2>1, <2>2, <2>3, <2>4, <2>5 DEF LoadTypes
  <1>4. SettingUp(1)
    <2>1. 1 <= Len(Parts) + 1
      BY InitIs
    <2>2. pmctrack_initializing = (1 <= Len(Parts) + 1)
      BY <1>1, <2>1
    <2>3. SubSeq(pmctrack_module_init, 1, Len(Parts) + 2) = pmctrack_module_init
      BY InitIs, SubSeqFull
    <2> QED  BY <1>1, <1>2, <2>2, <2>3, UpToIs DEF SettingUp
  <1>5. LoaderInv
    <2>1. 1 \in 1 .. Len(Parts) + 2
      BY InitIs
    <2>2. implementer = ("registered" \in up)
      <3>1. ("registered" \in up) = FALSE
        BY <1>1
      <3> QED  BY <1>1, <3>1
    <2> QED  BY <1>1, <1>4, <2>1, <2>2 DEF LoaderInv
  <1>6. CallsAreOrderly
    BY <1>2, IdleIs DEF CallsAreOrderly, Absent
  <1>7. ModuleRefsAreCalls /\ RefusedWhenGoing
    BY <1>1 DEF ModuleRefsAreCalls, RefusedWhenGoing
  <1>8. ReadersAreGone /\ StubsAreLeft
    BY <1>2, IdleIs DEF ReadersAreGone, StubsAreLeft
  <1>9. ProfsFollowTasks
    BY <1>2, IdleIs DEF ProfsFollowTasks, Absent
  <1> QED  BY <1>3, <1>5, <1>6, <1>7, <1>8, <1>9 DEF LInv

LEMMA LInvStep == LInv /\ Orderly /\ [LoadNext]_loadVars => LInv'
  <1> SUFFICES ASSUME LInv, Orderly, [LoadNext]_loadVars PROVE LInv'
    OBVIOUS
  <1>1. ASSUME NEW s, SetUp(s.part) \/ TakeDown(s.part) \/ Become(s.part) PROVE LInv'
    BY <1>1, SetUpKeeps, TakeDownKeeps, BecomeKeeps
  <1>2. ASSUME NEW t \in Caller, Operation(t) PROVE LInv'
    BY <1>2, EntersKeeps, ReadsKeeps, try_module_getKeeps, DereferencesKeeps, SleepsKeeps,
       RunsKeeps, module_putKeeps, ReturnsKeeps DEF Operation
  <1>3. CASE UNCHANGED loadVars
    <2>1. UNCHANGED <<load, mod, todo, up, twice, implementer, refs, pmctrack_initializing,
                      waits, call, task, prof>>
      BY <1>3 DEF loadVars
    <2>2. /\ Parts' = Parts /\ Waited' = Waited /\ Patched' = Patched
          /\ pmctrack_module_init' = pmctrack_module_init
          /\ \A j : UpTo(j)' = UpTo(j)
          /\ \A q : Undo(q)' = Undo(q)
          /\ \A q : Tidy(q)' <=> Tidy(q)
      BY <2>1, LoadStays
    <2>3. \A t \in Caller : HasRef(t)' <=> HasRef(t)
      BY <2>1, CallsStay
    <2>4. LoaderInv'
      <3>1. \A k : SettingUp(k) => SettingUp(k)'
        BY <2>1, <2>2, <2>3 DEF SettingUp
      <3>2. (Loaded => Loaded') /\ (Over => Over')
        BY <2>1, <2>2 DEF Loaded, Over
      <3>3. TakingDown => TakingDown'
        BY <2>1, <2>2 DEF TakingDown
      <3> QED  BY <2>1, <2>2, <3>1, <3>2, <3>3 DEF LInv, LoaderInv
    <2>5. CallsAreOrderly'
      BY <2>1, CallsStay DEF LInv, CallsAreOrderly
    <2> QED  BY <2>1, <2>2, <2>3, <2>4, <2>5
              DEF LInv, LoadTypes, Call, ModuleRefsAreCalls, ReadersAreGone, StubsAreLeft,
                  RefusedWhenGoing, ProfsFollowTasks
  <1> QED  BY <1>1, <1>2, <1>3, delete_moduleKeeps DEF LoadNext, Load

\* The code of a module goes when nobody is in it: those who were have been waited for.
LEMMA LInvIsSound == LInv /\ Orderly => LoadIsSound
  <1> SUFFICES ASSUME LInv, Orderly PROVE LoadIsSound
    OBVIOUS
  <1>1. LoadTypes /\ LoaderInv /\ CallsAreOrderly
    BY DEF LInv
  <1>2. CodeIsThere
    <2>1. SUFFICES ASSUME mod = "gone", NEW t \in Caller, InModule(call[t]) PROVE FALSE
      BY DEF CodeIsThere
    <2>2. up = {} /\ waits = {} /\ ~implementer
      <3>1. Over
        BY <1>1, <2>1 DEF LoaderInv, SettingUp, Loaded, TakingDown
      <3> QED  BY <1>1, <2>1, <3>1, ModIs DEF Over
    <2>3. call[t].pc # "idle"
      BY <2>1 DEF InModule
    <2>4. Patched /\ call[t].op # "thermal"
      BY <2>2, <2>3 DEF LInv, StubsAreLeft
    <2> QED  BY <2>1, <2>2, <2>4 DEF LInv, ReadersAreGone, InModule
  <1>3. OperationsHavePmu
    <2>1. SUFFICES ASSUME NEW t \in Caller, call[t].pc \in {"in", "asleep"}
                   PROVE  "pmu" \in up /\ (call[t].op \in Blocking => mod # "going")
      BY DEF OperationsHavePmu
    <2>2. ASSUME "pmu" \notin up PROVE FALSE
      <3>1. Waited \cap up = {} /\ waits = {}
        BY <1>1, <2>2 DEF LoaderInv
      <3>2. ~implementer
        BY <1>1, <3>1, WaitedIs DEF LoaderInv
      <3>3. call[t].op = "thermal"
        BY <2>1, <3>1, <3>2 DEF LInv, ReadersAreGone
      <3>4. Hook[call[t].op] \in up /\ call[t].op \in DOMAIN Hook
        BY <2>1, <3>1, <3>3 DEF LInv, StubsAreLeft, Hook
      <3>5. Hook[call[t].op] \in Waited
        BY <1>1, <3>4, HooksAreStubs DEF LoaderInv
      <3> QED  BY <3>1, <3>4, <3>5
    <2>3. ASSUME call[t].op \in Blocking, mod = "going" PROVE FALSE
      <3>1. HasRef(t)
        BY <2>1, <2>3 DEF HasRef
      <3>2. ~pmctrack_initializing
        BY <1>1, <2>3 DEF LoaderInv, SettingUp, Loaded, TakingDown, Over
      <3> QED  BY <2>3, <3>1, <3>2 DEF LInv, RefusedWhenGoing
    <2> QED  BY <2>2, <2>3
  <1>4. NothingIsLeft
    BY <1>1, ModIs DEF NothingIsLeft, LoaderInv
  <1>5. ProfilesAreFreed
    BY <1>1, IdleIs DEF LInv, ProfsFollowTasks, ProfilesAreFreed, Absent
  <1> QED  BY <1>2, <1>3, <1>4, <1>5 DEF LoadIsSound, LInv

LEMMA OrderlyStays == ASSUME load' = load PROVE Orderly' <=> Orderly
  BY LoadStays DEF Orderly

\* Whatever step of its initialization fails, and whatever threads do while PMCTrack's
\* module is loaded and unloaded: no thread is left in code that is gone, operations run
\* only while the PMU is set up, nothing stays behind or is removed twice, and references
\* and profiles are accounted for; in the circumstances that Orderly states.
THEOREM LoadIsAlwaysSound == LoadSpec => [](Orderly => LoadIsSound)
  <1> DEFINE I == Orderly => LInv
  <1>1. LoadInit => I
    BY LInvInit
  <1>2. I /\ [LoadNext]_loadVars => I'
    <2> SUFFICES ASSUME I, [LoadNext]_loadVars, Orderly' PROVE LInv'
      OBVIOUS
    <2>1. load' = load
      BY DEF LoadNext, Load, Operation, SetUp, TakeDown, Become, delete_module, Idles, Enters, Reads,
             try_module_get, Dereferences, Sleeps, Runs, module_put, Returns, At, Goes, loadVars
    <2> QED  BY <2>1, OrderlyStays, LInvStep
  <1>3. I => (Orderly => LoadIsSound)
    BY LInvIsSound
  <1> QED  BY <1>1, <1>2, <1>3, PTL DEF LoadSpec
===================================================================================
