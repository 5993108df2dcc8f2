------------------------------ MODULE CounterConfig ------------------------------
(***********************************************************************************)
(* What threads are configured to count: the strings a thread writes into          *)
(* /proc/pmc/config and /proc/pmc/enable (mchw_core.c), the experiments they       *)
(* become, the sets a thread keeps them in (mc_experiments.h), the copies a new    *)
(* thread gets of its parent's, and those the default monitoring module, dummy,    *)
(* gives to the threads that have none (monitoring_mod.c).                         *)
(*                                                                                 *)
(* An experiment is kept as what distinguishes it: whether it samples on events,   *)
(* and whether a user asked for it.  What a string says of the counters is the     *)
(* business of HwEvents.  NULL is 0, and the slots of a set are numbered from 1.   *)
(***********************************************************************************)
EXTENDS Integers, FiniteSets, Sequences, SequencesExt

CONSTANTS
    Thread,         \* the threads; the first exists from the start
    First,
    CoreType,       \* the types of core, 0 among them
    MaxExps,        \* AMP_MAX_EXP_CORETYPE, the room of a set
    MaxLost,        \* bound on the experiments of an owner that are in memory in vain
    ConfigSetups    \* values of how

VARIABLES
    how,        \* build: which one; strings: those of dummy; requests: what threads ask
                \* for; uses: what is used besides, of "dummy" (it uses counters),
                \* "virtual" (virtual counters), "settings", "late" (what is asked for
                \* while the thread is profiled) and "moves" (to the other types); hard: the hard things that
                \* happen, of "memory" (for the copies of a native fork) and "types"
    prof,       \* the profile of each thread
    exps,       \* the experiments in memory: id -> [ebs, user]
    refs,       \* references to the buffer each thread has allocated
    dummy,      \* the module: whether it is current, whether it uses counters, its sets
    born,       \* the thread just born and its parent, if the last step was a birth
    oops        \* what has made the kernel dereference NULL or write past a set, which
                \* is where the model ends: "refusal", "strings" or "timer"
vars == <<how, prof, exps, refs, dummy, born, oops>>

NULL == <<>>
None == "none"
Perf == how.build = "perf"
Kind == [ebs : BOOLEAN, user : BOOLEAN]

Id == (Thread \cup {"dummy"}) \X CoreType \X (1 .. 2 * MaxExps + MaxLost)
core_experiment_set_t ==
    [exps : [1 .. MaxExps -> Id \cup {NULL}], nr : 0 .. MaxExps, cur : 1 .. MaxExps,
     configs : Seq(Kind)]
pmon_prof_t ==
    [st : {"unborn", "alive", "exited", "gone"}, mode : {"TBS_SCHED", "TBS_USER", "EBS"},
     sets : [CoreType -> core_experiment_set_t], config : Id \cup {NULL},
     buffer : Thread \cup {None}, virt : BOOLEAN, interval : BOOLEAN, enabled : BOOLEAN,
     self : BOOLEAN, armed : BOOLEAN, ran : BOOLEAN, late : BOOLEAN]

-----------------------------------------------------------------------------------
(* Sets of experiments.  The perf build keeps the configuration of each as well.    *)

init_core_experiment_set_t ==
    [exps |-> [i \in 1 .. MaxExps |-> NULL], nr |-> 0, cur |-> 1, configs |-> <<>>]
EmptySets == [ct \in CoreType |-> init_core_experiment_set_t]

HasRoom(s) == s.nr < MaxExps /\ Len(s.configs) < MaxExps

\* e may be NULL in the perf build: only the configuration is kept then.
add_experiment_to_set(s, e, kind) ==
    [s EXCEPT !.exps = IF e = NULL THEN @ ELSE [@ EXCEPT ![s.nr + 1] = e],
              !.nr = IF e = NULL THEN @ ELSE @ + 1,
              !.configs = IF Perf THEN Append(@, kind) ELSE @]

Members(s) == {s.exps[i] : i \in 1 .. s.nr} \ {NULL}
MembersOf(sets) == UNION {Members(sets[ct]) : ct \in CoreType}

\* Neither cur nor the configurations are reset.
free_experiment_set(s) ==
    [s EXCEPT !.exps = [i \in 1 .. MaxExps |-> IF i <= s.nr THEN NULL ELSE @[i]], !.nr = 0]
Freed(sets) == [ct \in CoreType |-> free_experiment_set(sets[ct])]

Without(ids) == [e \in DOMAIN exps \ ids |-> exps[e]]

get_cur_experiment_in_set(s) == s.exps[s.cur]
rewind_experiments_in_set(s) == [s EXCEPT !.cur = 1]
get_next_experiment_in_set(s) ==
    IF s.nr <= 1 THEN s ELSE [s EXCEPT !.cur = IF @ = s.nr THEN 1 ELSE @ + 1]

\* kmalloc: an experiment in memory is named after who it was allocated for, the core
\* type, and a number.  The i-th of those that are free.
kmalloc(live, o, ct, i) ==
    LET free == {n \in 1 .. 2 * MaxExps + MaxLost : <<o, ct, n>> \notin live}
    IN  <<o, ct, CHOOSE n \in free : Cardinality({m \in free : m <= n}) = i>>

\* What the experiments of a set are; perf sets them up anew from the configurations.
KindsOf(s) == IF Perf THEN s.configs ELSE [i \in 1 .. s.nr |-> exps[s.exps[i]]]

\* A copy for o of the set src.
clone_core_experiment_set_t(src, o, ct) ==
    LET kinds == KindsOf(src)
    IN  [init_core_experiment_set_t EXCEPT
            !.exps = [i \in 1 .. MaxExps |->
                        IF i <= Len(kinds) THEN kmalloc(DOMAIN exps, o, ct, i) ELSE NULL],
            !.nr = Len(kinds),
            !.configs = IF Perf THEN kinds ELSE <<>>]

\* Out of memory at the last experiment: those before it are freed, and the native
\* build leaves the set with as many empty slots.
CloneOutOfMemory(src) ==
    [init_core_experiment_set_t EXCEPT !.nr = Len(KindsOf(src)) - 1]

Clones(sets, o) == [ct \in CoreType |-> clone_core_experiment_set_t(sets[ct], o, ct)]
\* The memory with the copies of sets.
WithClones(sets, copies) ==
    [e \in DOMAIN exps \cup MembersOf(copies) |->
        IF e \in DOMAIN exps THEN exps[e]
        ELSE KindsOf(sets[e[2]])[CHOOSE i \in 1 .. MaxExps : copies[e[2]].exps[i] = e]]

-----------------------------------------------------------------------------------
(* The module dummy.                                                                *)

HwpmcUsed == dummy.current /\ dummy.counters

\* Every string is parsed before anything is built, no more of them than a set has
\* room for.  kinds: those of the strings; cts: where each goes.  A string for all core
\* types becomes one experiment for each.
Parsed(strings) == SubSeq(strings, 1, IF Len(strings) < MaxExps THEN Len(strings) ELSE MaxExps)
Mixed(strings) == \E s, r \in ToSet(strings) : s.ebs # r.ebs
Targets(coretype) == IF coretype = -1 THEN CoreType ELSE {coretype}

AddString(acc, s) ==
    LET kind == [ebs |-> s.ebs, user |-> FALSE]
        cts  == Targets(s.coretype)
        New(ct) == IF Perf THEN NULL ELSE kmalloc(DOMAIN acc.exps, "dummy", ct, 1)
    IN  [sets |-> [ct \in CoreType |-> IF ct \in cts
                        THEN add_experiment_to_set(acc.sets[ct], New(ct), kind)
                        ELSE acc.sets[ct]],
         exps |-> [e \in DOMAIN acc.exps \cup ({New(ct) : ct \in cts} \ {NULL}) |->
                        IF e \in DOMAIN acc.exps THEN acc.exps[e] ELSE kind]]

configure_performance_counters_set(memory, strings) ==
    LET parsed == Parsed(strings)
        empty  == [sets |-> EmptySets, exps |-> memory]
    IN  IF Mixed(parsed) THEN empty ELSE FoldLeft(AddString, empty, parsed)

\* The strings are fixed when the module is compiled; all memory is freed if some of
\* it cannot be had, and another module, with virtual counters, is current instead.
dummy_enable_module(enough) ==
    /\ ~dummy.current /\ enough
    /\ LET built == configure_performance_counters_set(exps, how.strings)
       IN  /\ exps' = built.exps
           /\ dummy' = [dummy EXCEPT !.current = TRUE, !.sets = built.sets]

dummy_disable_module ==
    /\ dummy.current
    /\ exps' = Without(MembersOf(dummy.sets))
    /\ dummy' = [dummy EXCEPT !.current = FALSE, !.sets = Freed(@)]

dummy_on_write_config(b) ==
    /\ "dummy" \in how.uses /\ dummy.current /\ dummy.counters # b
    /\ dummy' = [dummy EXCEPT !.counters = b]
    /\ UNCHANGED exps

Module ==
    /\ how.uses \cap {"dummy", "virtual"} # {}
    /\ \/ dummy_enable_module(TRUE)
       \/ dummy_disable_module
       \/ \E b \in BOOLEAN : dummy_on_write_config(b)
    /\ born' = {}
    /\ UNCHANGED <<how, prof, refs, oops>>

-----------------------------------------------------------------------------------
(* What a thread writes.                                                            *)

\* ran: last_cpu is a CPU.  late (ghost): something to count was asked for after
\* profiling was switched on.
NewProf ==
    [st |-> "alive", mode |-> "TBS_SCHED", sets |-> EmptySets, config |-> NULL,
     buffer |-> None, virt |-> FALSE, interval |-> FALSE, enabled |-> FALSE,
     self |-> FALSE, armed |-> FALSE, ran |-> FALSE, late |-> FALSE]
Unborn == [NewProf EXCEPT !.st = "unborn"]
Gone(p) == [NewProf EXCEPT !.st = "gone", !.armed = p.armed]

Init ==
    /\ how \in ConfigSetups
    /\ prof = [t \in Thread |-> IF t = First THEN NewProf ELSE Unborn]
    /\ LET built == configure_performance_counters_set(<<>>, how.strings)
       IN  /\ exps = built.exps
           /\ dummy = [current |-> TRUE, counters |-> FALSE, sets |-> built.sets]
    /\ refs = [t \in Thread |-> 0]
    /\ born = {}
    /\ oops = "none"

Calls(t) == /\ oops = "none"
            /\ prof[t].st = "alive"
            /\ born' = {}
\* Threads configure themselves before they start to profile, or after.
Configures(t) == Calls(t) /\ (prof[t].enabled => "late" \in how.uses)
IsLate(p) == p.enabled /\ (p.late \/ p.mode # "TBS_USER" \/ p.config = NULL)

\* Each thread allocates at most one buffer, on demand.
NeedsBuffer(t) == prof[t].buffer = None
BufferOf(t) == IF NeedsBuffer(t) THEN t ELSE prof[t].buffer
allocate_pmc_samples_buffer(t) == IF NeedsBuffer(t) THEN [refs EXCEPT ![t] = 1] ELSE refs

Refused(p, r) ==
    \/ HwpmcUsed
    \/ r.wide /\ r.ebs
    \/ p.mode = "EBS" /\ ~r.ebs
    \/ p.mode = "TBS_USER" /\ r.ebs

\* Out of memory, or perf refuses the event: the experiments are freed and a reference
\* to the new buffer is put, even if no buffer was needed and the pointer is NULL.
ConfigFails(t, r) ==
    /\ Configures(t)
    /\ ~Refused(prof[t], r)
    /\ oops' = IF NeedsBuffer(t) THEN "none" ELSE "refusal"
    /\ UNCHANGED <<how, prof, exps, refs, dummy>>

\* configure_performance_counters_thread: the experiments, which are those of a module
\* in TBS_SCHED_MODE, are replaced or added to.
UndoModuleConfig(p) ==
    IF p.mode = "TBS_SCHED" /\ p.config # NULL
    THEN [p EXCEPT !.sets = Freed(@), !.config = NULL]
    ELSE p

configure_performance_counters_thread(t, r) ==
    LET kind == [ebs |-> r.ebs, user |-> TRUE]
        old  == prof[t]
        p    == UndoModuleConfig(old)
        cts  == Targets(r.coretype)
        Exp(ct) == kmalloc(DOMAIN exps, t, ct, 1)
        new  == {Exp(ct) : ct \in cts}
        kept == DOMAIN exps \ (MembersOf(old.sets) \ MembersOf(p.sets))
        fits == \A ct \in cts : HasRoom(p.sets[ct])
    IN  /\ Configures(t)
        /\ ~Refused(old, r)
        /\ 0 \in Targets(r.coretype) \/ p.sets[0].nr > 0 \/ "types" \in how.hard
        /\ oops' = IF fits THEN "none" ELSE "strings"
        /\ refs' = allocate_pmc_samples_buffer(t)
        /\ IF ~fits THEN UNCHANGED <<prof, exps>>
           ELSE /\ exps' = [e \in kept \cup new |-> IF e \in new THEN kind ELSE exps[e]]
                /\ prof' = [prof EXCEPT ![t] = [p EXCEPT
                        !.mode = IF r.ebs THEN "EBS" ELSE "TBS_USER",
                        !.sets = [ct \in CoreType |-> IF ct \in cts
                                    THEN add_experiment_to_set(@[ct], Exp(ct), kind)
                                    ELSE @[ct]],
                        !.config = IF @ = NULL THEN Exp(IF 0 \in cts THEN 0 ELSE 1) ELSE @,
                        !.buffer = BufferOf(t),
                        !.late = IsLate(old)]]
        /\ UNCHANGED <<how, dummy>>

\* A virtual counter: dummy has none, the other module has.
configure_virtual_counters_thread(t) ==
    /\ Configures(t)
    /\ "virtual" \in how.uses /\ ~dummy.current
    /\ prof' = [prof EXCEPT ![t].mode = IF @ = "TBS_SCHED" /\ ~HwpmcUsed THEN "TBS_USER" ELSE @,
                            ![t].virt = TRUE,
                            ![t].buffer = BufferOf(t),
                            ![t].late = IsLate(prof[t])]
    /\ refs' = allocate_pmc_samples_buffer(t)
    /\ UNCHANGED <<how, exps, dummy, oops>>

SelfMonitoring(t, b) ==
    /\ Configures(t)
    /\ "settings" \in how.uses /\ prof[t].self # b
    /\ prof' = [prof EXCEPT ![t].self = b]
    /\ UNCHANGED <<how, exps, refs, dummy, oops>>

SetPeriod(t) ==
    /\ Configures(t)
    /\ "settings" \in how.uses
    /\ prof' = [prof EXCEPT ![t].interval = TRUE]
    /\ UNCHANGED <<how, exps, refs, dummy, oops>>

proc_pmc_config_write(t) ==
    \/ \E r \in how.requests :
            \/ configure_performance_counters_thread(t, r)
            \/ ConfigFails(t, r)
    \/ configure_virtual_counters_thread(t)
    \/ \E b \in BOOLEAN : SelfMonitoring(t, b)
    \/ SetPeriod(t)

\* The sets as the thread finds them on a CPU of type ct where it has not been before:
\* the first experiment has its turn, and the first time the thread is left without one
\* if there is none.  A sample on the way gives the next experiment of type from a turn.
SelectFrom(p, ct, s) ==
    LET next == get_cur_experiment_in_set(s)
    IN  [p EXCEPT !.sets[ct] = s, !.config = IF next = NULL THEN @ ELSE next]
EngageMultiplexing(p, ct) == SelectFrom(p, ct, get_next_experiment_in_set(p.sets[ct]))

FirstRun(p, ct) ==
    LET s == rewind_experiments_in_set(p.sets[ct])
    IN  IF p.config = NULL THEN [p EXCEPT !.ran = TRUE]
        ELSE [p EXCEPT !.ran = TRUE, !.sets[ct] = s, !.config = get_cur_experiment_in_set(s)]

Moved(p, from, ct) ==
    LET q == IF p.mode = "TBS_SCHED" THEN p ELSE EngageMultiplexing(p, from)
    IN  IF p.config = NULL THEN p
        ELSE SelectFrom(q, ct, rewind_experiments_in_set(q.sets[ct]))

\* mod_restore_callback_gen on a CPU of type ct; from: the type of the one before.
Restored(p, from, ct) ==
    IF Perf THEN p ELSE IF ~p.ran THEN FirstRun(p, ct) ELSE IF from = ct THEN p
    ELSE Moved(p, from, ct)

HasTurn(p, ct) == p.ran \/ p.config = NULL \/ p.sets[ct].nr > 0 \/ "types" \in how.hard

\* "ON": one second is the default period, and the thread goes on as if it had just been
\* switched in.
TurnOn(t, from, ct) ==
    /\ Calls(t)
    /\ HasTurn(prof[t], ct)
    /\ prof' = [prof EXCEPT ![t] = Restored([@ EXCEPT
                            !.enabled = TRUE,
                            !.interval = TRUE,
                            !.armed = @ \/ prof[t].mode = "TBS_USER",
                            !.buffer = BufferOf(t),
                            !.late = FALSE], from, ct)]
    /\ refs' = allocate_pmc_samples_buffer(t)
    /\ UNCHANGED <<how, exps, dummy, oops>>

\* The native build cancels no timer of a thread in TBS_USER_MODE.
prof_uses_timer(p) == IF Perf THEN p.mode \in {"TBS_USER", "TBS_SCHED"} ELSE p.mode = "TBS_SCHED"

TurnOff(t) ==
    /\ Calls(t)
    /\ prof' = [prof EXCEPT ![t].enabled = FALSE,
                            ![t].armed = @ /\ ~(prof_uses_timer(prof[t]) /\ prof[t].enabled)]
    /\ UNCHANGED <<how, exps, refs, dummy, oops>>

-----------------------------------------------------------------------------------
(* Birth and death.                                                                 *)

Inherits(p, newThread) == newThread /\ p.enabled /\ ~p.self

\* What the child gets from its parent, before the module is told of it.  short: out of
\* memory in the set of core type 0, which the native build does not notice.
Inherited(p, c, short) ==
    LET copies == IF p.config = NULL THEN EmptySets ELSE Clones(p.sets, c)
        sets   == IF short THEN [copies EXCEPT ![0] = CloneOutOfMemory(p.sets[0])] ELSE copies
    IN  [NewProf EXCEPT !.mode = p.mode, !.buffer = p.buffer, !.virt = p.virt,
                        !.interval = p.interval, !.enabled = TRUE,
                        !.sets = sets,
                        !.config = IF p.config = NULL THEN NULL
                                   ELSE get_cur_experiment_in_set(sets[0]),
                        !.armed = p.mode = "TBS_USER"]

dummy_on_fork(child, c) ==
    LET sets == Clones(dummy.sets, c)
    IN  [child EXCEPT !.sets = sets, !.config = get_cur_experiment_in_set(sets[0])]
GivesConfig(child) == HwpmcUsed /\ child.config = NULL

GetBuffer(b) == IF b = None THEN refs ELSE [refs EXCEPT ![b] = @ + 1]

Fork(p, c, newThread, short) ==
    LET inherits == Inherits(prof[p], newThread)
        child    == IF inherits THEN Inherited(prof[p], c, short) ELSE NewProf
        asks     == GivesConfig(child)
    IN  /\ oops = "none" /\ prof[p].st = "alive"
        /\ prof[c].st = "unborn"
        /\ short => /\ "memory" \in how.hard
                    /\ inherits /\ ~Perf /\ prof[p].sets[0].nr > 0
        /\ prof' = [prof EXCEPT ![c] = IF asks THEN dummy_on_fork(child, c) ELSE child]
        /\ exps' = IF asks THEN WithClones(dummy.sets, Clones(dummy.sets, c))
                   ELSE WithClones(prof[p].sets, child.sets)
        /\ refs' = IF inherits THEN GetBuffer(prof[p].buffer) ELSE refs
        /\ born' = {[parent |-> p, child |-> c, thread |-> newThread]}
        /\ UNCHANGED <<how, dummy, oops>>

\* No memory for the copies of the configuration of dummy, which frees them, or in the
\* perf build, where events can also be refused, for those of the parent's: the buffer is
\* put and the profile freed, with its timer, which perf has not started yet, as it is.
CloneFails(p, newThread) == Perf /\ Inherits(prof[p], newThread) /\ prof[p].config # NULL

ForkFails(p, c, newThread) ==
    LET child == IF Inherits(prof[p], newThread) THEN Inherited(prof[p], c, FALSE) ELSE NewProf
    IN  /\ Calls(p)
        /\ prof[c].st = "unborn"
        /\ \/ /\ CloneFails(p, newThread)
              /\ prof' = [prof EXCEPT ![c] = Gone(NewProf)]
           \/ /\ GivesConfig(child)
              /\ prof' = [prof EXCEPT ![c] = Gone(child)]
        /\ UNCHANGED <<how, exps, refs, dummy, oops>>

\* mod_exit_thread.
Exit(t) ==
    /\ Calls(t)
    /\ prof' = [prof EXCEPT ![t].st = "exited", ![t].buffer = None,
                            ![t].armed = @ /\ ~prof_uses_timer(prof[t])]
    /\ refs' = IF prof[t].buffer = None THEN refs ELSE [refs EXCEPT ![prof[t].buffer] = @ - 1]
    /\ UNCHANGED <<how, exps, dummy, oops>>

\* Seeded fault: only the experiments of the first core type are freed.
mod_free_per_thread_data_OneType(t) ==
    /\ oops = "none" /\ prof[t].st = "exited"
    /\ exps' = IF prof[t].config = NULL THEN exps ELSE Without(Members(prof[t].sets[0]))
    /\ prof' = [prof EXCEPT ![t] = Gone(@)]
    /\ born' = {}
    /\ UNCHANGED <<how, refs, dummy, oops>>

mod_free_per_thread_data(t) ==
    /\ oops = "none" /\ prof[t].st = "exited"
    /\ exps' = IF prof[t].config = NULL THEN exps ELSE Without(MembersOf(prof[t].sets))
    /\ prof' = [prof EXCEPT ![t] = Gone(@)]
    /\ born' = {}
    /\ UNCHANGED <<how, refs, dummy, oops>>

-----------------------------------------------------------------------------------
(* Experiments take turns when a sample is taken.                                   *)

\* The timer of TBS_USER_MODE; the perf build does not look whether there is anything
\* to count, nor whether the thread is still profiled.
TimerFires(t, ct) ==
    LET p == prof[t]
        samples == Perf \/ (p.enabled /\ p.config # NULL)
        rearms  == samples /\ p.mode = "TBS_USER" /\ p.enabled
    IN  /\ oops = "none" /\ p.st \in {"alive", "exited"} /\ p.armed
        /\ oops' = IF Perf /\ p.config = NULL THEN "timer" ELSE "none"
        /\ prof' = [prof EXCEPT ![t] = [(IF samples THEN EngageMultiplexing(p, ct) ELSE p)
                                            EXCEPT !.armed = rearms]]
        /\ born' = {}
        /\ UNCHANGED <<how, exps, refs, dummy>>

EbsSample(t, ct) ==
    /\ Calls(t)
    /\ prof[t].enabled /\ prof[t].mode = "EBS"
    /\ prof' = [prof EXCEPT ![t] = EngageMultiplexing(@, ct)]
    /\ UNCHANGED <<how, exps, refs, dummy, oops>>

\* mod_restore_callback.
SwitchIn(t, from, ct) ==
    /\ Calls(t)
    /\ prof[t].enabled
    /\ HasTurn(prof[t], ct)
    /\ prof' = [prof EXCEPT ![t] = Restored(@, from, ct)]
    /\ UNCHANGED <<how, exps, refs, dummy, oops>>

Types == IF "moves" \in how.uses THEN CoreType ELSE {0}

Step(t) ==
    \/ proc_pmc_config_write(t)
    \/ \E from, ct \in Types : TurnOn(t, from, ct) \/ SwitchIn(t, from, ct)
    \/ TurnOff(t)
    \/ Exit(t)
    \/ mod_free_per_thread_data(t)
    \/ \E c \in Thread, newThread, short \in BOOLEAN : Fork(t, c, newThread, short)
    \/ \E c \in Thread, newThread \in BOOLEAN : ForkFails(t, c, newThread)
    \/ \E ct \in Types : TimerFires(t, ct) \/ EbsSample(t, ct)

Next == Module \/ \E t \in Thread : Step(t)
Spec == Init /\ [][Next]_vars

-----------------------------------------------------------------------------------
(* Properties.                                                                      *)

TypeOK ==
    /\ prof \in [Thread -> pmon_prof_t]
    /\ DOMAIN exps \subseteq Id /\ \A e \in DOMAIN exps : exps[e] \in Kind
    /\ refs \in [Thread -> Nat]
    /\ dummy.sets \in [CoreType -> core_experiment_set_t]

Live == {t \in Thread : prof[t].st \in {"alive", "exited"}}
SetsOf(o) == IF o = "dummy" THEN dummy.sets ELSE prof[o].sets
Owners == {"dummy"} \cup Live

\* Every experiment in memory is in one slot of one set, and no set points to memory
\* that was freed: none leaks and none is freed twice, whoever configured it.
ExperimentsAreOwned ==
    LET places == {x \in Owners \X CoreType \X (1 .. MaxExps) :
                        SetsOf(x[1])[x[2]].exps[x[3]] # NULL}
        At(x) == SetsOf(x[1])[x[2]].exps[x[3]]
    IN  /\ {At(x) : x \in places} = DOMAIN exps
        /\ Cardinality(places) = Cardinality(DOMAIN exps)
        /\ \A x \in places : x[3] <= SetsOf(x[1])[x[2]].nr
        /\ \A o \in Owners, ct \in CoreType :
                SetsOf(o)[ct].nr = Cardinality({x \in places : x[1] = o /\ x[2] = ct})

\* The experiment a thread counts is one of its own, and a thread that has experiments
\* has one to count; each set has a current one.
CurrentIsOwn ==
    \A t \in Live :
        LET own == MembersOf(prof[t].sets) IN
        /\ IF own = {} THEN prof[t].config = NULL ELSE prof[t].config \in own
        /\ \A ct \in CoreType : prof[t].sets[ct].cur <= IF prof[t].sets[ct].nr = 0 THEN 1
                                                       ELSE prof[t].sets[ct].nr

\* A thread samples on events exactly if all its experiments do.
ModeFits ==
    \A t \in Live : \A e \in MembersOf(prof[t].sets) : exps[e].ebs <=> prof[t].mode = "EBS"

\* A thread profiled by time that has something to count has its timer running, with a
\* period, unless it asked for it when it was profiled already; and the perf build leaves
\* no timer of a profile that was freed.
TimersRun ==
    \A t \in Thread :
        /\ prof[t].st = "alive" /\ prof[t].enabled /\ prof[t].mode = "TBS_USER"
           /\ prof[t].config # NULL /\ ~prof[t].late => prof[t].armed /\ prof[t].interval
        /\ Perf /\ prof[t].st = "gone" => ~prof[t].armed

\* The references to a buffer are the threads that use it, and a thread that is profiled
\* has one.
BuffersAreHeld ==
    /\ \A b \in Thread : refs[b] = Cardinality({t \in Thread : prof[t].buffer = b})
    /\ \A t \in Thread : prof[t].st = "alive" /\ prof[t].enabled => prof[t].buffer # None

\* A new thread of a profiled thread counts what its parent counts, and in the same way.
ChildrenInherit ==
    \A b \in born :
        LET p == prof[b.parent]
            c == prof[b.child]
        IN  Inherits(p, b.thread) =>
                /\ <<c.mode, c.virt, c.buffer, c.interval, c.enabled>>
                        = <<p.mode, p.virt, p.buffer, p.interval, p.enabled>>
                /\ p.config # NULL => \A ct \in CoreType :
                        /\ c.sets[ct].nr = p.sets[ct].nr
                        /\ \A i \in 1 .. p.sets[ct].nr :
                                exps[c.sets[ct].exps[i]] = exps[p.sets[ct].exps[i]]

\* mchw_core.c, mc_experiments.h and monitoring_mod.c: whatever threads ask for and in
\* whatever order, before they profile or after, whichever request or, in the perf build,
\* fork is refused, and whichever module is current: what a thread is configured to
\* count is whole and its own, until a request is refused that needed no buffer or a set
\* has no room for one, and nothing else makes the kernel go wrong.  Only what "hard"
\* allows is left out.
ConfigIsSound ==
    /\ oops \in {"none", "refusal", "strings"}
    /\ TypeOK
    /\ ExperimentsAreOwned
    /\ CurrentIsOwn
    /\ ModeFits
    /\ TimersRun
    /\ BuffersAreHeld
    /\ ChildrenInherit

\* A thread counts either what a user has asked for or what a module has.  It need not:
\* a thread that dummy gave counters to asks for a virtual counter, and then for others.
ConfigOfOneOrigin ==
    \A t \in Live : \A e, f \in MembersOf(prof[t].sets) : exps[e].user = exps[f].user

\* Every string of the module is configured.
ModuleIsConfigured ==
    dummy.current => \A s \in ToSet(how.strings) : \A ct \in Targets(s.coretype) :
        Cardinality({i \in DOMAIN how.strings : ct \in Targets(how.strings[i].coretype)})
            = IF Perf THEN Len(dummy.sets[ct].configs) ELSE dummy.sets[ct].nr
==================================================================================
