------------------------------- MODULE MCCounters -------------------------------
(* The core of the kernel module, each component by itself: how counters are         *)
(* programmed and sampled, with every backend of the PMU; what threads are configured *)
(* to count; and how the module is loaded and unloaded.  The first step chooses one;  *)
(* the others stay as they are.                                                       *)
EXTENDS EventSampling, ModuleLoad

CONSTANTS
    Thread, First, MaxExps, MaxLost                                     \* CounterConfig

VARIABLES
    subject,    \* "events", "config" or "load"
    how, profile, memory, bufferRefs, dummy, born, oops

-----------------------------------------------------------------------------------
(* Configuration strings: counters, flags of counter idx, and flags without a value.  *)

F(key, idx, val) == [key |-> key, idx |-> idx, val |-> val]
P(idx) == F("pmc", idx, 0)
User(idx) == F("usr", idx, NoVal)
Kernel(idx) == F("os", idx, NoVal)
OnEvent(idx) == F("ebs", idx, NoVal)

Setup(a, m, strings) == [arch |-> a, mode |-> m, strings |-> strings,
                         types |-> [j \in DOMAIN strings |-> 0], coretypes |-> {0},
                         late |-> FALSE, stray |-> FALSE, busy |-> FALSE]
TwoTypes(s, types) == [s EXCEPT !.types = types, !.coretypes = {0, 1}]
Stray(s) == [s EXCEPT !.stray = TRUE]
Busy(s) == [s EXCEPT !.busy = TRUE]
Late(s) == [s EXCEPT !.late = TRUE]

McEventSetups == {
    Stray(Setup("intel", "EBS", <<<<P(0), User(0), P(2), User(2), OnEvent(2)>>>>)),
    Setup("intel", "EBS", <<<<P(0), F("ebs", 0, 3), P(1), F("os", 1, 1)>>,
                            <<P(2), OnEvent(2), P(3)>>>>),
    Setup("intel", "TBS", <<<<P(0), F("os", 0, 0), P(1), F("usr", 1, NoVal)>>>>),
    Setup("intel", "TBS", <<<<P(0), User(0), P(2), F("os", 2, 1)>>>>),
    Setup("amd", "EBS", <<<<P(0), P(1), OnEvent(1)>>>>),
    Setup("amd", "TBS", <<<<P(0), P(1), Kernel(1)>>>>),
    Setup("phi", "EBS", <<<<P(0), OnEvent(0)>>>>),
    Setup("phi", "TBS", <<<<P(0), Kernel(0)>>>>),
    Setup("arm", "EBS", <<<<P(1), OnEvent(1), F("usr", 1, 1), P(2)>>>>),
    Setup("arm64", "EBS", <<<<P(1), F("usr", 1, 1), F("os", 1, 0), P(2), OnEvent(2)>>>>),
    Setup("arm64", "TBS", <<<<P(0), F("os", 0, 1), P(1), F("os", 1, 1)>>>>),
    Busy(Setup("perf", "EBS", <<<<P(0), F("ebs", 0, 4), P(1)>>>>)),
    Setup("perf", "EBS", <<<<P(0), F("ebs", 0, 4), P(1)>>>>),
    Setup("perf", "TBS", <<<<P(0), P(1), Kernel(1)>>>>),
    TwoTypes(Setup("arm", "EBS", <<<<P(1), OnEvent(1), P(2)>>, <<P(2), OnEvent(2)>>>>), <<0, 1>>),
    TwoTypes(Setup("intel", "EBS", <<<<P(2), OnEvent(2)>>, <<P(3), OnEvent(3)>>,
                                     <<P(2), OnEvent(2)>>>>), <<1, 0, 1>>),
    TwoTypes(Setup("arm64", "TBS", <<<<P(1)>>, <<P(2)>>, <<P(1)>>>>), <<0, 0, 1>>),
    Late(Setup("intel", "EBS", <<<<P(2), P(3), OnEvent(3)>>>>)),
    Late(Setup("arm64", "EBS", <<<<P(1), OnEvent(1)>>>>))}

\* Setups in which counts are lost: a second counter on the Xeon Phi, whose overflows
\* are counted twice; interrupts of others on AMD, which are taken for overflows; and a
\* thread that has something to count on one of two core types only.
McTwoOnPhi == {Setup("phi", "EBS", <<<<P(0), P(1), OnEvent(1)>>>>)}
McOneType == {TwoTypes(Setup("arm", "EBS", <<<<P(1), OnEvent(1)>>>>), <<0>>)}
McStrayOnAmd == {Stray(Setup("amd", "EBS", <<<<P(0), P(1), OnEvent(1)>>>>))}

-----------------------------------------------------------------------------------
(* What threads are configured to count: what the module asks for, and what threads  *)
(* do.  Each string is of one core type, or of all (-1).                             *)

ModuleString(ebs, coretype) == [ebs |-> ebs, coretype |-> coretype]
Request(ebs, coretype, wide) == [ebs |-> ebs, coretype |-> coretype, wide |-> wide]
ConfigSetup(build, strings, requests, uses) ==
    [build |-> build, strings |-> strings, requests |-> requests, uses |-> uses, hard |-> {}]
Hard(s, what) == [s EXCEPT !.hard = {what}]

ByTime == Request(FALSE, -1, FALSE)
ByEvent == Request(TRUE, -1, FALSE)
AllTypes == <<ModuleString(FALSE, -1)>>
WithModule == ConfigSetup("native", AllTypes, {ByTime, ByEvent}, {"dummy"})
WithVirtual == ConfigSetup("native", AllTypes, {ByTime}, {"dummy", "virtual"})
LateVirtual == [WithVirtual EXCEPT !.uses = {"virtual", "late"}]
OnPerf == ConfigSetup("perf", <<ModuleString(FALSE, 0)>>,
                      {Request(FALSE, 0, FALSE), Request(TRUE, 0, FALSE)}, {"settings", "late"})
PerType == ConfigSetup("native", AllTypes, {Request(FALSE, 0, FALSE), Request(FALSE, 1, FALSE),
                                            Request(TRUE, 0, TRUE)}, {"late", "moves"})
McConfigSetups == {WithModule, WithVirtual, LateVirtual, OnPerf, PerType}

\* Setups in which a configuration is not sound: memory runs out in a native fork, a
\* thread that counts on one core type only runs first on the other or has a child, and
\* in the perf build a module that uses counters or a thread that uses virtual ones only;
\* and the module with three strings of the Core 2 Duo.
McOutOfMemory == {Hard(WithModule, "memory")}
McOtherType == {Hard(PerType, "types")}
McModuleOnPerf == {[OnPerf EXCEPT !.uses = {"dummy"}]}
McVirtualOnPerf == {[OnPerf EXCEPT !.uses = {"virtual"}]}
McThreeStrings == {ConfigSetup("native", <<ModuleString(FALSE, 0), ModuleString(FALSE, 1),
                                           ModuleString(FALSE, 1)>>, {}, {})}

CF == INSTANCE CounterConfig WITH prof <- profile, exps <- memory, refs <- bufferRefs,
                                  ConfigSetups <- McConfigSetups

-----------------------------------------------------------------------------------
(* How the module is loaded, and which step fails.                                   *)

LoadSetup(build, processor, fails) ==
    [build |-> build, arch |-> processor, fails |-> fails, preempts |-> FALSE]
Preempts(s) == [s EXCEPT !.preempts = TRUE]
McLoadSetups ==
    {LoadSetup("unpatched", processor, fails) : processor \in {"x86", "arm"},
        fails \in {"none", "pmu", "sched_process_exit", "scheduler_tick", "copy_semundo",
                   "registered", "dir"}}
    \cup {LoadSetup("patched", "arm", fails) : fails \in {"none", "registered", "dir"}}
    \cup {LoadSetup("patched", "x86", fails) :
             fails \in {"pmu", "intel_thermal_interrupt", "registered", "dir"}}
    \cup {Preempts(LoadSetup("patched", "arm", "none"))}

\* Setups in which loading or unloading goes wrong: a patched x86 kernel, whose hooks
\* stay; a late step that fails; and kernels that preempt.
McHooksStay == {LoadSetup("patched", "x86", "none")}
McManagerFails == {LoadSetup("unpatched", "x86", "manager")}
McEntriesFail == {LoadSetup("unpatched", "x86", "entries")}
McPreemptedFailure == {Preempts(LoadSetup("patched", "arm", "dir"))}
McPreemptedFork == {Preempts(LoadSetup("unpatched", "x86", "none"))}

-----------------------------------------------------------------------------------
configVars == <<how, profile, memory, bufferRefs, dummy, born, oops>>

Unused == "unused"
EventsUnused == /\ eventSetup = Unused /\ pmu = Unused /\ pmi = Unused /\ exps = Unused
                /\ cur = Unused /\ at = Unused /\ type = Unused /\ onCpu = Unused
                /\ acc = Unused /\ owed = Unused /\ missed = Unused /\ dropped = Unused
ConfigUnused == /\ how = Unused /\ profile = Unused /\ memory = Unused /\ bufferRefs = Unused
                /\ dummy = Unused /\ born = Unused /\ oops = Unused
LoadUnused == /\ LoadInit /\ load = CHOOSE s \in LoadSetups : TRUE
              /\ task = [t \in Caller |-> "alive"]

CountersInit ==
    \/ subject = "events" /\ Init /\ ConfigUnused /\ LoadUnused
    \/ subject = "config" /\ CF!Init /\ EventsUnused /\ LoadUnused
    \/ subject = "load" /\ LoadInit /\ EventsUnused /\ ConfigUnused

CountersNext ==
    /\ UNCHANGED subject
    /\ \/ subject = "events" /\ Next /\ UNCHANGED <<configVars, loadVars>>
       \/ subject = "config" /\ CF!Next /\ UNCHANGED <<eventVars, loadVars>>
       \/ subject = "load" /\ LoadNext /\ UNCHANGED <<eventVars, configVars>>

CountersSpec == CountersInit /\ [][CountersNext]_<<subject, eventVars, configVars, loadVars>>

-----------------------------------------------------------------------------------
\* EventSampling: every event of a counter is in a sample, in the accumulated counts or
\* still in the counter, and in one of them.
EventCountsAreExact == subject = "events" => CountsAreExact

\* EventSampling: a sample on events is taken when, and each time, the events asked for
\* have happened.
SamplingIsPunctual == subject = "events" => EbsIsPunctual

\* mchw_core.c, mc_experiments.h and monitoring_mod.c: what a thread is configured to
\* count is whole, its own, and what its parent's or its module's was.
ConfigIsSound == subject = "config" => CF!ConfigIsSound

\* sample_counters_user_tbs, "This is to handle migration samples correctly !!"
\* (mchw_core.c:658): the sample of a migration tells of what was counted before it.
MigrationSamplesTell == subject = "events" => ~dropped

\* mod_restore_callback_gen, "Always engage multiplexation and clear counts (start from
\* the beginning)" (mchw_core.c:1009): a thread that has something to count on the core
\* type it runs on is counted.
MigrationStartsCounts == subject = "events" => CountsRun

\* configure_performance_counters_thread, "Free memory in case of failure"
\* (mchw_core.c:2873): a request that is refused leaves the kernel as it was.
RefusalIsClean == subject = "config" => oops # "refusal"
=================================================================================
