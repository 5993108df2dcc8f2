------------------------------ MODULE EventSampling ------------------------------
(***********************************************************************************)
(* How a configuration string becomes counters that count the events of a thread,  *)
(* and how their overflows become samples (mchw_core.c, mc_experiments.c and the   *)
(* PMU backends).  In EBS_MODE one counter starts a window short of overflowing;   *)
(* its interrupt reads all the counters and pushes a sample.  The others overflow  *)
(* too, and each overflow is remembered until the counter is read.  When the       *)
(* thread leaves the CPU its counters are saved as they are, and put back when it  *)
(* returns.  In TBS mode the counters are read at every switch and at the tick.    *)
(* A thread that returns to a CPU of the other core type gets a sample of what was *)
(* accumulated, and the first experiment of that type from its beginning: in       *)
(* EBS_MODE what the saved counters hold is thrown away.                           *)
(*                                                                                 *)
(* The backend and the string are chosen at first, in setup.  What the thread has  *)
(* executed and not yet been told of is the ghost variable owed.                   *)
(***********************************************************************************)
EXTENDS HwEvents, FiniteSets

CONSTANTS
    EventSetups,    \* [arch, mode, strings, late, stray, busy]: see EventSetup
    MaxOwed,        \* bound on the events of a counter between two readings
    MaxMissed,      \* bound on the interrupts that the thread leaves behind
    CoreType        \* the types of core, as of 0

\* strings: the configuration of each experiment, and types: the core type it is for,
\* those of a type multiplexed in turn.  coretypes: those of the machine.  late: an
\* interrupt may be served after the thread has left.  stray: interrupts come that are
\* not of a counter.  busy: another CPU may hold the lock of the profile.
EventSetup == [arch : {"intel", "amd", "phi", "arm", "arm64", "perf"}, mode : {"EBS", "TBS"},
               strings : Seq(Seq([key : STRING, idx : Nat, val : Int])),
               types : Seq(CoreType), coretypes : SUBSET CoreType,
               late : BOOLEAN, stray : BOOLEAN, busy : BOOLEAN]

VARIABLES
    eventSetup, \* the machine and what the monitor asked for
    pmu,        \* the counters of the CPU
    pmi,        \* an overflow interrupt is to be served
    exps,       \* the experiments (core_experiment_t) of the thread
    cur,        \* pmcs_config: the one being counted; 0 if none is
    at,         \* cur_exp: the place of the experiment whose turn it is, of each type
    type,       \* the core type of last_cpu; -1 if the thread has not been switched in
    onCpu,      \* the thread runs
    acc,        \* pmc_values: counts read and not yet in a sample
    owed,       \* ghost: events executed by the thread that no sample has told of
    missed,     \* ghost: interrupts that were pending when the thread left
    dropped     \* ghost: a migration has thrown away counts
eventVars == <<eventSetup, pmu, pmi, exps, cur, at, type, onCpu, acc, owed, missed, dropped>>

Intel == INSTANCE PmuIntel
Amd   == INSTANCE PmuAmd
Phi   == INSTANCE PmuPhi
Arm   == INSTANCE PmuArm
Arm64 == INSTANCE PmuArm64
Perf  == INSTANCE PmuPerf

arch == eventSetup.arch

-----------------------------------------------------------------------------------
(* The backend that was compiled in.                                                *)

start_count(h, e) ==
    CASE arch = "intel" -> Intel!start_count(h, e) [] arch = "amd" -> Amd!start_count(h, e)
      [] arch = "phi" -> Phi!start_count(h, e)     [] arch = "arm" -> Arm!start_count(h, e)
      [] arch = "arm64" -> Arm64!start_count(h, e) [] arch = "perf" -> Perf!start_count(h, e)

restart_count(h, e) ==
    CASE arch = "intel" -> Intel!restart_count(h, e) [] arch = "amd" -> Amd!restart_count(h, e)
      [] arch = "phi" -> Phi!restart_count(h, e)     [] arch = "arm" -> Arm!restart_count(h, e)
      [] arch = "arm64" -> Arm64!restart_count(h, e) [] arch = "perf" -> Perf!restart_count(h, e)

stop_count(h, e) ==
    CASE arch = "intel" -> Intel!stop_count(h, e) [] arch = "amd" -> Amd!stop_count(h, e)
      [] arch = "phi" -> Phi!stop_count(h, e)     [] arch = "arm" -> Arm!stop_count(h, e)
      [] arch = "arm64" -> Arm64!stop_count(h, e) [] arch = "perf" -> Perf!stop_count(h, e)

clear_count(h, e) ==
    CASE arch = "intel" -> Intel!clear_count(h, e) [] arch = "amd" -> Amd!clear_count(h, e)
      [] arch = "phi" -> Phi!clear_count(h, e)     [] arch = "arm" -> Arm!clear_count(h, e)
      [] arch = "arm64" -> Arm64!clear_count(h, e) [] arch = "perf" -> Perf!clear_count(h, e)

read_count(h, e) ==
    CASE arch = "intel" -> Intel!read_count(h, e) [] arch = "amd" -> Amd!read_count(h, e)
      [] arch = "phi" -> Phi!read_count(h, e)     [] arch = "arm" -> Arm!read_count(h, e)
      [] arch = "arm64" -> Arm64!read_count(h, e) [] arch = "perf" -> Perf!read_count(h, e)

save_context(h, e) ==
    CASE arch = "intel" -> Intel!save_context(h, e)
      [] arch = "amd" -> Amd!save_context(h, e)
      [] arch = "phi" -> Phi!save_context(h, e)
      [] arch = "arm" -> Arm!save_context(h, e)
      [] arch = "arm64" -> Arm64!save_context(h, e)
      [] OTHER -> e

get_last_value(e) ==
    CASE arch = "intel" -> Intel!get_last_value(e)
      [] arch = "amd" -> Amd!get_last_value(e)
      [] arch = "phi" -> Phi!get_last_value(e)
      [] arch = "arm" -> Arm!get_last_value(e)
      [] arch = "arm64" -> Arm64!get_last_value(e)
      [] OTHER -> Perf!get_last_value(e)

get_reset_value(e) ==
    CASE arch = "intel" -> Intel!get_reset_value(e)
      [] arch = "amd" -> Amd!get_reset_value(e)
      [] arch = "phi" -> Phi!get_reset_value(e)
      [] arch = "arm" -> Arm!get_reset_value(e)
      [] arch = "arm64" -> Arm64!get_reset_value(e)
      [] OTHER -> e.reset

SelectOf(h, k) ==
    CASE arch = "intel" -> Intel!SelectOf(h, k) [] arch = "amd" -> Amd!SelectOf(h, k)
      [] arch = "phi" -> Phi!SelectOf(h, k)     [] arch = "arm" -> Arm!SelectOf(h, k)
      [] arch = "arm64" -> Arm64!SelectOf(h, k) [] arch = "perf" -> Perf!SelectOf(h, k)

reset_overflow_status(h) ==
    CASE arch = "intel" -> Intel!reset_overflow_status(h)
      [] arch = "phi" -> Phi!reset_overflow_status(h)
      [] arch = "arm" -> Arm!reset_overflow_status(h)
      [] arch = "arm64" -> Arm64!reset_overflow_status(h)
      [] OTHER -> h

mc_clear_all_platform_counters(h) ==
    CASE arch = "intel" -> Intel!mc_clear_all_platform_counters(h)
      [] arch = "amd" -> Amd!mc_clear_all_platform_counters(h)
      [] arch = "phi" -> Phi!mc_clear_all_platform_counters(h)
      [] arch = "arm" -> Arm!mc_clear_all_platform_counters(h)
      [] arch = "arm64" -> Arm64!mc_clear_all_platform_counters(h)
      [] OTHER -> h

Parsed(tokens, ebsAllowed) ==
    CASE arch \in {"intel", "amd"} -> Intel!parse_pmcs_strconfig(tokens, ebsAllowed)
      [] arch = "phi" -> Phi!parse_pmcs_strconfig(tokens, ebsAllowed)
      [] arch = "arm" -> Arm!parse_pmcs_strconfig(tokens, ebsAllowed)
      [] arch = "arm64" -> Arm64!parse_pmcs_strconfig(tokens, ebsAllowed)
      [] OTHER -> Perf!parse_pmcs_strconfig(tokens, ebsAllowed)

do_setup_pmcs(p) ==
    CASE arch = "intel" -> Intel!do_setup_pmcs(p) [] arch = "amd" -> Amd!do_setup_pmcs(p)
      [] arch = "phi" -> Phi!do_setup_pmcs(p)     [] arch = "arm" -> Arm!do_setup_pmcs(p)
      [] arch = "arm64" -> Arm64!do_setup_pmcs(p) [] arch = "perf" -> Perf!do_setup_pmcs(p)

-----------------------------------------------------------------------------------
(* Operations on an experiment x: the counters h of the CPU, and x itself.          *)

Each(op(_, _), h, x) ==
    FoldLeft(LAMBDA g, i : op(g, x.lle[i]), h, [i \in DOMAIN x.lle |-> i])

Kept(op(_, _), h, x) == [x EXCEPT !.lle = [i \in DOMAIN @ |-> op(h, @[i])]]

mc_restart_all_counters(h, x) ==
    [h |-> reset_overflow_status(Each(restart_count, h, x)),
     x |-> [x EXCEPT !.needSetup = FALSE]]

mc_stop_all_counters(h, x) == reset_overflow_status(Each(stop_count, h, x))

mc_clear_all_counters(h, x) == reset_overflow_status(Each(clear_count, h, x))

mc_save_all_counters(h, x) == [Kept(save_context, h, x) EXCEPT !.needSetup = FALSE]

\* Seeded fault: what had overflowed before is still there.
mc_restore_all_counters_FromReset(h, x) ==
    [h |-> reset_overflow_status(Each(restart_count, h, x)),
     x |-> [x EXCEPT !.needSetup = FALSE]]

mc_restore_all_counters(h, x) ==
    [h |-> reset_overflow_status(Each(start_count, h, x)),
     x |-> [x EXCEPT !.needSetup = FALSE]]

NoCounts(x) == [i \in DOMAIN x.lle |-> 0]

\* Stop, read and restart each counter, and add what it has overflowed.
do_count_mc_experiment(h, x) ==
    IF x.needSetup
    THEN mc_restart_all_counters(h, x) @@ [counts |-> NoCounts(x), ok |-> FALSE]
    ELSE LET read == Kept(read_count, h, x)
         IN  [h |-> reset_overflow_status(
                        Each(LAMBDA g, e : restart_count(stop_count(g, e), e), h, x)),
              x |-> [read EXCEPT !.nrOverflows = NoCounts(x)],
              counts |-> [i \in DOMAIN x.lle |->
                             get_last_value(read.lle[i]) + x.nrOverflows[i] * Modulus],
              ok |-> TRUE]

-----------------------------------------------------------------------------------
(* Overflow.                                                                        *)

\* What the handler of the backend finds to have overflowed, and the counters after it
\* has acknowledged it; Intel acknowledges when the overflows have been served.
HandleIrq(h) ==
    CASE arch = "intel" -> Intel!pmc_do_nmi_counter_overflow(h)
      [] arch = "amd" -> Amd!pmc_do_nmi_counter_overflow(h)
      [] arch = "phi" -> Phi!pmc_do_nmi_counter_overflow(h)
      [] arch = "arm" -> Arm!armv7pmu_handle_irq(h)
      [] arch = "arm64" -> Arm64!armv8pmu_handle_irq(h)
      [] OTHER -> [h |-> h, mask |-> {exps[cur].lle[exps[cur].ebs].phys}]

Rearmed(h) == IF arch = "intel" THEN reset_overflow_status(h) ELSE h

\* Seeded fault: the overflows of the other counters are forgotten.
update_overflow_status_non_ebs_pmcs_Ignores(x, mask) == x

\* Remember the overflows of the counters other than the one sampled on.
update_overflow_status_non_ebs_pmcs(x, mask) ==
    IF arch = "amd" THEN x
    ELSE [x EXCEPT !.nrOverflows = [i \in DOMAIN @ |->
              IF i # x.ebs /\ x.lle[i].phys \in mask THEN @[i] + 1 ELSE @[i]]]

EbsOverflowed(x, mask) ==
    IF arch = "amd" THEN Amd!OverflowedEbs(x) # {}
    ELSE x.ebs # 0 /\ x.lle[x.ebs].phys \in mask

\* The counter sampled on has counted a window more than it shows.
EbsSample(x, counts) ==
    IF arch = "perf" THEN counts
    ELSE [counts EXCEPT ![x.ebs] = @ + ((-get_reset_value(x.lle[x.ebs])) % Modulus)]

Told(o, counts) == [i \in DOMAIN o |-> o[i] - counts[i]]

-----------------------------------------------------------------------------------
(* The experiments of a core type take turns.                                       *)

Set(ct) == SelectSeq([j \in DOMAIN exps |-> j], LAMBDA j : eventSetup.types[j] = ct)

AtNext(ct) == IF arch = "perf" \/ Len(Set(ct)) <= 1 THEN at[ct] ELSE (at[ct] % Len(Set(ct))) + 1

get_next_experiment_in_set(ct) == IF Set(ct) = <<>> THEN 0 ELSE Set(ct)[AtNext(ct)]
rewind_experiments_in_set(ct) == IF Set(ct) = <<>> THEN 0 ELSE Set(ct)[1]

\* Program the counters of the CPU anew for experiment next, if it is another one.
TakeUp(s, next) ==
    IF next \in {0, s.cur} THEN s
    ELSE LET r == mc_restart_all_counters(mc_clear_all_platform_counters(s.h), s.exps[next])
         IN  [h |-> r.h, exps |-> [s.exps EXCEPT ![next] = r.x], cur |-> next]

\* do_count_on_overflow, called in the thread itself: push a sample when the counter
\* sampled on is among those that overflowed, and take up the next experiment.
do_count_on_overflow(h, mask) ==
    LET x    == update_overflow_status_non_ebs_pmcs(exps[cur], mask)
        read == do_count_mc_experiment(h, x)
        done == [h |-> read.h, exps |-> [exps EXCEPT ![cur] = read.x], cur |-> cur]
        next == IF read.ok THEN TakeUp(done, get_next_experiment_in_set(type)) ELSE done
    IN  IF ~EbsOverflowed(x, mask)
        THEN /\ pmu' = Rearmed(h) /\ exps' = [exps EXCEPT ![cur] = x]
             /\ UNCHANGED <<cur, at, owed>>
        ELSE /\ owed' = IF read.ok
                        THEN [owed EXCEPT ![cur] = Told(@, EbsSample(x, read.counts))]
                        ELSE owed
             /\ at' = IF read.ok THEN [at EXCEPT ![type] = AtNext(type)] ELSE at
             /\ pmu' = Rearmed(next.h) /\ exps' = next.exps /\ cur' = next.cur

Interrupt ==
    /\ pmi /\ pmi' = FALSE
    /\ LET irq == HandleIrq(pmu)
       IN  IF onCpu /\ cur # 0 /\ irq.mask # {} THEN do_count_on_overflow(irq.h, irq.mask)
           ELSE /\ pmu' = Rearmed(IF onCpu THEN irq.h ELSE mc_clear_all_platform_counters(irq.h))
                /\ UNCHANGED <<exps, cur, at, owed>>
    /\ UNCHANGED <<eventSetup, type, onCpu, acc, missed, dropped>>

\* The callback of perf gives up when the lock of the profile is taken.
InterruptGivesUp ==
    /\ pmi /\ pmi' = FALSE /\ arch = "perf" /\ eventSetup.busy
    /\ UNCHANGED <<eventSetup, pmu, exps, cur, at, type, onCpu, acc, owed, missed, dropped>>

\* Non-maskable interrupts that no counter has raised.
StrayInterrupt ==
    /\ eventSetup.stray /\ ~pmi /\ pmi' = TRUE
    /\ UNCHANGED <<eventSetup, pmu, exps, cur, at, type, onCpu, acc, owed, missed, dropped>>

-----------------------------------------------------------------------------------
(* The thread leaves the CPU, returns, and is sampled.                              *)

\* Interrupts wait while they are disabled, as they are during a switch.
Served == ~pmi \/ (eventSetup.late /\ missed < MaxMissed)

Added(counts) == [i \in DOMAIN acc |-> acc[i] + IF i \in DOMAIN counts THEN counts[i] ELSE 0]
NoneRead == [i \in 1 .. MaxLlExps |-> 0]

SwitchOut ==
    /\ onCpu /\ Served /\ onCpu' = FALSE
    /\ missed' = IF pmi THEN missed + 1 ELSE missed
    /\ IF cur = 0 \/ arch = "perf" THEN UNCHANGED <<pmu, exps, acc>>
       ELSE LET x    == exps[cur]
                read == do_count_mc_experiment(pmu, x)
            IN  \/ /\ eventSetup.mode = "EBS"
                   /\ exps' = [exps EXCEPT ![cur] = IF x.needSetup THEN x
                                                    ELSE mc_save_all_counters(pmu, x)]
                   /\ pmu' = mc_stop_all_counters(pmu, x)
                   /\ acc' = acc
                \/ /\ eventSetup.mode = "TBS"
                   /\ exps' = [exps EXCEPT ![cur] = read.x]
                   /\ pmu' = mc_stop_all_counters(read.h, read.x)
                   /\ acc' = Added(read.counts)
    /\ UNCHANGED <<eventSetup, pmi, cur, at, type, owed, dropped>>

\* What the saved counters of an experiment hold.
Saved(x) == [i \in DOMAIN x.lle |-> IF eventSetup.mode = "TBS" THEN 0
                                    ELSE (x.lle[i].new - x.lle[i].reset) % Modulus]

\* The thread comes to a CPU of another type: a sample tells of what was accumulated,
\* and the next experiment of the type it leaves is taken up, then the first of the
\* type it comes to.
Migrates(ct) ==
    LET here == [h |-> pmu, exps |-> exps, cur |-> cur]
        s    == TakeUp(TakeUp(here, get_next_experiment_in_set(type)),
                       rewind_experiments_in_set(ct))
    IN  /\ pmu' = s.h /\ exps' = s.exps /\ cur' = s.cur
        /\ at' = [at EXCEPT ![type] = AtNext(type), ![ct] = 1]
        /\ owed' = [owed EXCEPT ![cur] = IF s.cur = cur THEN Told(@, acc)
                                         ELSE Told(Told(@, acc), Saved(exps[cur]))]
        /\ dropped' = (dropped \/ \E i \in DOMAIN exps[cur].lle : Saved(exps[cur])[i] # 0)
        /\ acc' = NoneRead

Restores ==
    LET x == exps[cur]
        r == IF eventSetup.mode = "EBS" THEN mc_restore_all_counters(pmu, x)
             ELSE mc_restart_all_counters(mc_clear_all_counters(pmu, x), x)
    IN  /\ pmu' = r.h /\ exps' = [exps EXCEPT ![cur] = r.x]
        /\ UNCHANGED <<cur, at, acc, owed, dropped>>

SwitchIn(ct) ==
    /\ ~onCpu /\ type # -1 /\ onCpu' = TRUE /\ type' = ct
    /\ IF arch = "perf" \/ cur = 0 THEN UNCHANGED <<pmu, exps, cur, at, acc, owed, dropped>>
       ELSE IF ct # type THEN Migrates(ct) ELSE Restores
    /\ UNCHANGED <<eventSetup, pmi, missed>>

\* The first time, the first experiment of the type is programmed on a clear CPU; the
\* thread is left without one if the type has none.
FirstSwitchIn(ct) ==
    /\ ~onCpu /\ type = -1 /\ onCpu' = TRUE /\ type' = ct
    /\ LET clear == [h |-> mc_clear_all_platform_counters(pmu), exps |-> exps, cur |-> 0]
           s     == TakeUp(clear, rewind_experiments_in_set(ct))
       IN  IF arch = "perf"
           THEN pmu' = Perf!perf_enable_counters(pmu, exps[1]) /\ exps' = exps /\ cur' = 1
           ELSE pmu' = s.h /\ exps' = s.exps /\ cur' = s.cur
    /\ at' = [at EXCEPT ![ct] = 1]
    /\ UNCHANGED <<eventSetup, pmi, acc, owed, missed, dropped>>

\* The sampling period ends: the tick of the thread, or the timer.
Sample ==
    /\ eventSetup.mode = "TBS" /\ cur # 0 /\ Served
    /\ onCpu \/ arch = "perf"
    /\ LET read == do_count_mc_experiment(pmu, exps[cur])
       IN  /\ pmu' = read.h /\ exps' = [exps EXCEPT ![cur] = read.x]
           /\ owed' = [owed EXCEPT ![cur] = Told(@, Added(read.counts))]
    /\ acc' = NoneRead
    /\ UNCHANGED <<eventSetup, pmi, cur, at, type, onCpu, missed, dropped>>

-----------------------------------------------------------------------------------
(* What the thread executes, and the other threads of the CPU.                      *)

\* The modes of execution the string asks counter k to be counted in.
Wanted(tokens, k) ==
    LET Flags(key) == SelectSeq(tokens, LAMBDA t : t.key = key /\ t.idx = k)
        Asked(key, default) ==
            IF Flags(key) = <<>> THEN default ELSE Last(Flags(key)).val \in {NoVal, 1}
    IN  {m \in Mode : \/ m = "user" /\ Asked("usr", TRUE)
                      \/ m = "kernel" /\ Asked("os", FALSE) /\ Flags("ebs") = <<>>}

ModulusOf == IF arch = "perf" THEN PerfModulus ELSE Modulus

\* Some events of the experiment occur at once, in mode m.
Execute(m, S) ==
    LET x       == exps[cur]
        counted == {x.lle[i].phys : i \in {j \in S : m \in SelectOf(pmu, x.lle[j].phys).modes}}
        val     == [k \in Phys |-> IF k \in counted THEN (pmu.val[k] + 1) % ModulusOf
                                   ELSE pmu.val[k]]
        wrapped == {k \in counted : IF arch = "perf"
                                    THEN \E i \in S : x.lle[i].phys = k /\ i = x.ebs
                                            /\ val[k] % x.lle[i].reset = 0
                                    ELSE val[k] = 0}
    IN  /\ pmu' = [pmu EXCEPT !.val = val,
                              !.status = IF arch \in {"amd", "perf"} THEN @ ELSE @ \cup wrapped]
        /\ pmi' = (pmi \/ \E k \in wrapped : SelectOf(pmu, k).int)
        /\ owed' = [owed EXCEPT ![cur] = [i \in DOMAIN @ |->
               IF /\ i \in S /\ eventSetup.types[cur] = type
                  /\ m \in Wanted(eventSetup.strings[cur], x.lle[i].phys)
               THEN @[i] + 1 ELSE @[i]]]

Executes ==
    /\ onCpu /\ cur # 0 /\ Served
    /\ \A i \in DOMAIN owed[cur] : owed[cur][i] < MaxOwed + Modulus * missed
    /\ \E m \in Mode, S \in SUBSET DOMAIN exps[cur].lle : S # {} /\ Execute(m, S)
    /\ UNCHANGED <<eventSetup, exps, cur, at, type, onCpu, acc, missed, dropped>>

\* Other monitored threads leave the counters stopped, with anything in them.
OthersRun ==
    /\ ~onCpu /\ arch # "perf"
    /\ \E v \in {0, Modulus - 1} : pmu' = [pmu EXCEPT !.val = [k \in Phys |-> v]]
    /\ UNCHANGED <<eventSetup, pmi, exps, cur, at, type, onCpu, acc, owed, missed, dropped>>

-----------------------------------------------------------------------------------
Init ==
    /\ eventSetup \in EventSetups
    /\ \A s \in ToSet(eventSetup.strings) :
           LET p == Parsed(s, eventSetup.mode = "EBS")
           IN  ~p.error /\ (eventSetup.mode = "EBS" => p.ebs # -1)
    /\ exps = [j \in DOMAIN eventSetup.strings |->
                  do_setup_pmcs(Parsed(eventSetup.strings[j], eventSetup.mode = "EBS"))]
    /\ pmu = [val |-> [k \in Phys |-> 0], ctrl |-> NoCtrl, enabled |-> {}, status |-> {},
              sel |-> IF arch = "perf"
                      THEN [k \in Phys |-> IF \E i \in DOMAIN exps[1].lle : exps[1].lle[i].phys = k
                                           THEN exps[1].lle[CHOOSE i \in DOMAIN exps[1].lle :
                                                    exps[1].lle[i].phys = k].ctl
                                           ELSE Off]
                      ELSE NoCtrl]
    /\ pmi = FALSE /\ cur = 0 /\ at = [ct \in CoreType |-> 1] /\ type = -1 /\ onCpu = FALSE
    /\ acc = NoneRead /\ missed = 0 /\ dropped = FALSE
    /\ owed = [j \in DOMAIN exps |-> NoCounts(exps[j])]

Next ==
    \/ \E ct \in eventSetup.coretypes : FirstSwitchIn(ct) \/ SwitchIn(ct)
    \/ SwitchOut \/ Sample
    \/ Interrupt \/ InterruptGivesUp \/ StrayInterrupt
    \/ Executes \/ OthersRun

Spec == Init /\ [][Next]_eventVars

-----------------------------------------------------------------------------------
(* Properties.                                                                      *)

\* Does an overflow of event e always reach do_count_on_overflow?
Interrupting(e) ==
    CASE arch = "intel" -> Intel!IsFixed(e.phys) => e.ctl[e.phys].int
      [] arch = "amd" -> e.ctl.int
      [] arch \in {"arm", "arm64"} -> e.phys # 0
      [] OTHER -> TRUE

\* What counter i of experiment j holds of the events that are owed; of an experiment
\* that is not counted only the overflows are kept.
Held(j, i) ==
    LET x == exps[j]
        e == x.lle[i]
        v == IF onCpu \/ arch = "perf" THEN pmu.val[e.phys]
             ELSE IF eventSetup.mode = "EBS" THEN e.new ELSE e.reset
    IN  (IF arch = "perf" THEN 0 ELSE x.nrOverflows[i] * Modulus)
        + (IF j # cur THEN 0
           ELSE acc[i] + IF arch = "perf" THEN (v - e.new) % PerfModulus
                         ELSE (v - e.reset) % Modulus)

\* do_count_mc_experiment, do_count_on_overflow, mod_restore_callback_gen and the context
\* of the counters (mchw_core.c, mc_experiments.c): at any moment what the samples have
\* told, what a migration has thrown away and what the counters hold is exactly what
\* the thread has executed, on the core type of the experiment and in the modes its
\* string asks for.  Each interrupt that was pending when the thread left costs a
\* counter at most its width, and a counter whose overflow interrupts nobody is exact
\* up to its width.
CountsAreExact ==
    ~pmi => \A j \in DOMAIN exps : \A i \in DOMAIN exps[j].lle :
        LET lost == owed[j][i] - Held(j, i)
        IN  IF Interrupting(exps[j].lle[i]) THEN lost \in {n * Modulus : n \in 0 .. missed}
            ELSE lost % Modulus = 0

\* do_setup_pmcs and do_count_on_overflow: in EBS_MODE the thread never executes more
\* than a window of the event it is sampled on without a sample being taken, unless an
\* interrupt finds the profile locked; an interrupt that it leaves behind delays the
\* sample by the width of the counter.
EbsIsPunctual ==
    (~pmi /\ eventSetup.mode = "EBS" /\ ~eventSetup.busy /\ cur # 0) =>
        LET e == exps[cur].lle[exps[cur].ebs]
        IN  owed[cur][exps[cur].ebs] < IF arch = "perf" THEN e.reset
                                       ELSE ((-e.reset) % Modulus) + missed * Modulus

\* mod_restore_callback_gen: a thread on a CPU of the core type of its experiment is
\* counted, whatever types it has been to.
CountsRun ==
    onCpu /\ cur # 0 /\ eventSetup.types[cur] = type =>
        \A i \in DOMAIN exps[cur].lle : SelectOf(pmu, exps[cur].lle[i].phys) # Off
==================================================================================
