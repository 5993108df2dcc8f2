------------------------------ MODULE ThreadCounting ------------------------------
(***********************************************************************************)
(* How PMCTrack counts the events of one thread (mchw_core.c).  The kernel calls   *)
(* the save callback when the thread leaves a CPU, the restore callback when it    *)
(* gets one, and the tick callback while it runs; in TBS_USER_MODE a timer takes   *)
(* the samples.  The counters belong to the CPU and are shared with every other    *)
(* thread, so each callback has to read, clear and reprogram them at the right     *)
(* moment for the counts of the thread to be its own, and to be those of the       *)
(* experiment (the set of events) the sample names.                                *)
(*                                                                                 *)
(* An experiment is modelled as one counter, since all the counters of an          *)
(* experiment are programmed, stopped, read and cleared together.  A counter       *)
(* remembers how many events of the thread it has counted and the provenance       *)
(* ("tags") of whatever it has counted.  CPUs are of two core types, 0 and 1, each *)
(* with its own list of experiments to multiplex.                                  *)
(*                                                                                 *)
(* The machine and what the monitor asked for are a record, setup, chosen at first *)
(* and never changed.                                                              *)
(***********************************************************************************)
EXTENDS Integers, FiniteSets

CONSTANTS
    Cpu,            \* the CPUs
    Setups,         \* the machines and requests considered
    MaxSessions,    \* bound on the times a monitor attaches to the thread
    MaxEvents       \* bound on the events of the thread in a session

Setup == [bigCpu : SUBSET Cpu,              \* the CPUs of core type 1
          nrExps : [{0, 1} -> Nat \ {0}],   \* number of experiments of each core type
          mode : {"TBS_SCHED_MODE", "TBS_USER_MODE"},
          nticks : Nat \ {0},               \* nticks_sampling_period
          wakes : BOOLEAN]  \* may a thread that was seen asleep wake up meanwhile?

ASSUME ConfigAssumption ==
    /\ Cpu \subseteq Nat
    /\ Setups \subseteq Setup
    /\ MaxSessions \in Nat \ {0} /\ MaxEvents \in Nat

VARIABLES
    setup,      \* the machine and what the monitor asked for
    at,         \* the CPU the thread runs on, or Off
    alive,      \* the thread has not exited
    prof,       \* its pmon_prof_t
    hw,         \* the counter of each CPU
    call,       \* a function about to operate on the thread, seen asleep
    sample,     \* the last sample pushed into the buffer
    executed,   \* events of the thread in this session since its counters were set up
    delivered   \* events in the samples of this session
vars == <<setup, at, alive, prof, hw, call, sample, executed, delivered>>

CoreType(c) == IF c \in setup.bigCpu THEN 1 ELSE 0
Experiment == UNION {{ct} \X (0 .. setup.nrExps[ct] - 1) : ct \in {0, 1}}
NoExp == <<>>               \* a NULL pmcs_config: the empty per-CPU default is used
Off   == -1                 \* no CPU
Other == <<"other">>        \* what another monitored thread programs
Alien == [session |-> 0, exp |-> Other, coretype |-> 0]

Tag == [session : 0 .. MaxSessions, exp : Experiment \cup {Other}, coretype : {0, 1}]
Counter == [exp : Experiment \cup {Other, NoExp}, on : BOOLEAN,
            n : 0 .. MaxSessions * MaxEvents, tags : SUBSET Tag]
Counts == [n : 0 .. MaxSessions * MaxEvents, tags : SUBSET Tag]
NoCounts == [n |-> 0, tags |-> {}]
NoSample == [session |-> 0, exp |-> NoExp, coretype |-> 0, n |-> 0, tags |-> {}]
Sample == [session : 1 .. MaxSessions, exp : Experiment, coretype : {0, 1},
           n : 0 .. MaxSessions * MaxEvents, tags : SUBSET Tag]
Op == {"timer", "attach", "detach"}
Call == [op : Op, cpu : Cpu]
NoCall == [op |-> "none", cpu |-> Off]
Prof == [enabled : BOOLEAN, buffer : BOOLEAN, cfg : Experiment \cup {NoExp},
         curExp : [{0, 1} -> Nat], needSetup : [Experiment -> BOOLEAN],
         values : Counts, lastCpu : Cpu \cup {Off}, ticks : 0 .. setup.nticks - 1,
         prepare : BOOLEAN, due : BOOLEAN, armed : BOOLEAN, session : 0 .. MaxSessions]

-----------------------------------------------------------------------------------
(* Operations on the counters of the CPU.  A handler is a function of a record s: *)
(* the profile p, the counter h of the CPU it executes on, and the sample out.    *)

mc_clear_all_counters(s) == [s EXCEPT !.h.on = FALSE, !.h.n = 0, !.h.tags = {}]

mc_stop_all_counters(s) == [s EXCEPT !.h.on = FALSE]

mc_restart_all_counters(s, e) ==
    IF e = NoExp
    THEN s
    ELSE [s EXCEPT !.h = [exp |-> e, on |-> TRUE, n |-> 0, tags |-> {}],
                   !.p.needSetup[e] = FALSE]

\* Reading stops the counter, adds it to the thread's counts and restarts it, except
\* the first time, when whatever the counter holds is not of this experiment.
do_count_mc_experiment(s, e) ==
    IF e = NoExp \/ s.p.needSetup[e]
    THEN mc_restart_all_counters(s, e)
    ELSE mc_restart_all_counters(
             [s EXCEPT !.p.values = [n |-> @.n + s.h.n, tags |-> @.tags \cup s.h.tags]], e)

ExpOf(ct, i) == <<ct, i>>

rewind_experiments_in_set(s, ct) == [s EXCEPT !.p.curExp[ct] = 0]

get_next_experiment_in_set(s, ct) ==
    [s EXCEPT !.p.curExp[ct] = IF setup.nrExps[ct] > 1 THEN (@ + 1) % setup.nrExps[ct] ELSE @]

\* Copy and clear the counts of the profile, and push them if there is a buffer.
PushSample(s, ct) ==
    [s EXCEPT !.out = IF s.p.buffer
                      THEN [session |-> s.p.session, exp |-> s.p.cfg, coretype |-> ct,
                            n |-> s.p.values.n, tags |-> s.p.values.tags]
                      ELSE NoSample,
              !.p.values = NoCounts]

-----------------------------------------------------------------------------------
(* Sampling.                                                                        *)

\* Seeded fault: the experiment to count next is chosen, but not programmed.
EngageMultiplexing_Forgotten(s, ct, curCpu) ==
    LET m == get_next_experiment_in_set(s, ct)
    IN  [m EXCEPT !.p.cfg = ExpOf(ct, m.p.curExp[ct])]

\* Take up the next experiment: at once on the CPU where the thread runs, or at the
\* next tick of the thread when this is not that CPU.
EngageMultiplexing(s, ct, curCpu) ==
    LET m    == get_next_experiment_in_set(s, ct)
        next == ExpOf(ct, m.p.curExp[ct])
    IN  IF m.p.cfg = next THEN m
        ELSE IF curCpu
             THEN mc_restart_all_counters(
                      mc_clear_all_counters([m EXCEPT !.p.cfg = next]), next)
             ELSE [m EXCEPT !.p.cfg = next, !.p.prepare = TRUE]

\* sample_counters_user_tbs on a CPU of type ct; curCpu: the thread is current there.
sample_counters_user_tbs(s, event, ct, curCpu) ==
    LET saved  == IF event = "SAVE" THEN do_count_mc_experiment(s, s.p.cfg) ELSE s
        read   == IF event = "TIMER" /\ curCpu
                  THEN do_count_mc_experiment(saved, s.p.cfg) ELSE saved
        timed  == [read EXCEPT !.p.due = FALSE,
                               !.p.armed = @ \/ read.p.enabled]
        pushed == PushSample(timed, ct)
        halted == IF event = "SAVE" THEN mc_stop_all_counters(pushed) ELSE pushed
    IN  IF event \in {"MIGRATION", "TIMER"} \/ s.p.due
        THEN EngageMultiplexing(halted, ct, event # "TIMER" \/ curCpu)
        ELSE saved

\* Seeded fault: the period is compared without the tick that is being handled.
sample_counters_sched_tbs_tick_Late(s, ct) ==
    IF s.p.ticks > setup.nticks - 1
    THEN PushSample([do_count_mc_experiment(s, s.p.cfg) EXCEPT !.p.ticks = 0], ct)
    ELSE [s EXCEPT !.p.ticks = @ + 1]

sample_counters_sched_tbs_tick(s, ct) ==
    IF s.p.ticks >= setup.nticks - 1
    THEN PushSample([do_count_mc_experiment(s, s.p.cfg) EXCEPT !.p.ticks = 0], ct)
    ELSE [s EXCEPT !.p.ticks = @ + 1]

sample_counters_sched_tbs_migration(s, ct) ==
    [PushSample(s, ct) EXCEPT !.p.ticks = 0]

-----------------------------------------------------------------------------------
(* The callbacks.                                                                   *)

\* Seeded fault: the counters are left alone when the thread leaves the CPU.
mod_save_callback_gen_KeepsCounting(s, c) ==
    [s EXCEPT !.p.lastCpu = IF @ # Off THEN c ELSE @]

mod_save_callback_gen(s, c) ==
    LET counted == IF setup.mode = "TBS_SCHED_MODE"
                   THEN mc_stop_all_counters(do_count_mc_experiment(s, s.p.cfg))
                   ELSE sample_counters_user_tbs(s, "SAVE", CoreType(c), TRUE)
    IN  IF s.p.enabled
        THEN [counted EXCEPT !.p.lastCpu = IF @ # Off THEN c ELSE @]
        ELSE s

\* The sample of a thread that comes from a CPU of another type.
MigrationSample(s) ==
    IF s.p.lastCpu = Off THEN s
    ELSE IF setup.mode = "TBS_SCHED_MODE"
         THEN sample_counters_sched_tbs_migration(s, CoreType(s.p.lastCpu))
         ELSE sample_counters_user_tbs(s, "MIGRATION", CoreType(s.p.lastCpu), TRUE)

\* Seeded fault: a migration to another core type is treated like any switch.
mod_restore_callback_gen_NoMigration(s, c) ==
    IF s.p.enabled
    THEN [mc_restart_all_counters(mc_clear_all_counters(s), s.p.cfg)
            EXCEPT !.p.lastCpu = c]
    ELSE s

\* Seeded fault: the counters are not cleared and restarted when the thread is back.
mod_restore_callback_gen_NoRestart(s, c) ==
    LET ct    == CoreType(c)
        moved == s.p.lastCpu = Off \/ CoreType(s.p.lastCpu) # ct
        next  == ExpOf(ct, 0)
        d     == rewind_experiments_in_set(MigrationSample(s), ct)
    IN  IF ~s.p.enabled THEN s
        ELSE IF s.p.cfg # NoExp /\ moved
             THEN [mc_restart_all_counters(
                      mc_clear_all_counters([d EXCEPT !.p.cfg = next]), next)
                      EXCEPT !.p.lastCpu = c]
             ELSE [s EXCEPT !.p.lastCpu = c, !.h.on = TRUE]

mod_restore_callback_gen(s, c) ==
    LET ct    == CoreType(c)
        moved == s.p.lastCpu = Off \/ CoreType(s.p.lastCpu) # ct
        next  == ExpOf(ct, 0)
        d     == rewind_experiments_in_set(MigrationSample(s), ct)
        r     == IF s.p.cfg # NoExp /\ moved
                 THEN IF d.p.cfg # next \/ s.p.lastCpu = Off
                      THEN mc_restart_all_counters(
                               mc_clear_all_counters([d EXCEPT !.p.cfg = next]), next)
                      ELSE d
                 ELSE mc_restart_all_counters(mc_clear_all_counters(s), s.p.cfg)
    IN  IF s.p.enabled THEN [r EXCEPT !.p.lastCpu = c] ELSE s

refresh_event_multiplexing_cpu(s) ==
    IF s.p.prepare
    THEN [mc_restart_all_counters(mc_clear_all_counters(s), s.p.cfg)
            EXCEPT !.p.prepare = FALSE]
    ELSE s

mod_tbs_tick(s, c) ==
    IF ~s.p.enabled THEN s
    ELSE IF setup.mode = "TBS_SCHED_MODE"
         THEN sample_counters_sched_tbs_tick(s, CoreType(c))
         ELSE refresh_event_multiplexing_cpu(s)

-----------------------------------------------------------------------------------
(* Attaching and detaching a monitor; s.p is the target's profile.                  *)

set_up_monitoring_task(s, c, isCurrent) ==
    LET q == [s EXCEPT !.p.buffer = TRUE,
                       !.p.curExp = [ct \in {0, 1} |-> 0],
                       !.p.needSetup = [e \in Experiment |-> TRUE],
                       !.p.cfg = ExpOf(0, 0),
                       !.p.due = FALSE,
                       !.p.armed = @ \/ setup.mode = "TBS_USER_MODE",
                       !.p.enabled = TRUE,
                       !.p.session = @ + 1]
    IN  IF isCurrent THEN mod_restore_callback_gen(q, c) ELSE q

disable_monitoring_task(s, c, isCurrent) ==
    LET q == IF isCurrent THEN mod_save_callback_gen(s, c) ELSE s
    IN  [q EXCEPT !.p.buffer = FALSE, !.p.enabled = FALSE, !.p.cfg = NoExp]

mod_exit_thread(s, c) ==
    LET q == PushSample(do_count_mc_experiment(s, s.p.cfg), CoreType(c))
    IN  [q EXCEPT !.p.due = FALSE, !.p.buffer = FALSE]

-----------------------------------------------------------------------------------
(* The actions.                                                                     *)

Init ==
    /\ setup \in Setups
    /\ at = Off /\ alive = TRUE
    /\ prof = [enabled |-> FALSE, buffer |-> FALSE, cfg |-> NoExp,
               curExp |-> [ct \in {0, 1} |-> 0],
               needSetup |-> [e \in Experiment |-> TRUE],
               values |-> NoCounts, lastCpu |-> Off, ticks |-> 0,
               prepare |-> FALSE, due |-> FALSE, armed |-> FALSE, session |-> 0]
    /\ hw = [c \in Cpu |-> [exp |-> NoExp, on |-> FALSE, n |-> 0, tags |-> {}]]
    /\ call = NoCall
    /\ sample = NoSample
    /\ executed = 0 /\ delivered = 0

On(c) == [p |-> prof, h |-> hw[c], out |-> NoSample]

\* A handler has executed on CPU c, with result r.
Becomes(r, c) ==
    /\ prof' = r.p
    /\ hw' = [hw EXCEPT ![c] = r.h]
    /\ sample' = IF r.out = NoSample THEN sample ELSE r.out
    /\ delivered' = delivered + r.out.n

SwitchIn(c) ==
    /\ at = Off /\ alive
    /\ call = NoCall \/ (setup.wakes /\ call.cpu # c)
    /\ at' = c
    /\ Becomes(mod_restore_callback_gen(On(c), c), c)
    /\ UNCHANGED <<setup, alive, call, executed>>

SwitchOut ==
    /\ at # Off
    /\ at' = Off
    /\ Becomes(mod_save_callback_gen(On(at), at), at)
    /\ UNCHANGED <<setup, alive, call, executed>>

Tick ==
    /\ at # Off
    /\ Becomes(mod_tbs_tick(On(at), at), at)
    /\ UNCHANGED <<setup, at, alive, call, executed>>

TimeElapses ==
    /\ setup.mode = "TBS_USER_MODE" /\ alive /\ prof.armed /\ ~prof.due
    /\ prof' = [prof EXCEPT !.due = TRUE]
    /\ UNCHANGED <<setup, at, alive, hw, call, sample, executed, delivered>>

\* What the timer, a monitor that attaches and one that detaches execute on CPU c.
sample_counters_user_tbs_task(c) ==
    LET s == [On(c) EXCEPT !.p.armed = FALSE]
    IN  /\ Becomes(IF prof.enabled /\ prof.cfg # NoExp /\ prof.due
                   THEN sample_counters_user_tbs(s, "TIMER", CoreType(c), at = c)
                   ELSE s, c)
        /\ UNCHANGED executed

AttachOn(c) ==
    LET r == set_up_monitoring_task(On(c), c, at = c)
    IN  /\ prof' = r.p
        /\ hw' = [hw EXCEPT ![c] = r.h]
        /\ sample' = IF r.out = NoSample THEN sample ELSE r.out
        /\ executed' = 0
        /\ delivered' = r.out.n

DetachOn(c) ==
    /\ Becomes(disable_monitoring_task(On(c), c, at = c), c)
    /\ UNCHANGED executed

Wanted(op) ==
    CASE op = "timer"  -> prof.armed /\ prof.due
      [] op = "attach" -> alive /\ ~prof.enabled /\ ~prof.buffer
                            /\ prof.session < MaxSessions
      [] op = "detach" -> prof.enabled /\ prof.buffer

Perform(op, c) ==
    \/ op = "timer"  /\ sample_counters_user_tbs_task(c)
    \/ op = "attach" /\ AttachOn(c)
    \/ op = "detach" /\ DetachOn(c)

\* The thread is running: the function is called on its CPU, where it is current.
CallOnItsCpu(op) ==
    /\ at # Off /\ call = NoCall
    /\ Wanted(op)
    /\ Perform(op, at)
    /\ UNCHANGED <<setup, at, alive, call>>

\* It is not: the function is called on CPU c, and executes there in a later step.
SeeAsleep(op, c) ==
    /\ at = Off /\ call = NoCall
    /\ Wanted(op)
    /\ call' = [op |-> op, cpu |-> c]
    /\ UNCHANGED <<setup, at, alive, prof, hw, sample, executed, delivered>>

CallOnOtherCpu ==
    /\ call # NoCall
    /\ call' = NoCall
    /\ Perform(call.op, call.cpu)
    /\ UNCHANGED <<setup, at, alive>>

Exit ==
    /\ at # Off /\ alive
    /\ prof.enabled /\ prof.buffer
    /\ alive' = FALSE
    /\ Becomes(mod_exit_thread(On(at), at), at)
    /\ UNCHANGED <<setup, at, call, executed>>

CountingStarted == prof.enabled /\ prof.cfg # NoExp /\ ~prof.needSetup[prof.cfg]

\* The thread executes something its experiment counts.
Execute ==
    /\ at # Off /\ alive
    /\ executed < MaxEvents
    /\ hw[at].n < MaxEvents
    /\ hw' = IF hw[at].on
             THEN [hw EXCEPT ![at].n = @ + 1,
                             ![at].tags = @ \cup {[session |-> prof.session,
                                                  exp |-> hw[at].exp,
                                                  coretype |-> CoreType(at)]}]
             ELSE hw
    /\ executed' = IF CountingStarted THEN executed + 1 ELSE executed
    /\ UNCHANGED <<setup, at, alive, prof, call, sample, delivered>>

\* Another thread runs on c, with counters that were left running or with its own,
\* which it leaves stopped or, when it multiplexes, running.
OthersRun(c) ==
    /\ at # c
    /\ \/ /\ hw[c].on
          /\ hw' = [hw EXCEPT ![c].tags = @ \cup {Alien}]
       \/ \E on \in BOOLEAN :
             hw' = [hw EXCEPT ![c] =
                       [exp |-> Other, on |-> on, n |-> 0, tags |-> {Alien}]]
    /\ UNCHANGED <<setup, at, alive, prof, call, sample, executed, delivered>>

Next ==
    \/ SwitchOut \/ Tick \/ TimeElapses \/ CallOnOtherCpu \/ Exit \/ Execute
    \/ \E c \in Cpu : SwitchIn(c) \/ OthersRun(c)
    \/ \E op \in Op : CallOnItsCpu(op) \/ \E c \in Cpu : SeeAsleep(op, c)

Spec == Init /\ [][Next]_vars

-----------------------------------------------------------------------------------
(* Properties.                                                                      *)

TypeOK ==
    /\ setup \in Setups
    /\ at \in Cpu \cup {Off}
    /\ alive \in BOOLEAN
    /\ prof \in Prof
    /\ hw \in [Cpu -> Counter]
    /\ call \in Call \cup {NoCall}
    /\ sample \in Sample \cup {NoSample}
    /\ executed \in 0 .. MaxEvents
    /\ delivered \in Nat

\* Whatever other threads did with the counters of the CPUs it visited, no sample of
\* the thread contains an event that is not the thread's: the counters are cleared
\* and restarted before the thread counts with them (mchw_core.c 1043-1093).
SampleIsOwn == Alien \notin sample.tags

\* No monitor attaches while the thread wakes up on a CPU of another core type, which
\* last_cpu, not yet set, would not show.
NoMixedWakeUps == ~setup.wakes \/ setup.bigCpu = {}

\* The counts of a sample were counted under the experiment the sample names by its
\* core type and exp_idx (pmc_user.h 39-40): reads, migrations and multiplexing never
\* attribute the events of one configuration to another.
SampleOfItsExperiment ==
    NoMixedWakeUps => \A t \in sample.tags \ {Alien} : t.exp = sample.exp

\* They were counted on a CPU of the core type the sample carries (pmc_user.h 39).
SampleOfItsCoreType ==
    NoMixedWakeUps => \A t \in sample.tags \ {Alien} : t.coretype = sample.coretype

\* They were counted while the monitor that gets the sample was attached.
SampleOfItsSession ==
    \A t \in sample.tags \ {Alien} : t.session = sample.session

\* While the thread runs where its last restore callback put it, its counters are
\* programmed with an experiment of that core type (mchw_core.c 1039, 1077).
ConfigFitsCore ==
    prof.enabled /\ at # Off /\ prof.lastCpu = at => prof.cfg[1] = CoreType(at)

\* Every sample is of the thread, and was counted with the experiment and on the core
\* type it names, whatever the order of reads, migrations and multiplexing.
SamplesAreFaithful ==
    TypeOK /\ SampleIsOwn /\ SampleOfItsExperiment /\ SampleOfItsCoreType /\ ConfigFitsCore

\* With one experiment per core type nothing is lost or counted twice: each event
\* since the counters were set up is in a sample, in the accumulator of the thread or
\* in the counter of its CPU; after the exit sample they are all in samples.
Conservation ==
    prof.enabled /\ (\A ct \in {0, 1} : setup.nrExps[ct] = 1) =>
        executed = delivered + prof.values.n
                    + (IF at # Off /\ CountingStarted THEN hw[at].n ELSE 0)
================================================================================
