---------------------------- MODULE ThreadCounting_proofs ----------------------------
(***********************************************************************************)
(* The counts of a thread in TBS_SCHED_MODE, where the context switches and the    *)
(* ticks of the scheduler take the samples, for any machine, any experiments, any  *)
(* sampling period and any number of events: in the first session of a thread,     *)
(* every event that it executes once its counters are set up is in one sample, or  *)
(* on its way to one, and no sample has an event of another thread, of another     *)
(* experiment or of another core type.                                             *)
(*                                                                                 *)
(* A later session finds the last CPU and the counts of the one before, and for it *)
(* these properties are false.                                                     *)
(***********************************************************************************)
EXTENDS ThreadCounting, TLAPS

Sched == setup \in Setups /\ setup.mode = "TBS_SCHED_MODE"

-----------------------------------------------------------------------------------
(* What a handler operates on, the bounds on the counts apart.                      *)

CounterType == [exp : Experiment \cup {Other, NoExp}, on : BOOLEAN, n : Nat, tags : SUBSET Tag]
CountsType == [n : Nat, tags : SUBSET Tag]
ProfType ==
    [enabled : BOOLEAN, buffer : BOOLEAN, cfg : Experiment \cup {NoExp},
     curExp : [{0, 1} -> Nat], needSetup : [Experiment -> BOOLEAN],
     values : CountsType, lastCpu : Cpu \cup {Off}, ticks : Nat, prepare : BOOLEAN,
     due : BOOLEAN, armed : BOOLEAN, session : 0 .. MaxSessions]
SampleType ==
    [session : 0 .. MaxSessions, exp : Experiment \cup {NoExp}, coretype : {0, 1},
     n : Nat, tags : SUBSET Tag]
State == [p : ProfType, h : CounterType, out : SampleType]

\* What the callbacks leave alone.
Fixed(p) == <<p.enabled, p.buffer, p.prepare, p.due, p.armed, p.session>>

\* A counter that has just been programmed, the counts after a read, and a sample.
Restarted(e) == [exp |-> e, on |-> TRUE, n |-> 0, tags |-> {}]
Read(s, e) == IF s.p.needSetup[e] THEN s.p.values
              ELSE [n |-> s.p.values.n + s.h.n, tags |-> s.p.values.tags \cup s.h.tags]
SampleOf(p, counts, ct) ==
    IF p.buffer THEN [session |-> p.session, exp |-> p.cfg, coretype |-> ct,
                      n |-> counts.n, tags |-> counts.tags]
    ELSE NoSample

LEMMA Experiments ==
    /\ NoExp \notin Experiment /\ Other \notin Experiment /\ Other # NoExp
    /\ Off \notin Cpu
    /\ \A c \in Cpu : CoreType(c) \in {0, 1}
  <1>1. NoExp \notin Experiment /\ Other \notin Experiment /\ Other # NoExp
    BY DEF NoExp, Experiment, Other
  <1>2. Off \notin Cpu
    BY ConfigAssumption DEF Off
  <1> QED  BY <1>1, <1>2 DEF CoreType

LEMMA FirstExperiments ==
    ASSUME setup \in Setups, NEW ct \in {0, 1}
    PROVE  ExpOf(ct, 0) \in Experiment /\ ExpOf(ct, 0)[1] = ct
  <1>1. setup.nrExps[ct] \in Nat \ {0}
    BY ConfigAssumption DEF Setup
  <1> QED  BY <1>1 DEF ExpOf, Experiment

LEMMA NoSampleIsOne == NoSample \in SampleType /\ NoCounts \in CountsType
  BY ConfigAssumption DEF NoSample, SampleType, NoCounts, CountsType

LEMMA RestartIs ==
    ASSUME NEW s \in State, NEW e \in Experiment
    PROVE  LET r == mc_restart_all_counters(s, e)
           IN  /\ r \in State /\ r.h = Restarted(e) /\ r.out = s.out
               /\ Fixed(r.p) = Fixed(s.p) /\ r.p.cfg = s.p.cfg /\ r.p.curExp = s.p.curExp
               /\ r.p.values = s.p.values /\ r.p.lastCpu = s.p.lastCpu /\ r.p.ticks = s.p.ticks
               /\ r.p.needSetup = [s.p.needSetup EXCEPT ![e] = FALSE]
  BY Experiments
  DEF mc_restart_all_counters, State, Restarted, Fixed, ProfType, CounterType, SampleType

LEMMA ReadIs ==
    ASSUME NEW s \in State, NEW e \in Experiment
    PROVE  LET r == do_count_mc_experiment(s, e)
           IN  /\ r \in State /\ r.h = Restarted(e) /\ r.out = s.out
               /\ Fixed(r.p) = Fixed(s.p) /\ r.p.cfg = s.p.cfg /\ r.p.curExp = s.p.curExp
               /\ r.p.values = Read(s, e) /\ r.p.lastCpu = s.p.lastCpu /\ r.p.ticks = s.p.ticks
               /\ r.p.needSetup = [s.p.needSetup EXCEPT ![e] = FALSE]
  <1> DEFINE v == [n |-> s.p.values.n + s.h.n, tags |-> s.p.values.tags \cup s.h.tags]
             q == [s EXCEPT !.p.values = v]
  <1>1. CASE s.p.needSetup[e]
    BY <1>1, RestartIs DEF do_count_mc_experiment, Read
  <1>2. CASE ~s.p.needSetup[e]
    <2>0. v \in CountsType
      <3>1. /\ s.h.n \in Nat /\ s.p.values.n \in Nat
            /\ s.h.tags \subseteq Tag /\ s.p.values.tags \subseteq Tag
        BY DEF State, ProfType, CounterType, CountsType
      <3> QED  BY <3>1 DEF CountsType
    <2>1. do_count_mc_experiment(s, e) = mc_restart_all_counters(q, e)
      BY <1>2, Experiments DEF do_count_mc_experiment, State, ProfType
    <2>2. Read(s, e) = v
      BY <1>2 DEF Read
    <2> HIDE DEF v
    <2>3. /\ q \in State /\ q.h = s.h /\ q.out = s.out /\ Fixed(q.p) = Fixed(s.p)
          /\ q.p.cfg = s.p.cfg /\ q.p.curExp = s.p.curExp /\ q.p.lastCpu = s.p.lastCpu
          /\ q.p.ticks = s.p.ticks /\ q.p.needSetup = s.p.needSetup /\ q.p.values = v
      BY <2>0 DEF State, Fixed, ProfType
    <2> HIDE DEF q
    <2> QED  BY <2>1, <2>2, <2>3, RestartIs
  <1> QED  BY <1>1, <1>2

LEMMA StopIs ==
    ASSUME NEW s \in State
    PROVE  LET r == mc_stop_all_counters(s)
           IN  r \in State /\ r.p = s.p /\ r.out = s.out /\ r.h.n = s.h.n /\ r.h.exp = s.h.exp
  BY DEF mc_stop_all_counters, State, CounterType

LEMMA ClearIs ==
    ASSUME NEW s \in State
    PROVE  LET r == mc_clear_all_counters(s)
           IN  r \in State /\ r.p = s.p /\ r.out = s.out
  BY DEF mc_clear_all_counters, State, CounterType

LEMMA PushIs ==
    ASSUME NEW s \in State, NEW ct \in {0, 1}
    PROVE  LET r == PushSample(s, ct)
           IN  /\ r \in State /\ r.h = s.h /\ r.out = SampleOf(s.p, s.p.values, ct)
               /\ Fixed(r.p) = Fixed(s.p) /\ r.p.cfg = s.p.cfg /\ r.p.curExp = s.p.curExp
               /\ r.p.values = NoCounts /\ r.p.lastCpu = s.p.lastCpu /\ r.p.ticks = s.p.ticks
               /\ r.p.needSetup = s.p.needSetup
  BY NoSampleIsOne
  DEF PushSample, SampleOf, State, Fixed, ProfType, SampleType, NoCounts, CountsType

-----------------------------------------------------------------------------------
(* The callbacks, in TBS_SCHED_MODE, for a profile that is enabled.                 *)

LEMMA SaveIs ==
    ASSUME Sched, NEW s \in State, NEW c \in Cpu, s.p.enabled, s.p.cfg \in Experiment
    PROVE  LET r == mod_save_callback_gen(s, c)
           IN  /\ r \in State /\ r.out = s.out /\ r.h.n = 0 /\ r.h.exp = s.p.cfg
               /\ Fixed(r.p) = Fixed(s.p) /\ r.p.cfg = s.p.cfg
               /\ r.p.values = Read(s, s.p.cfg) /\ r.p.ticks = s.p.ticks
               /\ r.p.needSetup[s.p.cfg] = FALSE
               /\ r.p.lastCpu = IF s.p.lastCpu # Off THEN c ELSE Off
  <1> DEFINE q == do_count_mc_experiment(s, s.p.cfg)
             u == mc_stop_all_counters(q)
  <1>1. /\ q \in State /\ q.h = Restarted(s.p.cfg) /\ q.out = s.out
        /\ Fixed(q.p) = Fixed(s.p) /\ q.p.cfg = s.p.cfg /\ q.p.curExp = s.p.curExp
        /\ q.p.values = Read(s, s.p.cfg) /\ q.p.lastCpu = s.p.lastCpu
        /\ q.p.ticks = s.p.ticks
        /\ q.p.needSetup = [s.p.needSetup EXCEPT ![s.p.cfg] = FALSE]
    BY ReadIs
  <1> HIDE DEF q
  <1>2. u \in State /\ u.out = q.out /\ u.p = q.p /\ u.h.n = 0 /\ u.h.exp = s.p.cfg
    BY <1>1, StopIs DEF Restarted
  <1>3. mod_save_callback_gen(s, c) = [u EXCEPT !.p.lastCpu = IF @ # Off THEN c ELSE @]
    BY DEF mod_save_callback_gen, Sched, q
  <1> HIDE DEF u
  <1> DEFINE r == mod_save_callback_gen(s, c)
             P == [u.p EXCEPT !.lastCpu = IF @ # Off THEN c ELSE @]
  <1>4. u.p \in ProfType
    BY <1>2 DEF State
  <1>5. /\ P \in ProfType /\ Fixed(P) = Fixed(u.p) /\ P.cfg = u.p.cfg
        /\ P.values = u.p.values /\ P.ticks = u.p.ticks /\ P.needSetup = u.p.needSetup
        /\ P.lastCpu = IF u.p.lastCpu # Off THEN c ELSE Off
    BY <1>4 DEF ProfType, Fixed
  <1>6. r.p = P /\ r.h = u.h /\ r.out = u.out /\ r \in State
    <2>1. r = [u EXCEPT !.p = P]
      BY <1>2, <1>3 DEF State
    <2> HIDE DEF r, P
    <2> QED  BY <1>2, <1>5, <2>1 DEF State
  <1> HIDE DEF r, P
  <1>7. r.p.needSetup[s.p.cfg] = FALSE
    <2>1. s.p.needSetup \in [Experiment -> BOOLEAN]
      BY DEF State, ProfType
    <2> QED  BY <1>1, <1>2, <1>5, <1>6, <2>1
  <1>8. /\ r \in State /\ r.out = s.out /\ r.h.n = 0 /\ r.h.exp = s.p.cfg
        /\ Fixed(r.p) = Fixed(s.p) /\ r.p.cfg = s.p.cfg
        /\ r.p.values = Read(s, s.p.cfg) /\ r.p.ticks = s.p.ticks
        /\ r.p.needSetup[s.p.cfg] = FALSE
        /\ r.p.lastCpu = IF s.p.lastCpu # Off THEN c ELSE Off
    BY <1>1, <1>2, <1>5, <1>6, <1>7
  <1> QED  BY <1>8 DEF r

\* Migrating to a CPU of another core type takes a sample of what was counted.
LEMMA MigrationIs ==
    ASSUME Sched, NEW s \in State, NEW ct \in {0, 1}, s.out = NoSample
    PROVE  LET r == rewind_experiments_in_set(MigrationSample(s), ct)
           IN  /\ r \in State /\ Fixed(r.p) = Fixed(s.p) /\ r.p.cfg = s.p.cfg /\ r.h = s.h
               /\ r.p.needSetup = s.p.needSetup /\ r.p.lastCpu = s.p.lastCpu
               /\ IF s.p.lastCpu = Off
                  THEN r.out = NoSample /\ r.p.values = s.p.values /\ r.p.ticks = s.p.ticks
                  ELSE /\ r.out = SampleOf(s.p, s.p.values, CoreType(s.p.lastCpu))
                       /\ r.p.values = NoCounts /\ r.p.ticks = 0
  <1> DEFINE q == MigrationSample(s)
             r == rewind_experiments_in_set(q, ct)
  <1>1. /\ q \in State /\ Fixed(q.p) = Fixed(s.p) /\ q.p.cfg = s.p.cfg /\ q.h = s.h
        /\ q.p.needSetup = s.p.needSetup /\ q.p.lastCpu = s.p.lastCpu
        /\ IF s.p.lastCpu = Off
           THEN q.out = NoSample /\ q.p.values = s.p.values /\ q.p.ticks = s.p.ticks
           ELSE /\ q.out = SampleOf(s.p, s.p.values, CoreType(s.p.lastCpu))
                /\ q.p.values = NoCounts /\ q.p.ticks = 0
    <2>1. CASE s.p.lastCpu = Off
      BY <2>1 DEF MigrationSample
    <2>2. CASE s.p.lastCpu # Off
      <3> DEFINE k == CoreType(s.p.lastCpu)
                 u == PushSample(s, k)
      <3>1. k \in {0, 1}
        BY <2>2, Experiments DEF State, ProfType
      <3>2. /\ u \in State /\ u.h = s.h /\ u.out = SampleOf(s.p, s.p.values, k)
            /\ Fixed(u.p) = Fixed(s.p) /\ u.p.cfg = s.p.cfg /\ u.p.curExp = s.p.curExp
            /\ u.p.values = NoCounts /\ u.p.lastCpu = s.p.lastCpu
            /\ u.p.needSetup = s.p.needSetup
        BY <3>1, PushIs
      <3>3. q = [u EXCEPT !.p.ticks = 0]
        BY <2>2 DEF MigrationSample, sample_counters_sched_tbs_migration, Sched
      <3> HIDE DEF u, q
      <3> QED  BY <2>2, <3>2, <3>3 DEF State, ProfType, Fixed
    <2> QED  BY <2>1, <2>2
  <1> HIDE DEF q
  <1>2. /\ r \in State /\ r.h = q.h /\ r.out = q.out /\ Fixed(r.p) = Fixed(q.p)
        /\ r.p.cfg = q.p.cfg /\ r.p.needSetup = q.p.needSetup
        /\ r.p.lastCpu = q.p.lastCpu /\ r.p.values = q.p.values /\ r.p.ticks = q.p.ticks
    BY <1>1 DEF rewind_experiments_in_set, State, ProfType, Fixed
  <1> HIDE DEF r
  <1> QED  BY <1>1, <1>2 DEF r, q

\* A thread that gets a CPU counts with the first experiment of its core type, from zero.
LEMMA RestoreIs ==
    ASSUME Sched, NEW s \in State, NEW c \in Cpu, s.p.enabled, s.p.cfg \in Experiment,
           s.out = NoSample,
           s.p.lastCpu # Off => s.p.cfg = ExpOf(CoreType(s.p.lastCpu), 0)
    PROVE  LET r == mod_restore_callback_gen(s, c)
               e == ExpOf(CoreType(c), 0)
           IN  /\ r \in State /\ Fixed(r.p) = Fixed(s.p) /\ r.p.cfg = e
               /\ r.h = Restarted(e) /\ r.p.needSetup[e] = FALSE /\ r.p.lastCpu = c
               /\ \/ /\ s.p.lastCpu = Off \/ s.p.cfg = e
                     /\ r.out = NoSample /\ r.p.values = s.p.values /\ r.p.ticks = s.p.ticks
                  \/ /\ s.p.lastCpu # Off
                     /\ r.out = SampleOf(s.p, s.p.values, CoreType(s.p.lastCpu))
                     /\ r.p.values = NoCounts /\ r.p.ticks = 0
  <1> DEFINE ct == CoreType(c)
             e == ExpOf(ct, 0)
             moved == s.p.lastCpu = Off \/ CoreType(s.p.lastCpu) # ct
             d == rewind_experiments_in_set(MigrationSample(s), ct)
             q == IF moved THEN [d EXCEPT !.p.cfg = e] ELSE s
             k == mc_clear_all_counters(q)
             u == mc_restart_all_counters(k, e)
             r == mod_restore_callback_gen(s, c)
  <1>0. ct \in {0, 1} /\ e \in Experiment /\ e[1] = ct
    BY Experiments, FirstExperiments DEF Sched
  <1>1. /\ d \in State /\ Fixed(d.p) = Fixed(s.p) /\ d.p.cfg = s.p.cfg
        /\ d.p.needSetup = s.p.needSetup /\ d.p.lastCpu = s.p.lastCpu
        /\ IF s.p.lastCpu = Off
           THEN d.out = NoSample /\ d.p.values = s.p.values /\ d.p.ticks = s.p.ticks
           ELSE /\ d.out = SampleOf(s.p, s.p.values, CoreType(s.p.lastCpu))
                /\ d.p.values = NoCounts /\ d.p.ticks = 0
    BY <1>0, MigrationIs
  <1>2. s.p.cfg # NoExp
    BY Experiments
  <1>3. ~moved => s.p.cfg = e
    OBVIOUS
  <1>4. moved => d.p.cfg # e \/ s.p.lastCpu = Off
    <2> SUFFICES ASSUME s.p.lastCpu # Off, CoreType(s.p.lastCpu) # ct PROVE d.p.cfg # e
      OBVIOUS
    <2>1. CoreType(s.p.lastCpu) \in {0, 1}
      BY Experiments DEF State, ProfType
    <2>2. ExpOf(CoreType(s.p.lastCpu), 0)[1] = CoreType(s.p.lastCpu)
      BY <2>1, FirstExperiments DEF Sched
    <2> QED  BY <1>0, <1>1, <2>2
  <1>5. r = [u EXCEPT !.p.lastCpu = c]
    <2>1. CASE moved
      BY <1>2, <1>4, <2>1 DEF mod_restore_callback_gen
    <2>2. CASE ~moved
      BY <1>2, <1>3, <2>2 DEF mod_restore_callback_gen
    <2> QED  BY <2>1, <2>2
  <1> HIDE DEF d
  <1>6. /\ q \in State /\ Fixed(q.p) = Fixed(s.p) /\ q.p.cfg = e
        /\ q.p.needSetup = s.p.needSetup
        /\ IF moved THEN q.out = d.out /\ q.p.values = d.p.values /\ q.p.ticks = d.p.ticks
           ELSE q = s
    BY <1>0, <1>1, <1>3 DEF State, ProfType, Fixed
  <1> HIDE DEF q
  <1>7. k \in State /\ k.p = q.p /\ k.out = q.out
    BY <1>6, ClearIs
  <1> HIDE DEF k
  <1>8. /\ u \in State /\ u.h = Restarted(e) /\ u.out = k.out
        /\ Fixed(u.p) = Fixed(k.p) /\ u.p.cfg = k.p.cfg
        /\ u.p.values = k.p.values /\ u.p.ticks = k.p.ticks
        /\ u.p.needSetup = [k.p.needSetup EXCEPT ![e] = FALSE]
    BY <1>0, <1>7, RestartIs
  <1> HIDE DEF u
  <1>9. /\ r \in State /\ r.h = u.h /\ r.out = u.out /\ Fixed(r.p) = Fixed(u.p)
        /\ r.p.cfg = u.p.cfg /\ r.p.values = u.p.values /\ r.p.ticks = u.p.ticks
        /\ r.p.needSetup = u.p.needSetup /\ r.p.lastCpu = c
    <2> HIDE DEF r
    <2> QED  BY <1>5, <1>8 DEF State, ProfType, Fixed
  <1> HIDE DEF r
  <1>10. r.p.needSetup[e] = FALSE
    <2>1. k.p.needSetup \in [Experiment -> BOOLEAN]
      BY <1>7 DEF State, ProfType
    <2> QED  BY <1>0, <1>8, <1>9, <2>1
  <1>11. /\ r \in State /\ Fixed(r.p) = Fixed(s.p) /\ r.p.cfg = e
         /\ r.h = Restarted(e) /\ r.p.needSetup[e] = FALSE /\ r.p.lastCpu = c
    BY <1>6, <1>7, <1>8, <1>9, <1>10
  <1>12. /\ r.out = q.out /\ r.p.values = q.p.values /\ r.p.ticks = q.p.ticks
    BY <1>7, <1>8, <1>9
  <1>13. \/ /\ s.p.lastCpu = Off \/ s.p.cfg = e
            /\ r.out = NoSample /\ r.p.values = s.p.values /\ r.p.ticks = s.p.ticks
         \/ /\ s.p.lastCpu # Off
            /\ r.out = SampleOf(s.p, s.p.values, CoreType(s.p.lastCpu))
            /\ r.p.values = NoCounts /\ r.p.ticks = 0
    BY <1>1, <1>3, <1>6, <1>12
  <1> QED  BY <1>11, <1>13 DEF r

\* One tick in nticks reads the counters and takes a sample.
LEMMA TickIs ==
    ASSUME Sched, NEW s \in State, NEW c \in Cpu, s.p.enabled, s.p.cfg \in Experiment,
           s.out = NoSample
    PROVE  LET r == mod_tbs_tick(s, c)
           IN  /\ r \in State /\ Fixed(r.p) = Fixed(s.p) /\ r.p.cfg = s.p.cfg
               /\ r.p.lastCpu = s.p.lastCpu
               /\ \/ /\ s.p.ticks >= setup.nticks - 1
                     /\ r.out = SampleOf(s.p, Read(s, s.p.cfg), CoreType(c))
                     /\ r.p.values = NoCounts /\ r.p.ticks = 0
                     /\ r.h = Restarted(s.p.cfg) /\ r.p.needSetup[s.p.cfg] = FALSE
                  \/ /\ ~(s.p.ticks >= setup.nticks - 1)
                     /\ r.out = NoSample /\ r.p.values = s.p.values
                     /\ r.p.ticks = s.p.ticks + 1
                     /\ r.h = s.h /\ r.p.needSetup = s.p.needSetup
  <1> DEFINE r == mod_tbs_tick(s, c)
             ct == CoreType(c)
             q == do_count_mc_experiment(s, s.p.cfg)
             k == [q EXCEPT !.p.ticks = 0]
             u == PushSample(k, ct)
  <1>0. ct \in {0, 1} /\ s.p.needSetup \in [Experiment -> BOOLEAN]
    BY Experiments DEF State, ProfType
  <1>1. r = IF s.p.ticks >= setup.nticks - 1 THEN u ELSE [s EXCEPT !.p.ticks = @ + 1]
    BY DEF mod_tbs_tick, sample_counters_sched_tbs_tick, Sched
  <1>2. CASE s.p.ticks >= setup.nticks - 1
    <2>1. /\ q \in State /\ q.h = Restarted(s.p.cfg)
          /\ Fixed(q.p) = Fixed(s.p) /\ q.p.cfg = s.p.cfg
          /\ q.p.values = Read(s, s.p.cfg) /\ q.p.lastCpu = s.p.lastCpu
          /\ q.p.needSetup = [s.p.needSetup EXCEPT ![s.p.cfg] = FALSE]
      BY ReadIs
    <2> HIDE DEF q
    <2>2. /\ k \in State /\ k.h = q.h /\ Fixed(k.p) = Fixed(q.p) /\ k.p.cfg = q.p.cfg
          /\ k.p.values = q.p.values /\ k.p.lastCpu = q.p.lastCpu
          /\ k.p.needSetup = q.p.needSetup /\ k.p.ticks = 0
      BY <2>1 DEF State, ProfType, Fixed
    <2> HIDE DEF k
    <2>3. /\ u \in State /\ u.h = k.h /\ u.out = SampleOf(k.p, k.p.values, ct)
          /\ Fixed(u.p) = Fixed(k.p) /\ u.p.cfg = k.p.cfg
          /\ u.p.values = NoCounts /\ u.p.lastCpu = k.p.lastCpu /\ u.p.ticks = 0
          /\ u.p.needSetup = k.p.needSetup
      BY <1>0, <2>2, PushIs
    <2>4. SampleOf(k.p, k.p.values, ct) = SampleOf(s.p, Read(s, s.p.cfg), ct)
      BY <2>1, <2>2 DEF SampleOf, Fixed
    <2>5. u.p.needSetup[s.p.cfg] = FALSE
      BY <1>0, <2>1, <2>2, <2>3
    <2> HIDE DEF u
    <2>6. r = u
      BY <1>1, <1>2
    <2> HIDE DEF r
    <2> QED  BY <1>2, <2>1, <2>2, <2>3, <2>4, <2>5, <2>6 DEF r
  <1>3. CASE ~(s.p.ticks >= setup.nticks - 1)
    <2> DEFINE tk == s.p.ticks + 1
               x == [s EXCEPT !.p.ticks = tk]
    <2>0. s.p \in ProfType /\ tk \in Nat
      BY DEF State, ProfType
    <2>3. [s EXCEPT !.p.ticks = @ + 1] = x
      BY DEF State, ProfType
    <2> HIDE DEF tk
    <2>1. /\ x \in State /\ x.h = s.h /\ x.out = s.out /\ Fixed(x.p) = Fixed(s.p)
          /\ x.p.cfg = s.p.cfg /\ x.p.values = s.p.values /\ x.p.lastCpu = s.p.lastCpu
          /\ x.p.needSetup = s.p.needSetup /\ x.p.ticks = tk
      BY <2>0 DEF State, ProfType, Fixed
    <2>2. r = x
      BY <1>1, <1>3, <2>3
    <2> HIDE DEF r, x
    <2> QED  BY <1>3, <2>1, <2>2 DEF r, tk
  <1> QED  BY <1>2, <1>3

\* An exit takes the last sample.
LEMMA ExitIs ==
    ASSUME NEW s \in State, NEW c \in Cpu, s.p.cfg \in Experiment
    PROVE  LET r == mod_exit_thread(s, c)
           IN  /\ r \in State /\ r.h = Restarted(s.p.cfg)
               /\ r.out = SampleOf(s.p, Read(s, s.p.cfg), CoreType(c))
               /\ r.p.values = NoCounts /\ r.p.cfg = s.p.cfg /\ r.p.lastCpu = s.p.lastCpu
               /\ r.p.ticks = s.p.ticks /\ r.p.needSetup[s.p.cfg] = FALSE
               /\ r.p.enabled = s.p.enabled /\ r.p.armed = s.p.armed
               /\ r.p.session = s.p.session /\ ~r.p.due /\ ~r.p.buffer
  <1> DEFINE ct == CoreType(c)
             q == do_count_mc_experiment(s, s.p.cfg)
             u == PushSample(q, ct)
             r == mod_exit_thread(s, c)
  <1>0. ct \in {0, 1} /\ s.p.needSetup \in [Experiment -> BOOLEAN]
    BY Experiments DEF State, ProfType
  <1>1. /\ q \in State /\ q.h = Restarted(s.p.cfg) /\ Fixed(q.p) = Fixed(s.p)
        /\ q.p.cfg = s.p.cfg /\ q.p.values = Read(s, s.p.cfg)
        /\ q.p.lastCpu = s.p.lastCpu /\ q.p.ticks = s.p.ticks
        /\ q.p.needSetup = [s.p.needSetup EXCEPT ![s.p.cfg] = FALSE]
    BY ReadIs
  <1> HIDE DEF q
  <1>2. /\ u \in State /\ u.h = q.h /\ u.out = SampleOf(q.p, q.p.values, ct)
        /\ Fixed(u.p) = Fixed(q.p) /\ u.p.cfg = q.p.cfg /\ u.p.values = NoCounts
        /\ u.p.lastCpu = q.p.lastCpu /\ u.p.ticks = q.p.ticks
        /\ u.p.needSetup = q.p.needSetup
    BY <1>0, <1>1, PushIs
  <1>3. r = [u EXCEPT !.p.due = FALSE, !.p.buffer = FALSE]
    BY DEF mod_exit_thread, q
  <1> HIDE DEF u, r
  <1>4. /\ r \in State /\ r.h = u.h /\ r.out = u.out /\ r.p.values = u.p.values
        /\ r.p.cfg = u.p.cfg /\ r.p.lastCpu = u.p.lastCpu /\ r.p.ticks = u.p.ticks
        /\ r.p.needSetup = u.p.needSetup /\ r.p.enabled = u.p.enabled
        /\ r.p.armed = u.p.armed /\ r.p.session = u.p.session /\ ~r.p.due /\ ~r.p.buffer
    <2>1. /\ r.p = [u.p EXCEPT !.due = FALSE, !.buffer = FALSE]
          /\ r = [u EXCEPT !.p = r.p]
      BY <1>2, <1>3 DEF State, ProfType
    <2>2. /\ r.p \in ProfType /\ r.p.values = u.p.values
          /\ r.p.cfg = u.p.cfg /\ r.p.lastCpu = u.p.lastCpu /\ r.p.ticks = u.p.ticks
          /\ r.p.needSetup = u.p.needSetup /\ r.p.enabled = u.p.enabled
          /\ r.p.armed = u.p.armed /\ r.p.session = u.p.session /\ ~r.p.due /\ ~r.p.buffer
      <3>1. u.p \in ProfType
        BY <1>2 DEF State
      <3> QED  BY <2>1, <3>1 DEF ProfType
    <2>3. r \in State /\ r.h = u.h /\ r.out = u.out
      BY <1>2, <2>1, <2>2 DEF State
    <2> QED  BY <2>2, <2>3
  <1>5. SampleOf(q.p, q.p.values, ct) = SampleOf(s.p, Read(s, s.p.cfg), ct)
    BY <1>1 DEF SampleOf, Fixed
  <1>6. r.p.needSetup[s.p.cfg] = FALSE
    BY <1>0, <1>1, <1>2, <1>4
  <1>7. /\ r.p.enabled = s.p.enabled /\ r.p.armed = s.p.armed
        /\ r.p.session = s.p.session
    BY <1>1, <1>2, <1>4 DEF Fixed
  <1> QED  BY <1>1, <1>2, <1>4, <1>5, <1>6, <1>7 DEF r

\* A monitor that attaches starts with no experiment set up; that it is the current
\* thread makes a restore of it, and a save when it detaches.
LEMMA SetUpIs ==
    ASSUME Sched, NEW s \in State, NEW c \in Cpu, s.p.session < MaxSessions
    PROVE  LET r == set_up_monitoring_task(s, c, FALSE)
           IN  /\ r \in State /\ r.h = s.h /\ r.out = s.out
               /\ r.p.enabled /\ r.p.buffer /\ ~r.p.due /\ r.p.armed = s.p.armed
               /\ r.p.session = s.p.session + 1 /\ r.p.cfg = ExpOf(0, 0)
               /\ r.p.needSetup = [e \in Experiment |-> TRUE]
               /\ r.p.values = s.p.values /\ r.p.lastCpu = s.p.lastCpu
               /\ r.p.ticks = s.p.ticks
               /\ set_up_monitoring_task(s, c, TRUE) = mod_restore_callback_gen(r, c)
  <1> DEFINE nx == s.p.session + 1
             e0 == ExpOf(0, 0)
             ce == [ct \in {0, 1} |-> 0]
             ns == [e \in Experiment |-> TRUE]
             ar == s.p.armed \/ setup.mode = "TBS_USER_MODE"
             q == [s EXCEPT !.p.buffer = TRUE, !.p.curExp = ce, !.p.needSetup = ns,
                            !.p.cfg = e0, !.p.due = FALSE, !.p.armed = ar,
                            !.p.enabled = TRUE, !.p.session = nx]
             r == set_up_monitoring_task(s, c, FALSE)
  <1>1. r = q /\ set_up_monitoring_task(s, c, TRUE) = mod_restore_callback_gen(q, c)
    BY DEF set_up_monitoring_task, State, ProfType
  <1>2. s.p \in ProfType /\ s.p.session \in 0 .. MaxSessions /\ s.p.armed \in BOOLEAN
    BY DEF State, ProfType
  <1>3. nx \in 0 .. MaxSessions
    BY <1>2, ConfigAssumption
  <1>4. e0 \in Experiment /\ ce \in [{0, 1} -> Nat] /\ ns \in [Experiment -> BOOLEAN]
    BY FirstExperiments DEF Sched
  <1>5. ar \in BOOLEAN /\ ar = s.p.armed
    BY <1>2 DEF Sched
  <1> HIDE DEF nx, e0, ce, ns, ar
  <1> DEFINE P == [s.p EXCEPT !.buffer = TRUE, !.curExp = ce, !.needSetup = ns,
                              !.cfg = e0, !.due = FALSE, !.armed = ar,
                              !.enabled = TRUE, !.session = nx]
  <1>7. q = [s EXCEPT !.p = P]
    BY DEF State
  <1>8. /\ P \in ProfType /\ P.enabled /\ P.buffer /\ ~P.due /\ P.armed = ar
        /\ P.session = nx /\ P.cfg = e0 /\ P.needSetup = ns /\ P.values = s.p.values
        /\ P.lastCpu = s.p.lastCpu /\ P.ticks = s.p.ticks
    BY <1>2, <1>3, <1>4, <1>5 DEF ProfType
  <1> HIDE DEF P, q
  <1>6. /\ q \in State /\ q.h = s.h /\ q.out = s.out /\ q.p.enabled /\ q.p.buffer
        /\ ~q.p.due /\ q.p.armed = ar /\ q.p.session = nx /\ q.p.cfg = e0
        /\ q.p.needSetup = ns /\ q.p.values = s.p.values /\ q.p.lastCpu = s.p.lastCpu
        /\ q.p.ticks = s.p.ticks
    BY <1>7, <1>8 DEF State
  <1> HIDE DEF q, r
  <1> QED  BY <1>1, <1>5, <1>6 DEF nx, e0, ns, r

LEMMA DisableIs ==
    ASSUME NEW s \in State, NEW c \in Cpu
    PROVE  LET r == disable_monitoring_task(s, c, FALSE)
           IN  /\ r \in State /\ r.h = s.h /\ r.out = s.out
               /\ ~r.p.enabled /\ ~r.p.buffer /\ r.p.cfg = NoExp
               /\ r.p.due = s.p.due /\ r.p.armed = s.p.armed
               /\ r.p.session = s.p.session /\ r.p.values = s.p.values
               /\ r.p.lastCpu = s.p.lastCpu /\ r.p.ticks = s.p.ticks
               /\ disable_monitoring_task(s, c, TRUE)
                    = disable_monitoring_task(mod_save_callback_gen(s, c), c, FALSE)
  <1>1. disable_monitoring_task(s, c, TRUE)
            = disable_monitoring_task(mod_save_callback_gen(s, c), c, FALSE)
    BY DEF disable_monitoring_task
  <1>2. LET r == disable_monitoring_task(s, c, FALSE)
        IN  /\ r \in State /\ r.h = s.h /\ r.out = s.out
            /\ ~r.p.enabled /\ ~r.p.buffer /\ r.p.cfg = NoExp
            /\ r.p.due = s.p.due /\ r.p.armed = s.p.armed
            /\ r.p.session = s.p.session /\ r.p.values = s.p.values
            /\ r.p.lastCpu = s.p.lastCpu /\ r.p.ticks = s.p.ticks
    BY DEF disable_monitoring_task, State, ProfType
  <1> QED  BY <1>1, <1>2

\* The callbacks of a profile that is not enabled do nothing.
LEMMA NothingIs ==
    ASSUME NEW s, NEW c, ~s.p.enabled
    PROVE  /\ mod_save_callback_gen(s, c) = s
           /\ mod_restore_callback_gen(s, c) = s
           /\ mod_tbs_tick(s, c) = s
  BY DEF mod_save_callback_gen, mod_restore_callback_gen, mod_tbs_tick

-----------------------------------------------------------------------------------
(* What holds in every session.                                                     *)

\* What a callback is handed and leaves.
Sound(s) ==
    /\ s \in State /\ ~s.p.armed
    /\ s.p.enabled <=> s.p.cfg # NoExp
    /\ s.h.on => s.h.exp # NoExp

Keeps(s, r) == Sound(r) /\ r.p.enabled = s.p.enabled /\ r.p.session = s.p.session

LEMMA EnabledHasExperiment ==
    ASSUME NEW s, Sound(s), s.p.enabled
    PROVE  s \in State /\ s.p.cfg \in Experiment
  BY DEF Sound, State, ProfType

LEMMA SaveKeeps ==
    ASSUME Sched, NEW s, Sound(s), NEW c \in Cpu
    PROVE  Keeps(s, mod_save_callback_gen(s, c))
  <1>1. CASE ~s.p.enabled
    BY <1>1, NothingIs DEF Keeps
  <1>2. CASE s.p.enabled
    <2> DEFINE r == mod_save_callback_gen(s, c)
    <2>1. s \in State /\ s.p.cfg \in Experiment
      BY <1>2, EnabledHasExperiment
    <2>2. r \in State /\ r.h.exp = s.p.cfg /\ Fixed(r.p) = Fixed(s.p) /\ r.p.cfg = s.p.cfg
      BY <1>2, <2>1, SaveIs
    <2> HIDE DEF r
    <2>3. Keeps(s, r)
      BY <1>2, <2>1, <2>2, Experiments DEF Keeps, Sound, Fixed
    <2> QED  BY <2>3 DEF r
  <1> QED  BY <1>1, <1>2

LEMMA RestoreKeeps ==
    ASSUME Sched, NEW s, Sound(s), s.out = NoSample, NEW c \in Cpu
    PROVE  Keeps(s, mod_restore_callback_gen(s, c))
  <1>1. CASE ~s.p.enabled
    BY <1>1, NothingIs DEF Keeps
  <1>2. CASE s.p.enabled
    <2> DEFINE r == mod_restore_callback_gen(s, c)
               ct == CoreType(c)
               next == ExpOf(ct, 0)
               d == rewind_experiments_in_set(MigrationSample(s), ct)
    <2>1. /\ s \in State /\ s.p.cfg \in Experiment /\ s.p.cfg # NoExp
          /\ ct \in {0, 1} /\ next \in Experiment
      BY <1>2, EnabledHasExperiment, Experiments, FirstExperiments DEF Sched
    <2>2. /\ d \in State /\ Fixed(d.p) = Fixed(s.p) /\ d.p.cfg = s.p.cfg /\ d.h = s.h
      BY <2>1, MigrationIs
    <2> DEFINE again(q, e) == [mc_restart_all_counters(mc_clear_all_counters(q), e)
                                EXCEPT !.p.lastCpu = c]
               x == [d EXCEPT !.p.cfg = next]
    <2>3. ASSUME NEW q \in State, NEW e \in Experiment,
                 Fixed(q.p) = Fixed(s.p), q.p.cfg = e
          PROVE  Keeps(s, again(q, e))
      <3> DEFINE k == mc_clear_all_counters(q)
                 u == mc_restart_all_counters(k, e)
                 a == again(q, e)
      <3>1. k \in State /\ k.p = q.p
        BY ClearIs
      <3> HIDE DEF k
      <3>2. u \in State /\ u.h = Restarted(e) /\ Fixed(u.p) = Fixed(k.p) /\ u.p.cfg = k.p.cfg
        BY <3>1, RestartIs
      <3>3. a = [u EXCEPT !.p.lastCpu = c]
        BY DEF k
      <3> HIDE DEF u, a
      <3>4. /\ a \in State /\ a.h = u.h /\ Fixed(a.p) = Fixed(u.p) /\ a.p.cfg = u.p.cfg
        BY <3>2, <3>3 DEF State, ProfType, Fixed
      <3>5. Keeps(s, a)
        BY <1>2, <2>1, <2>3, <3>1, <3>2, <3>4, Experiments
        DEF Keeps, Sound, Fixed, Restarted
      <3> QED  BY <3>5 DEF a
    <2>4. \/ r = again(x, next)
          \/ r = again(s, s.p.cfg)
          \/ r = [d EXCEPT !.p.lastCpu = c]
      <3> DEFINE moved == s.p.lastCpu = Off \/ CoreType(s.p.lastCpu) # ct
      <3>1. CASE ~moved
        BY <1>2, <2>1, <3>1 DEF mod_restore_callback_gen
      <3>2. CASE moved /\ (d.p.cfg # next \/ s.p.lastCpu = Off)
        BY <1>2, <2>1, <3>2 DEF mod_restore_callback_gen
      <3>3. CASE moved /\ ~(d.p.cfg # next \/ s.p.lastCpu = Off)
        BY <1>2, <2>1, <3>3 DEF mod_restore_callback_gen
      <3> QED  BY <3>1, <3>2, <3>3
    <2> HIDE DEF r, d, next
    <2>5. CASE r = again(x, next)
      <3>1. x \in State /\ Fixed(x.p) = Fixed(s.p) /\ x.p.cfg = next
        BY <2>1, <2>2 DEF State, ProfType, Fixed
      <3> HIDE DEF x, again
      <3>2. Keeps(s, again(x, next))
        BY <2>1, <2>3, <3>1
      <3> QED  BY <2>5, <3>2 DEF r
    <2>6. CASE r = again(s, s.p.cfg)
      <3> HIDE DEF again
      <3>1. Keeps(s, again(s, s.p.cfg))
        BY <2>1, <2>3
      <3> QED  BY <2>6, <3>1 DEF r
    <2>7. CASE r = [d EXCEPT !.p.lastCpu = c]
      <3>1. r \in State /\ r.h = d.h /\ Fixed(r.p) = Fixed(d.p) /\ r.p.cfg = d.p.cfg
        BY <2>2, <2>7 DEF State, ProfType, Fixed
      <3>2. Keeps(s, r)
        BY <2>2, <3>1 DEF Keeps, Sound, Fixed
      <3> QED  BY <3>2 DEF r
    <2> QED  BY <2>4, <2>5, <2>6, <2>7
  <1> QED  BY <1>1, <1>2

LEMMA TickKeeps ==
    ASSUME Sched, NEW s, Sound(s), s.out = NoSample, NEW c \in Cpu
    PROVE  Keeps(s, mod_tbs_tick(s, c))
  <1>1. CASE ~s.p.enabled
    BY <1>1, NothingIs DEF Keeps
  <1>2. CASE s.p.enabled
    <2> DEFINE r == mod_tbs_tick(s, c)
    <2>1. s \in State /\ s.p.cfg \in Experiment
      BY <1>2, EnabledHasExperiment
    <2>2. /\ r \in State /\ Fixed(r.p) = Fixed(s.p) /\ r.p.cfg = s.p.cfg
          /\ r.h = s.h \/ r.h = Restarted(s.p.cfg)
      BY <1>2, <2>1, TickIs
    <2> HIDE DEF r
    <2>3. Keeps(s, r)
      BY <1>2, <2>1, <2>2, Experiments DEF Keeps, Sound, Fixed, Restarted
    <2> QED  BY <2>3 DEF r
  <1> QED  BY <1>1, <1>2

LEMMA ExitKeeps ==
    ASSUME NEW s, Sound(s), s.p.enabled, NEW c \in Cpu
    PROVE  Keeps(s, mod_exit_thread(s, c))
  <1> DEFINE r == mod_exit_thread(s, c)
  <1>1. s \in State /\ s.p.cfg \in Experiment
    BY EnabledHasExperiment
  <1>2. /\ r \in State /\ r.h = Restarted(s.p.cfg) /\ r.p.cfg = s.p.cfg
        /\ r.p.enabled = s.p.enabled /\ r.p.armed = s.p.armed /\ r.p.session = s.p.session
    BY <1>1, ExitIs
  <1> HIDE DEF r
  <1>3. Keeps(s, r)
    BY <1>1, <1>2, Experiments DEF Keeps, Sound, Restarted
  <1> QED  BY <1>3 DEF r

LEMMA SetUpKeeps ==
    ASSUME Sched, NEW s, Sound(s), s.out = NoSample, NEW c \in Cpu,
           s.p.session < MaxSessions, NEW current \in BOOLEAN
    PROVE  LET r == set_up_monitoring_task(s, c, current)
           IN  Sound(r) /\ r.p.enabled /\ r.p.session = s.p.session + 1
  <1> DEFINE q == set_up_monitoring_task(s, c, FALSE)
             u == mod_restore_callback_gen(q, c)
  <1>1. /\ q \in State /\ q.h = s.h /\ q.out = s.out /\ q.p.enabled
        /\ q.p.armed = s.p.armed /\ q.p.session = s.p.session + 1
        /\ q.p.cfg = ExpOf(0, 0) /\ set_up_monitoring_task(s, c, TRUE) = u
    BY SetUpIs DEF Sound
  <1>2. ExpOf(0, 0) \in Experiment /\ NoExp \notin Experiment
    BY Experiments, FirstExperiments DEF Sched
  <1> HIDE DEF q
  <1>3. Sound(q)
    BY <1>1, <1>2 DEF Sound
  <1>4. Keeps(q, u)
    BY <1>1, <1>3, RestoreKeeps
  <1> HIDE DEF u
  <1>5. CASE current
    BY <1>1, <1>4, <1>5 DEF Keeps
  <1>6. CASE ~current
    BY <1>1, <1>3, <1>6 DEF q
  <1> QED  BY <1>5, <1>6

LEMMA DisableKeeps ==
    ASSUME Sched, NEW s, Sound(s), NEW c \in Cpu, NEW current \in BOOLEAN
    PROVE  LET r == disable_monitoring_task(s, c, current)
           IN  Sound(r) /\ ~r.p.enabled /\ r.p.session = s.p.session
  <1>1. ASSUME NEW q, Sound(q)
        PROVE  LET r == disable_monitoring_task(q, c, FALSE)
               IN  Sound(r) /\ ~r.p.enabled /\ r.p.session = q.p.session
    <2> DEFINE r == disable_monitoring_task(q, c, FALSE)
    <2>1. /\ r \in State /\ r.h = q.h /\ ~r.p.enabled /\ r.p.cfg = NoExp
          /\ r.p.armed = q.p.armed /\ r.p.session = q.p.session
      BY <1>1, DisableIs DEF Sound
    <2> HIDE DEF r
    <2>2. Sound(r) /\ ~r.p.enabled /\ r.p.session = q.p.session
      BY <1>1, <2>1 DEF Sound
    <2> QED  BY <2>2 DEF r
  <1> DEFINE u == mod_save_callback_gen(s, c)
  <1>2. Keeps(s, u) /\ disable_monitoring_task(s, c, TRUE) = disable_monitoring_task(u, c, FALSE)
    BY SaveKeeps, DisableIs DEF Sound
  <1> HIDE DEF u
  <1>3. CASE current
    BY <1>1, <1>2, <1>3 DEF Keeps
  <1>4. CASE ~current
    BY <1>1, <1>4
  <1> QED  BY <1>3, <1>4

\* The profile, the counters and the samples.
Machine ==
    /\ prof \in ProfType /\ hw \in [Cpu -> CounterType] /\ sample \in SampleType
    /\ executed \in Nat /\ delivered \in Nat
    /\ ~prof.armed
    /\ prof.enabled <=> prof.cfg # NoExp
    /\ \A c \in Cpu : hw[c].on => hw[c].exp # NoExp

\* Where the thread is, and what is about to be called: the monitor that will attach
\* has been let in, and the thread is not on the CPU where the call will execute.
Calls ==
    /\ at \in Cpu \cup {Off} /\ alive \in BOOLEAN /\ call \in Call \cup {NoCall}
    /\ call.op # "timer"
    /\ call.op = "attach" => alive /\ ~prof.enabled /\ prof.session < MaxSessions
    /\ call # NoCall => at # call.cpu /\ (setup.wakes \/ at = Off)

LEMMA Same ==
    ASSUME setup' = setup
    PROVE  /\ Experiment' = Experiment /\ CounterType' = CounterType
           /\ ProfType' = ProfType /\ SampleType' = SampleType
           /\ Sched' = Sched /\ NoMixedWakeUps' = NoMixedWakeUps
  <1>1. Experiment' = Experiment
    BY DEF Experiment
  <1>2. Tag' = Tag
    BY <1>1 DEF Tag
  <1>3. CountsType' = CountsType
    BY <1>2 DEF CountsType
  <1> QED  BY <1>1, <1>2, <1>3
           DEF CounterType, ProfType, SampleType, Sched, NoMixedWakeUps

LEMMA OnIs ==
    ASSUME Machine, NEW c \in Cpu
    PROVE  /\ Sound(On(c)) /\ On(c) \in State
           /\ On(c).p = prof /\ On(c).h = hw[c] /\ On(c).out = NoSample
  BY NoSampleIsOne DEF Machine, On, Sound, State

\* A handler has executed on CPU c, with result r.
LEMMA HandlerStep ==
    ASSUME Machine, setup' = setup, NEW c \in Cpu, NEW r, Sound(r),
           prof' = r.p, hw' = [hw EXCEPT ![c] = r.h],
           sample' = IF r.out = NoSample THEN sample ELSE r.out,
           executed' \in Nat, delivered' = delivered + r.out.n \/ delivered' = r.out.n
    PROVE  Machine' /\ hw'[c] = r.h /\ \A k \in Cpu \ {c} : hw'[k] = hw[k]
  <1>1. r.p \in ProfType /\ r.h \in CounterType /\ r.out \in SampleType /\ r.out.n \in Nat
    BY DEF Sound, State, SampleType
  <1>2. hw' \in [Cpu -> CounterType] /\ hw'[c] = r.h /\ \A k \in Cpu \ {c} : hw'[k] = hw[k]
    BY <1>1 DEF Machine
  <1>3. delivered' \in Nat
    <2> delivered \in Nat
      BY DEF Machine
    <2> QED  BY <1>1
  <1>4. sample' \in SampleType
    BY <1>1 DEF Machine
  <1>5. \A k \in Cpu : hw'[k].on => hw'[k].exp # NoExp
    BY <1>2 DEF Machine, Sound
  <1> QED  BY <1>1, <1>2, <1>3, <1>4, <1>5, Same DEF Machine, Sound, NoExp

LEMMA PerformStep ==
    ASSUME Sched, Machine, setup' = setup, NEW c \in Cpu, NEW op \in Op, Perform(op, c),
           op # "timer", op = "attach" => prof.session < MaxSessions
    PROVE  /\ Machine' /\ prof'.enabled = (op = "attach")
           /\ prof'.session = IF op = "attach" THEN prof.session + 1 ELSE prof.session
  <1> DEFINE s == On(c)
  <1>0. Sound(s) /\ s.out = NoSample /\ s.p = prof /\ executed \in Nat
    BY OnIs DEF Machine
  <1>1. CASE op = "attach"
    <2> DEFINE r == set_up_monitoring_task(s, c, at = c)
    <2>1. /\ prof' = r.p /\ hw' = [hw EXCEPT ![c] = r.h]
          /\ sample' = IF r.out = NoSample THEN sample ELSE r.out
          /\ executed' = 0 /\ delivered' = r.out.n
      BY <1>1 DEF Perform, AttachOn
    <2>2. Sound(r) /\ r.p.enabled /\ r.p.session = s.p.session + 1
      <3> HIDE DEF s
      <3> QED  BY <1>0, <1>1, SetUpKeeps
    <2>3. r.p.enabled \in BOOLEAN
      BY <2>2 DEF Sound, State, ProfType
    <2> HIDE DEF r, s
    <2>4. Machine'
      BY <2>1, <2>2, HandlerStep
    <2> QED  BY <1>0, <1>1, <2>1, <2>2, <2>3, <2>4
  <1>2. CASE op = "detach"
    <2> DEFINE r == disable_monitoring_task(s, c, at = c)
    <2>1. /\ prof' = r.p /\ hw' = [hw EXCEPT ![c] = r.h]
          /\ sample' = IF r.out = NoSample THEN sample ELSE r.out
          /\ executed' = executed /\ delivered' = delivered + r.out.n
      BY <1>2 DEF Perform, DetachOn, Becomes
    <2>2. Sound(r) /\ ~r.p.enabled /\ r.p.session = s.p.session
      <3> HIDE DEF s
      <3> QED  BY <1>0, DisableKeeps
    <2>3. r.p.enabled \in BOOLEAN
      BY <2>2 DEF Sound, State, ProfType
    <2> HIDE DEF r, s
    <2>4. Machine'
      BY <1>0, <2>1, <2>2, HandlerStep
    <2> QED  BY <1>0, <1>2, <2>1, <2>2, <2>3, <2>4
  <1> QED  BY <1>1, <1>2 DEF Op

\* The steps that are the callback of a context switch or of a tick, or an exit.
LEMMA CallbackStep ==
    ASSUME Sched, Machine, setup' = setup, NEW c \in Cpu, NEW r, Keeps(On(c), r),
           Becomes(r, c), executed' = executed
    PROVE  /\ Machine' /\ prof'.enabled = prof.enabled /\ prof'.session = prof.session
           /\ hw'[c] = r.h /\ \A k \in Cpu \ {c} : hw'[k] = hw[k]
  <1>1. executed' \in Nat /\ On(c).p = prof
    BY OnIs DEF Machine
  <1> QED  BY <1>1, HandlerStep DEF Becomes, Keeps

LEMMA TypesStep ==
    ASSUME Sched, Machine, Calls, Next
    PROVE  Machine' /\ Calls' /\ prof'.session >= prof.session
  <1> prof.session \in 0 .. MaxSessions /\ Off \notin Cpu /\ MaxSessions \in Nat
    BY Experiments, ConfigAssumption DEF Machine, ProfType
  <1> \A c \in Cpu : Sound(On(c)) /\ On(c).p = prof /\ On(c).out = NoSample
    BY OnIs
  <1> USE DEF Calls
  <1>1. ASSUME NEW c \in Cpu, SwitchIn(c) PROVE Machine' /\ Calls' /\ prof'.session >= prof.session
    <2>1. Keeps(On(c), mod_restore_callback_gen(On(c), c))
      BY RestoreKeeps
    <2>2. Machine' /\ prof'.enabled = prof.enabled /\ prof'.session = prof.session
      BY <1>1, <2>1, CallbackStep DEF SwitchIn
    <2> QED  BY <1>1, <2>2 DEF SwitchIn
  <1>2. CASE SwitchOut
    <2>1. Keeps(On(at), mod_save_callback_gen(On(at), at)) /\ at \in Cpu
      BY <1>2, SaveKeeps DEF SwitchOut
    <2>2. Machine' /\ prof'.enabled = prof.enabled /\ prof'.session = prof.session
      BY <1>2, <2>1, CallbackStep DEF SwitchOut
    <2> QED  BY <1>2, <2>2 DEF SwitchOut, Call, NoCall
  <1>3. CASE Tick
    <2>1. Keeps(On(at), mod_tbs_tick(On(at), at)) /\ at \in Cpu
      BY <1>3, TickKeeps DEF Tick
    <2>2. Machine' /\ prof'.enabled = prof.enabled /\ prof'.session = prof.session
      BY <1>3, <2>1, CallbackStep DEF Tick
    <2> QED  BY <1>3, <2>2 DEF Tick
  <1>4. CASE Exit
    <2>1. Keeps(On(at), mod_exit_thread(On(at), at)) /\ at \in Cpu
      BY <1>4, ExitKeeps DEF Exit
    <2>2. Machine' /\ prof'.enabled = prof.enabled /\ prof'.session = prof.session
      BY <1>4, <2>1, CallbackStep DEF Exit
    <2>3. prof.enabled /\ call.op # "attach" /\ alive' = FALSE /\ call' = call /\ at' = at
      BY <1>4 DEF Exit
    <2>4. setup' = setup /\ prof'.enabled
      BY <1>4, <2>2, <2>3 DEF Exit
    <2>5. alive' \in BOOLEAN /\ at' \in Cpu \cup {Off} /\ call' \in Call \cup {NoCall}
      BY <2>3
    <2>6. call' # NoCall => at' # call'.cpu /\ (setup'.wakes \/ at' = Off)
      BY <2>3, <2>4
    <2>7. Calls'
      BY <2>3, <2>5, <2>6
    <2> QED  BY <2>2, <2>7
  <1>5. ASSUME NEW op \in Op, CallOnItsCpu(op) PROVE Machine' /\ Calls' /\ prof'.session >= prof.session
    <2>1. op # "timer" /\ at \in Cpu
      BY <1>5 DEF CallOnItsCpu, Wanted, Machine
    <2>2. op = "attach" => prof.session < MaxSessions
      BY <1>5 DEF CallOnItsCpu, Wanted
    <2>3. /\ Machine' /\ prof'.enabled = (op = "attach")
          /\ prof'.session = IF op = "attach" THEN prof.session + 1 ELSE prof.session
      BY <1>5, <2>1, <2>2, PerformStep DEF CallOnItsCpu
    <2> QED  BY <1>5, <2>3 DEF CallOnItsCpu, NoCall
  <1>6. CASE CallOnOtherCpu
    <2>1. call.op \in Op /\ call.cpu \in Cpu
      BY <1>6 DEF CallOnOtherCpu, Call
    <2>2. /\ Machine' /\ prof'.enabled = (call.op = "attach")
          /\ prof'.session = IF call.op = "attach" THEN prof.session + 1 ELSE prof.session
      BY <1>6, <2>1, PerformStep DEF CallOnOtherCpu
    <2> QED  BY <1>6, <2>2 DEF CallOnOtherCpu, NoCall
  <1>7. ASSUME NEW op \in Op, NEW c \in Cpu, SeeAsleep(op, c)
        PROVE  Machine' /\ Calls' /\ prof'.session >= prof.session
    <2>1. Machine'
      BY <1>7, Same DEF SeeAsleep, Machine
    <2>2. op # "timer"
      BY <1>7 DEF SeeAsleep, Wanted, Machine
    <2>3. /\ at' = Off /\ alive' = alive /\ prof' = prof /\ call' = [op |-> op, cpu |-> c]
          /\ setup' = setup
      BY <1>7 DEF SeeAsleep
    <2>4. op = "attach" => alive /\ ~prof.enabled /\ prof.session < MaxSessions
      BY <1>7 DEF SeeAsleep, Wanted
    <2>5. call' \in Call
      BY <2>3 DEF Call
    <2>6. call'.op = op /\ call'.cpu = c /\ at' # c
      BY <2>3
    <2>7. Calls'
      BY <2>2, <2>3, <2>4, <2>5, <2>6
    <2> QED  BY <2>1, <2>3, <2>7
  <1>8. CASE Execute
    <2>1. at \in Cpu /\ hw[at] \in CounterType /\ (hw[at].on => hw[at].exp # NoExp)
      BY <1>8 DEF Execute, Machine
    <2> DEFINE t == [session |-> prof.session, exp |-> hw[at].exp, coretype |-> CoreType(at)]
               n == hw[at].n + 1
               tags == hw[at].tags \cup {t}
               k == [hw[at] EXCEPT !.n = n, !.tags = tags]
    <2>2. CASE hw[at].on
      <3>1. t \in Tag
        BY <2>1, <2>2, Experiments DEF Tag, CounterType
      <3>2. n \in Nat /\ tags \subseteq Tag
        BY <2>1, <3>1 DEF CounterType
      <3>3. hw' = [hw EXCEPT ![at] = k]
        BY <1>8, <2>1, <2>2 DEF Execute, Machine, CounterType
      <3> HIDE DEF n, tags
      <3>4. k \in CounterType /\ k.exp # NoExp
        BY <2>1, <2>2, <3>2 DEF CounterType
      <3> HIDE DEF k
      <3>5. hw' \in [Cpu -> CounterType] /\ \A c \in Cpu : hw'[c].on => hw'[c].exp # NoExp
        BY <2>1, <3>3, <3>4 DEF Machine
      <3>6. executed' \in Nat
        BY <1>8 DEF Execute, Machine
      <3>7. Machine'
        BY <1>8, <3>5, <3>6, Same DEF Execute, Machine
      <3> QED  BY <1>8, <3>7 DEF Execute
    <2>3. CASE ~hw[at].on
      <3>1. hw' = hw
        BY <1>8, <2>1, <2>3 DEF Execute, Machine
      <3>2. executed' \in Nat
        BY <1>8 DEF Execute, Machine
      <3>3. Machine'
        BY <1>8, <3>1, <3>2, Same DEF Execute, Machine
      <3> QED  BY <1>8, <3>3 DEF Execute
    <2> QED  BY <2>2, <2>3
  <1>9. ASSUME NEW c \in Cpu, OthersRun(c) PROVE Machine' /\ Calls' /\ prof'.session >= prof.session
    <2>1. Alien \in Tag
      BY ConfigAssumption DEF Alien, Tag
    <2>2. PICK k \in CounterType : hw' = [hw EXCEPT ![c] = k] /\ (k.on => k.exp # NoExp)
      <3>1. hw[c] \in CounterType /\ (hw[c].on => hw[c].exp # NoExp)
        BY DEF Machine
      <3>2. CASE hw[c].on /\ hw' = [hw EXCEPT ![c].tags = @ \cup {Alien}]
        <4> DEFINE tags == hw[c].tags \cup {Alien}
                   k == [hw[c] EXCEPT !.tags = tags]
        <4>1. hw' = [hw EXCEPT ![c] = k]
          BY <3>2 DEF Machine
        <4>2. tags \subseteq Tag
          BY <2>1, <3>1 DEF CounterType
        <4> HIDE DEF tags
        <4>3. k \in CounterType /\ (k.on => k.exp # NoExp)
          BY <3>1, <4>2 DEF CounterType
        <4> QED  BY <4>1, <4>3
      <3>3. ASSUME NEW on \in BOOLEAN,
                   hw' = [hw EXCEPT ![c] = [exp |-> Other, on |-> on, n |-> 0, tags |-> {Alien}]]
            PROVE  \E k \in CounterType :
                      hw' = [hw EXCEPT ![c] = k] /\ (k.on => k.exp # NoExp)
        <4> DEFINE k == [exp |-> Other, on |-> on, n |-> 0, tags |-> {Alien}]
        <4>1. k \in CounterType /\ k.exp # NoExp
          BY <2>1, Experiments DEF CounterType
        <4> QED  BY <3>3, <4>1
      <3> QED  BY <1>9, <3>2, <3>3 DEF OthersRun
    <2>3. hw' \in [Cpu -> CounterType] /\ \A j \in Cpu : hw'[j].on => hw'[j].exp # NoExp
      BY <2>2 DEF Machine
    <2>4. Machine'
      BY <1>9, <2>3, Same DEF OthersRun, Machine
    <2> QED  BY <1>9, <2>4 DEF OthersRun
  <1>10. CASE TimeElapses
    BY <1>10 DEF TimeElapses, Sched
  <1> QED  BY <1>1, <1>2, <1>3, <1>4, <1>5, <1>6, <1>7, <1>8, <1>9, <1>10 DEF Next

-----------------------------------------------------------------------------------
(* What holds in the first session, and before it.                                  *)

\* What the CPU has counted for the thread since its counters were last read.
Counting == at # Off /\ CountingStarted
Held == IF Counting THEN hw[at].n ELSE 0

Unused ==
    prof.session = 0 => ~prof.enabled /\ prof.values = NoCounts /\ prof.lastCpu = Off

\* There is a buffer until the thread exits, and then nothing is left to put in one.
Buffered ==
    prof.enabled => /\ prof.session >= 1
                    /\ prof.buffer <=> alive
                    /\ ~alive => prof.values.n = 0 /\ Held = 0

\* The experiment is the first of the core type of the CPU that the profile knows.
Placed ==
    prof.enabled =>
        /\ prof.lastCpu # Off => /\ prof.cfg = ExpOf(CoreType(prof.lastCpu), 0)
                                 /\ at # Off => prof.lastCpu = at
        /\ NoMixedWakeUps =>
               IF setup.bigCpu = {} THEN prof.cfg = ExpOf(0, 0)
               ELSE prof.lastCpu = Off => at = Off /\ prof.values = NoCounts

OwnTags(tags, e, ct) ==
    /\ Alien \notin tags
    /\ NoMixedWakeUps => \A t \in tags : t.exp = e /\ t.coretype = ct

OwnCounts ==
    /\ Alien \notin prof.values.tags
    /\ prof.enabled => OwnTags(prof.values.tags, prof.cfg, prof.cfg[1])

OwnCounter ==
    Counting => /\ hw[at].on /\ hw[at].exp = prof.cfg
                /\ OwnTags(hw[at].tags, prof.cfg, CoreType(at))

OwnSample(x) ==
    /\ OwnTags(x.tags, x.exp, x.coretype)
    /\ x.n =< MaxEvents
    /\ x = NoSample \/ (x.session >= 1 /\ x.exp # NoExp)

Accounted == prof.enabled => executed = delivered + prof.values.n + Held

Bounded ==
    /\ executed =< MaxEvents /\ prof.values.n =< MaxEvents
    /\ \A c \in Cpu : hw[c].n =< MaxEvents
    /\ prof.ticks =< setup.nticks - 1
    /\ ~prof.due

First ==
    /\ Unused /\ Buffered /\ Placed /\ OwnCounts /\ OwnCounter /\ OwnSample(sample)
    /\ Accounted /\ Bounded

LEMMA SetupIs ==
    ASSUME Sched
    PROVE  setup.nticks \in Nat \ {0} /\ setup.bigCpu \subseteq Cpu /\ MaxEvents \in Nat
  BY ConfigAssumption DEF Sched, Setup

\* The thread runs on a CPU of the core type that its experiment is of.
LEMMA PlacedThere ==
    ASSUME Sched, Calls, Placed, prof.enabled, at # Off, NoMixedWakeUps
    PROVE  prof.cfg[1] = CoreType(at)
  <1>1. at \in Cpu /\ CoreType(at) \in {0, 1}
    BY Experiments DEF Calls
  <1>2. prof.cfg = ExpOf(CoreType(at), 0)
    <2>1. CASE setup.bigCpu = {}
      BY <2>1 DEF Placed, CoreType
    <2>2. CASE setup.bigCpu # {}
      BY <2>2 DEF Placed
    <2> QED  BY <2>1, <2>2
  <1> QED  BY <1>1, <1>2, FirstExperiments DEF Sched

\* What a read makes of the counts of the thread that runs.
LEMMA ReadOwn ==
    ASSUME Sched, Machine, Calls, First, prof.enabled, at # Off
    PROVE  LET v == Read(On(at), prof.cfg)
           IN  /\ v \in CountsType /\ v.n = prof.values.n + Held /\ v.n =< executed
               /\ OwnTags(v.tags, prof.cfg, prof.cfg[1])
               /\ OwnTags(v.tags, prof.cfg, CoreType(at))
  <1> DEFINE v == Read(On(at), prof.cfg)
  <1>0. at \in Cpu
    BY DEF Calls
  <1>1. /\ On(at).p = prof /\ On(at).h = hw[at]
        /\ prof.values \in CountsType /\ hw[at] \in CounterType
        /\ executed \in Nat /\ delivered \in Nat
    BY <1>0, OnIs DEF Machine, ProfType
  <1>2. Counting <=> ~prof.needSetup[prof.cfg]
    BY DEF Counting, CountingStarted, Machine
  <1>3. NoMixedWakeUps => prof.cfg[1] = CoreType(at)
    BY PlacedThere DEF First
  <1>4. OwnTags(prof.values.tags, prof.cfg, prof.cfg[1])
    BY DEF First, OwnCounts
  <1>5. v \in CountsType /\ v.n = prof.values.n + Held
    <2>1. CASE prof.needSetup[prof.cfg]
      BY <1>1, <1>2, <2>1 DEF Read, Held, CountsType
    <2>2. CASE ~prof.needSetup[prof.cfg]
      <3>1. /\ prof.values.n \in Nat /\ hw[at].n \in Nat
            /\ prof.values.tags \subseteq Tag /\ hw[at].tags \subseteq Tag
        BY <1>1 DEF CountsType, CounterType
      <3>2. v = [n |-> prof.values.n + hw[at].n, tags |-> prof.values.tags \cup hw[at].tags]
        BY <1>1, <2>2 DEF Read
      <3> HIDE DEF v
      <3> QED  BY <1>2, <2>2, <3>1, <3>2 DEF Held, CountsType
    <2> QED  BY <2>1, <2>2
  <1>6. v.n =< executed
    <2>1. prof.values.n \in Nat /\ Held \in Nat
      BY <1>1 DEF CountsType, CounterType, Held
    <2> HIDE DEF v
    <2> QED  BY <1>1, <1>5, <2>1 DEF First, Accounted
  <1>7. OwnTags(v.tags, prof.cfg, prof.cfg[1])
    <2>1. CASE prof.needSetup[prof.cfg]
      BY <1>1, <1>4, <2>1 DEF Read
    <2>2. CASE ~prof.needSetup[prof.cfg]
      <3>1. v.tags = prof.values.tags \cup hw[at].tags
        BY <1>1, <2>2 DEF Read
      <3>2. OwnTags(hw[at].tags, prof.cfg, CoreType(at))
        BY <1>2, <2>2 DEF First, OwnCounter
      <3> HIDE DEF v
      <3> QED  BY <1>3, <1>4, <3>1, <3>2 DEF OwnTags
    <2> QED  BY <2>1, <2>2
  <1>8. OwnTags(v.tags, prof.cfg, CoreType(at))
    <2> HIDE DEF v
    <2> QED  BY <1>3, <1>7 DEF OwnTags
  <1> QED  BY <1>5, <1>6, <1>7, <1>8

\* A sample of such counts is the thread's; without a buffer nothing is lost either.
LEMMA PushedOwn ==
    ASSUME Sched, Machine, prof.enabled, prof.session >= 1, NEW counts \in CountsType,
           counts.n =< MaxEvents, ~prof.buffer => counts.n = 0,
           NEW ct \in {0, 1}, OwnTags(counts.tags, prof.cfg, ct)
    PROVE  LET x == SampleOf(prof, counts, ct)
           IN  OwnSample(x) /\ x.n = counts.n
  <1>1. CASE prof.buffer
    <2> DEFINE x == [session |-> prof.session, exp |-> prof.cfg, coretype |-> ct,
                     n |-> counts.n, tags |-> counts.tags]
    <2>1. SampleOf(prof, counts, ct) = x
      BY <1>1 DEF SampleOf
    <2>2. /\ x.session = prof.session /\ x.exp = prof.cfg /\ x.coretype = ct
          /\ x.n = counts.n /\ x.tags = counts.tags
      OBVIOUS
    <2> HIDE DEF x
    <2> QED  BY <2>1, <2>2 DEF OwnSample, Machine
  <1>2. CASE ~prof.buffer
    BY <1>2, SetupIs DEF SampleOf, NoSample, OwnSample, OwnTags
  <1> QED  BY <1>1, <1>2

LEMMA NoSampleOwn == ASSUME Sched PROVE OwnSample(NoSample) /\ NoSample.n = 0
  BY SetupIs DEF NoSample, OwnSample, OwnTags

LEMMA SampleStep ==
    ASSUME setup' = setup, NEW x, OwnSample(sample), OwnSample(x),
           sample' = IF x = NoSample THEN sample ELSE x
    PROVE  OwnSample(sample)'
  <1>1. NoMixedWakeUps' = NoMixedWakeUps
    BY Same
  <1>2. CASE sample' = sample
    BY <1>1, <1>2 DEF OwnSample, OwnTags, NoSample, NoExp
  <1>3. CASE sample' = x
    BY <1>1, <1>3 DEF OwnSample, OwnTags, NoSample, NoExp
  <1> QED  BY <1>2, <1>3

\* A profile that is not enabled has nothing to keep but its counts.
LEMMA IdleStep ==
    ASSUME ~prof'.enabled, Unused', Alien \notin prof'.values.tags, OwnSample(sample)', Bounded'
    PROVE  First'
  <1>1. ~Counting'
    BY DEF Counting, CountingStarted
  <1> QED  BY <1>1 DEF First, Buffered, Placed, OwnCounts, OwnCounter, Accounted, Alien

LEMMA NothingStep ==
    ASSUME Sched, Machine, First, ~prof.enabled, NEW c \in Cpu, Becomes(On(c), c),
           UNCHANGED <<setup, executed>>
    PROVE  First'
  <1>1. /\ On(c).p = prof /\ On(c).h = hw[c] /\ On(c).out = NoSample
        /\ hw \in [Cpu -> CounterType]
    BY OnIs DEF Machine
  <1>2. prof' = prof /\ hw' = hw /\ sample' = sample
    BY <1>1 DEF Becomes
  <1>3. Unused' /\ Bounded' /\ Alien \notin prof'.values.tags
    BY <1>2 DEF First, Unused, Bounded, OwnCounts, NoCounts
  <1>4. OwnSample(sample)'
    BY <1>2, SampleStep DEF First
  <1> QED  BY <1>2, <1>3, <1>4, IdleStep

LEMMA FirstSwitchIn ==
    ASSUME Sched, Machine, Calls, First, NEW c \in Cpu, SwitchIn(c)
    PROVE  First'
  <1>1. CASE ~prof.enabled
    <2>1. mod_restore_callback_gen(On(c), c) = On(c)
      BY <1>1, OnIs, NothingIs
    <2> QED  BY <1>1, <2>1, NothingStep DEF SwitchIn
  <1>2. CASE prof.enabled
    <2> DEFINE s == On(c)
               r == mod_restore_callback_gen(s, c)
               e == ExpOf(CoreType(c), 0)
    <2>1. /\ s \in State /\ s.p = prof /\ s.out = NoSample /\ Sound(s)
          /\ prof.cfg \in Experiment /\ prof.values \in CountsType /\ prof.lastCpu \in Cpu \cup {Off}
      BY <1>2, OnIs DEF Machine, ProfType
    <2>2. prof.lastCpu # Off => prof.cfg = ExpOf(CoreType(prof.lastCpu), 0)
      BY <1>2 DEF First, Placed
    <2>3. /\ r \in State /\ Fixed(r.p) = Fixed(prof) /\ r.p.cfg = e
          /\ r.h = Restarted(e) /\ r.p.needSetup[e] = FALSE /\ r.p.lastCpu = c
          /\ \/ /\ prof.lastCpu = Off \/ prof.cfg = e
                /\ r.out = NoSample /\ r.p.values = prof.values /\ r.p.ticks = prof.ticks
             \/ /\ prof.lastCpu # Off
                /\ r.out = SampleOf(prof, prof.values, CoreType(prof.lastCpu))
                /\ r.p.values = NoCounts /\ r.p.ticks = 0
      <3> HIDE DEF s
      <3>1. /\ s \in State /\ s.p.enabled /\ s.p.cfg \in Experiment /\ s.out = NoSample
            /\ s.p.lastCpu # Off => s.p.cfg = ExpOf(CoreType(s.p.lastCpu), 0)
        BY <1>2, <2>1, <2>2
      <3>2. /\ r \in State /\ Fixed(r.p) = Fixed(s.p) /\ r.p.cfg = e
            /\ r.h = Restarted(e) /\ r.p.needSetup[e] = FALSE /\ r.p.lastCpu = c
            /\ \/ /\ s.p.lastCpu = Off \/ s.p.cfg = e
                  /\ r.out = NoSample /\ r.p.values = s.p.values /\ r.p.ticks = s.p.ticks
               \/ /\ s.p.lastCpu # Off
                  /\ r.out = SampleOf(s.p, s.p.values, CoreType(s.p.lastCpu))
                  /\ r.p.values = NoCounts /\ r.p.ticks = 0
        BY <3>1, RestoreIs
      <3>3. s.p = prof
        BY <2>1
      <3> HIDE DEF r, e
      <3> QED  BY <3>2, <3>3
    <2>4. Sound(r)
      BY <2>1, RestoreKeeps DEF Keeps
    <2> HIDE DEF r, s
    <2>5. /\ at = Off /\ alive /\ at' = c /\ alive' = alive /\ setup' = setup /\ executed' = executed
          /\ prof' = r.p /\ hw' = [hw EXCEPT ![c] = r.h] /\ delivered' = delivered + r.out.n
          /\ sample' = IF r.out = NoSample THEN sample ELSE r.out
      BY <1>2 DEF SwitchIn, Becomes, r, s
    <2>6. /\ Machine' /\ hw'[c] = Restarted(e)
          /\ \A k \in Cpu \ {c} : hw'[k] = hw[k]
      BY <2>3, <2>4, <2>5, HandlerStep DEF Machine
    <2>7. /\ prof'.enabled /\ prof'.session = prof.session /\ prof'.due = prof.due
          /\ prof'.buffer = prof.buffer /\ prof'.cfg = e /\ prof'.lastCpu = c
          /\ ~prof'.needSetup[e]
      BY <1>2, <2>3, <2>5 DEF Fixed
    <2>8. Counting' /\ Held' = 0 /\ Held = 0
      BY <2>5, <2>6, <2>7, Experiments DEF Counting, CountingStarted, Held, Machine, Restarted, Off, NoExp
    <2>9. /\ prof.values.n \in Nat /\ delivered \in Nat /\ executed \in Nat
          /\ prof.buffer /\ prof.session >= 1 /\ prof.values.n =< MaxEvents
          /\ OwnTags(prof.values.tags, prof.cfg, prof.cfg[1])
      BY <1>2, <2>1, <2>5 DEF Machine, CountsType, First, Buffered, Bounded, OwnCounts
    <2>10. /\ OwnSample(r.out) /\ r.out.n + r.p.values.n = prof.values.n
           /\ r.p.values.n =< prof.values.n
           /\ r.p.values = NoCounts \/ r.p.values = prof.values
      <3>1. CASE r.out = NoSample /\ r.p.values = prof.values
        BY <2>9, <3>1, NoSampleOwn
      <3>2. CASE /\ prof.lastCpu # Off
                 /\ r.out = SampleOf(prof, prof.values, CoreType(prof.lastCpu))
                 /\ r.p.values = NoCounts
        <4> DEFINE ct == CoreType(prof.lastCpu)
        <4>1. ct \in {0, 1} /\ prof.cfg[1] = ct
          BY <2>1, <2>2, <3>2, Experiments, FirstExperiments DEF Sched
        <4> HIDE DEF ct
        <4>2. OwnSample(r.out) /\ r.out.n = prof.values.n
          BY <1>2, <2>1, <2>9, <3>2, <4>1, PushedOwn DEF ct
        <4> QED  BY <2>9, <3>2, <4>2 DEF NoCounts
      <3> QED  BY <2>3, <3>1, <3>2
    <2>11. OwnSample(sample)'
      BY <2>5, <2>10, SampleStep DEF First
    <2>12. Accounted'
      <3>1. executed = delivered + prof.values.n
        BY <1>2, <2>8, <2>9 DEF First, Accounted
      <3>2. r.out.n \in Nat /\ r.p.values.n \in Nat
        BY <2>3 DEF State, SampleType, ProfType, CountsType
      <3> QED  BY <2>5, <2>8, <2>9, <2>10, <3>1, <3>2 DEF Accounted
    <2>13. OwnTags(r.p.values.tags, e, e[1])
      <3>1. CASE r.p.values = NoCounts
        BY <3>1 DEF NoCounts, OwnTags
      <3>2. CASE prof.cfg = e /\ r.p.values = prof.values
        BY <2>9, <3>2
      <3>3. CASE prof.lastCpu = Off /\ r.p.values = prof.values
        <4>1. CASE ~NoMixedWakeUps
          BY <2>9, <3>3, <4>1 DEF OwnTags
        <4>2. CASE NoMixedWakeUps
          <5>1. CASE setup.bigCpu = {}
            BY <1>2, <2>9, <3>3, <4>2, <5>1 DEF First, Placed, CoreType
          <5>2. CASE setup.bigCpu # {}
            BY <1>2, <3>3, <4>2, <5>2 DEF First, Placed, NoCounts, OwnTags
          <5> QED  BY <5>1, <5>2
        <4> QED  BY <4>1, <4>2
      <3> QED  BY <2>3, <3>1, <3>2, <3>3
    <2>14. OwnCounts'
      <3>1. NoMixedWakeUps' = NoMixedWakeUps /\ Alien' = Alien
        BY <2>5, Same DEF Alien
      <3> QED  BY <2>5, <2>7, <2>13, <3>1 DEF OwnCounts, OwnTags
    <2>15. OwnCounter'
      BY <2>5, <2>6, <2>7 DEF OwnCounter, OwnTags, Restarted
    <2>16. Placed'
      <3>1. e = ExpOf(CoreType(prof.lastCpu), 0)'
        BY <2>5, <2>7 DEF CoreType, ExpOf
      <3>2. setup.bigCpu = {} => e = ExpOf(0, 0)
        BY DEF CoreType
      <3> QED  BY <2>5, <2>7, <3>1, <3>2, Experiments DEF Placed, ExpOf, CoreType
    <2>17. Bounded'
      <3>1. prof'.ticks =< setup.nticks - 1
        <4> setup.nticks \in Nat \ {0}
          BY SetupIs
        <4> QED  BY <2>3, <2>5 DEF First, Bounded
      <3>2. \A k \in Cpu : hw'[k].n =< MaxEvents
        BY <2>6, SetupIs DEF First, Bounded, Restarted
      <3>3. executed' =< MaxEvents /\ ~prof'.due
        BY <2>5, <2>7 DEF First, Bounded
      <3>4. prof'.values.n =< MaxEvents
        BY <2>5, <2>9, <2>10, SetupIs DEF NoCounts
      <3> QED  BY <2>5, <3>1, <3>2, <3>3, <3>4 DEF Bounded
    <2>18. Unused' /\ Buffered'
      BY <2>5, <2>7, <2>9 DEF Unused, Buffered, First
    <2> QED  BY <2>11, <2>12, <2>14, <2>15, <2>16, <2>17, <2>18 DEF First
  <1> QED  BY <1>1, <1>2

LEMMA FirstSwitchOut ==
    ASSUME Sched, Machine, Calls, First, SwitchOut
    PROVE  First'
  <1>0. at \in Cpu
    BY DEF SwitchOut, Calls
  <1>1. CASE ~prof.enabled
    <2>1. mod_save_callback_gen(On(at), at) = On(at)
      BY <1>0, <1>1, OnIs, NothingIs
    <2> QED  BY <1>0, <1>1, <2>1, NothingStep DEF SwitchOut
  <1>2. CASE prof.enabled
    <2> DEFINE s == On(at)
               r == mod_save_callback_gen(s, at)
               v == Read(s, prof.cfg)
    <2>1. /\ s \in State /\ s.p = prof /\ s.out = NoSample /\ Sound(s) /\ prof.cfg \in Experiment
      BY <1>0, <1>2, OnIs DEF Machine, ProfType
    <2>2. /\ v \in CountsType /\ v.n = prof.values.n + Held /\ v.n =< executed
          /\ OwnTags(v.tags, prof.cfg, prof.cfg[1])
      BY <1>2, ReadOwn DEF SwitchOut
    <2> HIDE DEF v, s
    <2>3. /\ r \in State /\ Fixed(r.p) = Fixed(prof) /\ r.p.cfg = prof.cfg
          /\ r.h.n = 0 /\ r.out = NoSample /\ r.p.values = v /\ r.p.ticks = prof.ticks
          /\ r.p.lastCpu = IF prof.lastCpu # Off THEN at ELSE Off
      BY <1>0, <1>2, <2>1, SaveIs DEF v
    <2>4. Sound(r)
      BY <1>0, <2>1, SaveKeeps DEF Keeps
    <2> HIDE DEF r
    <2>5. /\ at # Off /\ at' = Off /\ alive' = alive /\ setup' = setup /\ executed' = executed
          /\ prof' = r.p /\ hw' = [hw EXCEPT ![at] = r.h] /\ delivered' = delivered + r.out.n
          /\ sample' = IF r.out = NoSample THEN sample ELSE r.out
      BY DEF SwitchOut, Becomes, r, s
    <2>6. Machine' /\ hw'[at] = r.h /\ \A k \in Cpu \ {at} : hw'[k] = hw[k]
      BY <1>0, <2>4, <2>5, HandlerStep DEF Machine
    <2>7. /\ prof'.enabled /\ prof'.session = prof.session /\ prof'.due = prof.due
          /\ prof'.buffer = prof.buffer /\ prof'.cfg = prof.cfg
      BY <1>2, <2>3, <2>5 DEF Fixed
    <2>8. ~Counting' /\ Held' = 0
      BY <2>5 DEF Counting, Held
    <2>9. delivered \in Nat /\ executed \in Nat /\ executed =< MaxEvents /\ MaxEvents \in Nat
      BY SetupIs DEF Machine, First, Bounded
    <2>10. OwnSample(sample)' /\ delivered' = delivered
      BY <2>3, <2>5, <2>9, NoSampleOwn, SampleStep DEF First
    <2>11. Accounted'
      <3>1. prof.values.n \in Nat /\ Held \in Nat
        BY <1>0 DEF Machine, ProfType, CountsType, CounterType, Held
      <3> QED  BY <1>2, <2>2, <2>3, <2>5, <2>8, <2>9, <2>10, <3>1 DEF First, Accounted
    <2>12. OwnCounts'
      <3>1. NoMixedWakeUps' = NoMixedWakeUps
        BY <2>5, Same
      <3> QED  BY <2>2, <2>3, <2>5, <2>7, <3>1 DEF OwnCounts, OwnTags, Alien
    <2>13. Placed'
      <3>1. prof'.lastCpu # Off => prof.lastCpu = at /\ prof'.lastCpu = at
        BY <1>2, <2>3, <2>5 DEF First, Placed
      <3>2. NoMixedWakeUps' = NoMixedWakeUps
        BY <2>5, Same
      <3> QED  BY <1>2, <2>3, <2>5, <2>7, <3>1, <3>2 DEF First, Placed, ExpOf, CoreType
    <2>14. Bounded'
      <3>1. \A k \in Cpu : hw'[k].n =< MaxEvents
        BY <2>3, <2>6, <2>9 DEF First, Bounded
      <3>2. v.n =< MaxEvents
        BY <2>2, <2>9 DEF CountsType
      <3> QED  BY <2>3, <2>5, <2>7, <2>9, <3>1, <3>2 DEF First, Bounded
    <2>15. Unused' /\ Buffered'
      BY <1>2, <2>2, <2>3, <2>5, <2>7, <2>8 DEF Unused, Buffered, First, Machine, ProfType
    <2>16. OwnCounter'
      BY <2>8 DEF OwnCounter
    <2> QED  BY <2>10, <2>11, <2>12, <2>13, <2>14, <2>15, <2>16 DEF First
  <1> QED  BY <1>1, <1>2

LEMMA FirstTick ==
    ASSUME Sched, Machine, Calls, First, Tick
    PROVE  First'
  <1>0. at \in Cpu
    BY DEF Tick, Calls
  <1>1. CASE ~prof.enabled
    <2>1. mod_tbs_tick(On(at), at) = On(at)
      BY <1>0, <1>1, OnIs, NothingIs
    <2> QED  BY <1>0, <1>1, <2>1, NothingStep DEF Tick
  <1>2. CASE prof.enabled
    <2> DEFINE s == On(at)
               r == mod_tbs_tick(s, at)
               v == Read(s, prof.cfg)
               x == SampleOf(prof, v, CoreType(at))
    <2>1. /\ s \in State /\ s.p = prof /\ s.h = hw[at] /\ s.out = NoSample /\ Sound(s)
          /\ prof.cfg \in Experiment /\ CoreType(at) \in {0, 1}
          /\ prof.needSetup \in [Experiment -> BOOLEAN] /\ prof.values \in CountsType
          /\ prof.ticks \in Nat /\ hw[at] \in CounterType
      BY <1>0, <1>2, OnIs, Experiments DEF Machine, ProfType
    <2>2. /\ v \in CountsType /\ v.n = prof.values.n + Held /\ v.n =< executed
          /\ OwnTags(v.tags, prof.cfg, prof.cfg[1])
          /\ OwnTags(v.tags, prof.cfg, CoreType(at))
      BY <1>2, ReadOwn DEF Tick
    <2> HIDE DEF v, s
    <2>3. /\ r \in State /\ Fixed(r.p) = Fixed(prof) /\ r.p.cfg = prof.cfg
          /\ r.p.lastCpu = prof.lastCpu
          /\ \/ /\ prof.ticks >= setup.nticks - 1
                /\ r.out = x /\ r.p.values = NoCounts /\ r.p.ticks = 0
                /\ r.h = Restarted(prof.cfg) /\ r.p.needSetup[prof.cfg] = FALSE
             \/ /\ ~(prof.ticks >= setup.nticks - 1)
                /\ r.out = NoSample /\ r.p.values = prof.values
                /\ r.p.ticks = prof.ticks + 1
                /\ r.h = hw[at] /\ r.p.needSetup = prof.needSetup
      BY <1>0, <1>2, <2>1, TickIs, ZenonT(30) DEF v
    <2>4. Sound(r)
      BY <1>0, <2>1, TickKeeps DEF Keeps
    <2> HIDE DEF r, x
    <2>5. /\ at # Off /\ at' = at /\ alive' = alive /\ setup' = setup /\ executed' = executed
          /\ prof' = r.p /\ hw' = [hw EXCEPT ![at] = r.h] /\ delivered' = delivered + r.out.n
          /\ sample' = IF r.out = NoSample THEN sample ELSE r.out
      BY DEF Tick, Becomes, r, s
    <2>6. Machine' /\ hw'[at] = r.h /\ \A k \in Cpu \ {at} : hw'[k] = hw[k]
      BY <1>0, <2>4, <2>5, HandlerStep DEF Machine
    <2>7. /\ prof'.enabled /\ prof'.session = prof.session /\ prof'.due = prof.due
          /\ prof'.buffer = prof.buffer /\ prof'.cfg = prof.cfg /\ prof'.lastCpu = prof.lastCpu
      BY <1>2, <2>3, <2>5 DEF Fixed
    <2>8. /\ delivered \in Nat /\ executed \in Nat /\ executed =< MaxEvents /\ MaxEvents \in Nat
          /\ setup.nticks \in Nat \ {0} /\ prof.session >= 1 /\ (prof.buffer <=> alive)
          /\ (~alive => v.n = 0) /\ prof.values.n \in Nat /\ Held \in Nat
          /\ executed = delivered + prof.values.n + Held /\ v.n \in Nat /\ v.n =< MaxEvents
      <3>1. Held \in Nat
        BY <2>1 DEF Held, CounterType
      <3>2. prof.values.n \in Nat /\ v.n \in Nat
        BY <2>1, <2>2 DEF CountsType
      <3>3. executed \in Nat /\ executed =< MaxEvents /\ MaxEvents \in Nat
        BY SetupIs DEF Machine, First, Bounded
      <3>4. v.n =< MaxEvents
        BY <2>2, <3>2, <3>3
      <3> QED  BY <1>2, <2>2, <3>1, <3>2, <3>3, <3>4, SetupIs
               DEF Machine, First, Bounded, Buffered, Accounted
    <2>9. Placed'
      <3>1. NoMixedWakeUps => (setup.bigCpu # {} => prof.lastCpu # Off)
        BY <1>2, <2>5 DEF First, Placed
      <3>2. NoMixedWakeUps' = NoMixedWakeUps
        BY <2>5, Same
      <3> QED  BY <1>2, <2>5, <2>7, <3>1, <3>2 DEF First, Placed, ExpOf, CoreType
    <2>10. CASE prof.ticks >= setup.nticks - 1
      <3>1. OwnSample(x) /\ x.n = v.n
        BY <1>2, <2>1, <2>2, <2>8, PushedOwn DEF x
      <3>2. OwnSample(sample)' /\ delivered' = delivered + v.n
        BY <2>3, <2>5, <2>10, <3>1, SampleStep DEF First
      <3>3. Counting' /\ Held' = 0 /\ prof'.values = NoCounts /\ hw'[at] = Restarted(prof.cfg)
        BY <2>1, <2>3, <2>5, <2>6, <2>7, <2>10, Experiments
        DEF Counting, CountingStarted, Held, Restarted, NoExp, Off
      <3>4. Accounted'
        BY <2>2, <2>5, <2>8, <3>2, <3>3 DEF Accounted, NoCounts
      <3>5. OwnCounts' /\ OwnCounter'
        BY <2>5, <2>7, <3>3 DEF OwnCounts, OwnCounter, OwnTags, NoCounts, Restarted, Alien
      <3>6. Bounded'
        <4>1. \A k \in Cpu : hw'[k].n =< MaxEvents
          BY <2>6, <2>8, <3>3 DEF First, Bounded, Restarted
        <4>2. prof'.ticks = 0
          BY <2>3, <2>5, <2>10
        <4> QED  BY <2>5, <2>7, <2>8, <3>3, <4>1, <4>2 DEF First, Bounded, NoCounts
      <3>7. Unused' /\ Buffered'
        BY <2>5, <2>7, <2>8, <3>3 DEF Unused, Buffered, NoCounts
      <3> QED  BY <2>9, <3>2, <3>4, <3>5, <3>6, <3>7 DEF First
    <2>11. CASE ~(prof.ticks >= setup.nticks - 1)
      <3>1. hw' = hw /\ prof'.values = prof.values /\ prof'.needSetup = prof.needSetup
        BY <2>3, <2>5, <2>11 DEF Machine
      <3>2. OwnSample(sample)' /\ delivered' = delivered
        BY <2>3, <2>5, <2>8, <2>11, NoSampleOwn, SampleStep DEF First
      <3>3. Counting' = Counting /\ Held' = Held
        BY <1>2, <2>5, <2>7, <3>1 DEF Counting, CountingStarted, Held, NoExp, Off
      <3>4. NoMixedWakeUps' = NoMixedWakeUps
        BY <2>5, Same
      <3>5. Accounted' /\ OwnCounts'
        BY <1>2, <2>5, <2>7, <3>1, <3>2, <3>3, <3>4 DEF First, Accounted, OwnCounts, OwnTags, Alien
      <3>6. OwnCounter'
        BY <2>5, <2>7, <3>1, <3>3, <3>4 DEF First, OwnCounter, OwnTags, Alien, CoreType
      <3>7. Bounded'
        <4>1. prof'.ticks =< setup.nticks - 1
          BY <2>1, <2>3, <2>5, <2>8, <2>11
        <4> QED  BY <2>5, <2>7, <3>1, <4>1 DEF First, Bounded
      <3>8. Unused' /\ Buffered'
        BY <1>2, <2>5, <2>7, <2>8, <3>1, <3>3 DEF First, Unused, Buffered
      <3> QED  BY <2>9, <3>2, <3>5, <3>6, <3>7, <3>8 DEF First
    <2> QED  BY <2>10, <2>11
  <1> QED  BY <1>1, <1>2

LEMMA FirstExit ==
    ASSUME Sched, Machine, Calls, First, Exit
    PROVE  First'
  <1> DEFINE s == On(at)
             r == mod_exit_thread(s, at)
             v == Read(s, prof.cfg)
             x == SampleOf(prof, v, CoreType(at))
  <1>0. /\ at \in Cpu /\ at # Off /\ prof.enabled /\ prof.buffer /\ alive
    BY DEF Exit, Calls
  <1>1. /\ s \in State /\ s.p = prof /\ Sound(s)
        /\ prof.cfg \in Experiment /\ CoreType(at) \in {0, 1}
        /\ prof.values \in CountsType /\ hw[at] \in CounterType
    BY <1>0, OnIs, Experiments DEF Machine, ProfType
  <1>2. /\ v \in CountsType /\ v.n = prof.values.n + Held /\ v.n =< executed
        /\ OwnTags(v.tags, prof.cfg, CoreType(at))
    BY <1>0, ReadOwn
  <1> HIDE DEF v, s
  <1>3. /\ r \in State /\ r.h = Restarted(prof.cfg) /\ r.out = x
        /\ r.p.values = NoCounts /\ r.p.cfg = prof.cfg /\ r.p.lastCpu = prof.lastCpu
        /\ r.p.ticks = prof.ticks /\ r.p.needSetup[prof.cfg] = FALSE
        /\ r.p.enabled = prof.enabled /\ r.p.session = prof.session
        /\ ~r.p.due /\ ~r.p.buffer
    BY <1>0, <1>1, ExitIs DEF v
  <1>4. Sound(r)
    BY <1>0, <1>1, ExitKeeps DEF Keeps
  <1> HIDE DEF r, x
  <1>5. /\ at' = at /\ alive' = FALSE /\ setup' = setup /\ executed' = executed
        /\ prof' = r.p /\ hw' = [hw EXCEPT ![at] = r.h] /\ delivered' = delivered + r.out.n
        /\ sample' = IF r.out = NoSample THEN sample ELSE r.out
    BY DEF Exit, Becomes, r, s
  <1>6. Machine' /\ hw'[at] = r.h /\ \A k \in Cpu \ {at} : hw'[k] = hw[k]
    BY <1>0, <1>4, <1>5, HandlerStep DEF Machine
  <1>7. /\ prof'.enabled /\ prof'.session = prof.session /\ ~prof'.due /\ ~prof'.buffer
        /\ prof'.cfg = prof.cfg /\ prof'.lastCpu = prof.lastCpu /\ prof'.values = NoCounts
        /\ prof'.ticks = prof.ticks
    BY <1>0, <1>3, <1>5
  <1>8. /\ delivered \in Nat /\ executed \in Nat /\ MaxEvents \in Nat /\ v.n \in Nat
        /\ v.n =< MaxEvents /\ prof.session >= 1 /\ executed = delivered + v.n
    <2>1. prof.values.n \in Nat /\ v.n \in Nat /\ Held \in Nat
      BY <1>1, <1>2 DEF CountsType, CounterType, Held
    <2>2. /\ executed \in Nat /\ delivered \in Nat /\ executed =< MaxEvents /\ MaxEvents \in Nat
      BY SetupIs DEF Machine, First, Bounded
    <2> QED  BY <1>0, <1>2, <2>1, <2>2 DEF First, Buffered, Accounted
  <1>9. OwnSample(x) /\ x.n = v.n
    BY <1>0, <1>1, <1>2, <1>8, PushedOwn DEF x
  <1>10. OwnSample(sample)' /\ delivered' = delivered + v.n
    BY <1>3, <1>5, <1>9, SampleStep DEF First
  <1>11. Held' = 0 /\ hw'[at] = Restarted(prof.cfg)
    BY <1>3, <1>5, <1>6 DEF Held, Restarted
  <1>12. Accounted' /\ OwnCounts' /\ OwnCounter'
    BY <1>5, <1>7, <1>8, <1>10, <1>11
    DEF Accounted, OwnCounts, OwnCounter, OwnTags, NoCounts, Restarted, Alien
  <1>13. Placed'
    <2>1. NoMixedWakeUps => (setup.bigCpu # {} => prof.lastCpu # Off)
      BY <1>0 DEF First, Placed
    <2>2. NoMixedWakeUps' = NoMixedWakeUps
      BY <1>5, Same
    <2> QED  BY <1>0, <1>5, <1>7, <2>1, <2>2 DEF First, Placed, ExpOf, CoreType
  <1>14. Bounded'
    <2>1. \A k \in Cpu : hw'[k].n =< MaxEvents
      BY <1>6, <1>8, <1>11 DEF First, Bounded, Restarted
    <2> QED  BY <1>5, <1>7, <1>8, <2>1 DEF First, Bounded, NoCounts
  <1>15. Unused' /\ Buffered'
    BY <1>5, <1>7, <1>8, <1>11 DEF Unused, Buffered, NoCounts
  <1> QED  BY <1>10, <1>12, <1>13, <1>14, <1>15 DEF First

LEMMA FirstAttach ==
    ASSUME Sched, Machine, Calls, First, NEW c \in Cpu, AttachOn(c),
           UNCHANGED <<setup, at, alive>>, alive, ~prof.enabled,
           prof.session < MaxSessions, prof'.session =< 1,
           at = c \/ at = Off \/ setup.wakes
    PROVE  First'
  <1> DEFINE s == On(c)
             q == set_up_monitoring_task(s, c, FALSE)
             r == set_up_monitoring_task(s, c, at = c)
  <1>1. /\ s \in State /\ s.p = prof /\ s.h = hw[c] /\ s.out = NoSample /\ Sound(s)
        /\ prof.session \in Nat /\ MaxEvents \in Nat /\ setup.nticks \in Nat \ {0}
    BY OnIs, SetupIs, ConfigAssumption DEF Machine, ProfType
  <1> HIDE DEF s
  <1>2. /\ prof' = r.p /\ hw' = [hw EXCEPT ![c] = r.h] /\ executed' = 0 /\ delivered' = r.out.n
        /\ sample' = IF r.out = NoSample THEN sample ELSE r.out
    BY DEF AttachOn, s
  <1>3. Sound(r) /\ r.p.session = prof.session + 1
    BY <1>1, SetUpKeeps
  <1>4. prof.session = 0 /\ prof.values = NoCounts /\ prof.lastCpu = Off
    BY <1>1, <1>2, <1>3 DEF First, Unused
  <1>5. Machine' /\ hw'[c] = r.h /\ \A k \in Cpu \ {c} : hw'[k] = hw[k]
    <2> HIDE DEF r
    <2> QED  BY <1>2, <1>3, HandlerStep
  <1>6. /\ q \in State /\ q.h = hw[c] /\ q.out = NoSample
        /\ q.p.enabled /\ q.p.buffer /\ ~q.p.due
        /\ q.p.session = 1 /\ q.p.cfg = ExpOf(0, 0)
        /\ q.p.needSetup = [e \in Experiment |-> TRUE]
        /\ q.p.values = NoCounts /\ q.p.lastCpu = Off /\ q.p.ticks = prof.ticks
    <2>1. /\ q \in State /\ q.h = s.h /\ q.out = s.out
          /\ q.p.enabled /\ q.p.buffer /\ ~q.p.due
          /\ q.p.session = s.p.session + 1 /\ q.p.cfg = ExpOf(0, 0)
          /\ q.p.needSetup = [e \in Experiment |-> TRUE]
          /\ q.p.values = s.p.values /\ q.p.lastCpu = s.p.lastCpu /\ q.p.ticks = s.p.ticks
      BY <1>1, SetUpIs
    <2> HIDE DEF q, r
    <2> QED  BY <1>1, <1>4, <2>1
  <1>10. set_up_monitoring_task(s, c, TRUE) = mod_restore_callback_gen(q, c)
    BY <1>1, SetUpIs
  <1>7. ExpOf(0, 0) \in Experiment /\ NoExp \notin Experiment
    BY Experiments, FirstExperiments DEF Sched
  <1> HIDE DEF q
  <1>8. CASE at = c
    <2> DEFINE e == ExpOf(CoreType(c), 0)
    <2>1. r = mod_restore_callback_gen(q, c)
      BY <1>8, <1>10
    <2>2. /\ Fixed(r.p) = Fixed(q.p) /\ r.p.cfg = e
          /\ r.h = Restarted(e) /\ r.p.needSetup[e] = FALSE /\ r.p.lastCpu = c
          /\ r.out = NoSample /\ r.p.values = NoCounts /\ r.p.ticks = prof.ticks
      <3> DEFINE u == mod_restore_callback_gen(q, c)
      <3>1. /\ Fixed(u.p) = Fixed(q.p) /\ u.p.cfg = e
            /\ u.h = Restarted(e) /\ u.p.needSetup[e] = FALSE /\ u.p.lastCpu = c
            /\ u.out = NoSample /\ u.p.values = q.p.values /\ u.p.ticks = q.p.ticks
        <4>1. /\ q \in State /\ q.p.enabled /\ q.p.cfg \in Experiment /\ q.out = NoSample
              /\ q.p.lastCpu = Off
          BY <1>6, <1>7
        <4> QED  BY <4>1, RestoreIs, ZenonT(30)
      <3> HIDE DEF r, u
      <3> QED  BY <1>6, <2>1, <3>1 DEF u
    <2> HIDE DEF r
    <2>3. /\ prof'.enabled /\ prof'.buffer /\ ~prof'.due /\ prof'.session = 1
          /\ prof'.cfg = e /\ prof'.lastCpu = c /\ prof'.values = NoCounts
          /\ prof'.ticks = prof.ticks
      BY <1>2, <1>6, <2>2 DEF Fixed
    <2>4. hw'[at] = Restarted(e) /\ at' = at /\ at # Off
      BY <1>5, <1>8, <2>2, Experiments
    <2>5. Held' = 0
      BY <2>4 DEF Held, Restarted
    <2>6. OwnSample(sample)' /\ delivered' = 0
      BY <1>2, <2>2, NoSampleOwn, SampleStep DEF First
    <2>7. Accounted' /\ OwnCounts' /\ OwnCounter'
      BY <1>2, <2>3, <2>4, <2>5, <2>6
      DEF Accounted, OwnCounts, OwnCounter, OwnTags, NoCounts, Restarted, Alien
    <2>8. Placed'
      <3>1. e = ExpOf(CoreType(prof.lastCpu), 0)'
        BY <2>3 DEF CoreType, ExpOf
      <3>2. setup.bigCpu = {} => e = ExpOf(0, 0)
        BY DEF CoreType
      <3> QED  BY <1>8, <2>3, <2>4, <3>1, <3>2, Experiments DEF Placed, ExpOf, CoreType
    <2>9. Bounded'
      <3>1. \A k \in Cpu : hw'[k].n =< MaxEvents
        BY <1>1, <1>5, <2>2 DEF First, Bounded, Restarted
      <3> QED  BY <1>1, <1>2, <2>3, <3>1 DEF First, Bounded, NoCounts
    <2>10. Unused' /\ Buffered'
      BY <2>3 DEF Unused, Buffered
    <2> QED  BY <2>6, <2>7, <2>8, <2>9, <2>10 DEF First
  <1>9. CASE at # c
    <2>1. r = q
      BY <1>9 DEF q
    <2> HIDE DEF r
    <2>2. /\ prof'.enabled /\ prof'.buffer /\ ~prof'.due /\ prof'.session = 1
          /\ prof'.cfg = ExpOf(0, 0) /\ prof'.lastCpu = Off /\ prof'.values = NoCounts
          /\ prof'.ticks = prof.ticks /\ prof'.needSetup = [e \in Experiment |-> TRUE]
      BY <1>2, <1>6, <2>1
    <2>3. hw' = hw /\ at' = at
      BY <1>2, <1>6, <2>1 DEF Machine
    <2>4. ~Counting' /\ Held' = 0
      <3>1. prof'.needSetup[prof'.cfg] = TRUE
        BY <1>7, <2>2
      <3> QED  BY <3>1 DEF Counting, CountingStarted, Held
    <2>5. OwnSample(sample)' /\ delivered' = 0
      BY <1>2, <1>6, <2>1, NoSampleOwn, SampleStep DEF First
    <2>6. Accounted' /\ OwnCounts' /\ OwnCounter'
      BY <1>2, <2>2, <2>4, <2>5 DEF Accounted, OwnCounts, OwnCounter, OwnTags, NoCounts, Alien
    <2>7. Placed'
      <3>1. NoMixedWakeUps /\ setup.bigCpu # {} => at = Off
        BY <1>9 DEF NoMixedWakeUps
      <3>2. NoMixedWakeUps' = NoMixedWakeUps
        BY Same
      <3> QED  BY <2>2, <2>3, <3>1, <3>2 DEF Placed, ExpOf, NoCounts
    <2>8. Bounded'
      BY <1>1, <1>2, <2>2, <2>3 DEF First, Bounded, NoCounts
    <2>9. Unused' /\ Buffered'
      BY <2>2 DEF Unused, Buffered
    <2> QED  BY <2>5, <2>6, <2>7, <2>8, <2>9 DEF First
  <1> QED  BY <1>8, <1>9

LEMMA FirstDetach ==
    ASSUME Sched, Machine, Calls, First, NEW c \in Cpu, DetachOn(c),
           UNCHANGED <<setup, at, alive>>, at = c => prof.enabled
    PROVE  First'
  <1> DEFINE s == On(c)
             q == IF at = c THEN mod_save_callback_gen(s, c) ELSE s
             r == disable_monitoring_task(s, c, at = c)
  <1>1. /\ s \in State /\ s.p = prof /\ s.h = hw[c] /\ s.out = NoSample /\ Sound(s)
        /\ MaxEvents \in Nat
    BY OnIs, SetupIs
  <1>2. /\ q \in State /\ q.out = NoSample /\ q.p.due = prof.due /\ q.p.ticks = prof.ticks
        /\ q.p.session = prof.session /\ Alien \notin q.p.values.tags
        /\ q.p.values.n =< MaxEvents /\ q.h.n =< MaxEvents
        /\ prof.session = 0 => q.p.values = NoCounts /\ q.p.lastCpu = Off
    <2>1. CASE at = c
      <3> DEFINE u == mod_save_callback_gen(s, c)
                 v == Read(s, prof.cfg)
      <3>1. prof.cfg \in Experiment /\ prof.session >= 1 /\ at # Off
        BY <2>1, Experiments DEF Machine, ProfType, First, Buffered
      <3>2. /\ v \in CountsType /\ v.n =< executed /\ OwnTags(v.tags, prof.cfg, prof.cfg[1])
        BY <2>1, <3>1, ReadOwn
      <3>3. v.n =< MaxEvents
        <4> v.n \in Nat /\ executed \in Nat /\ executed =< MaxEvents
          BY <3>2 DEF CountsType, Machine, First, Bounded
        <4> QED  BY <1>1, <3>2
      <3> HIDE DEF s, v
      <3>4. /\ u \in State /\ u.out = NoSample /\ u.h.n = 0 /\ Fixed(u.p) = Fixed(prof)
            /\ u.p.values = v /\ u.p.ticks = prof.ticks
        BY <1>1, <2>1, <3>1, SaveIs DEF v
      <3> HIDE DEF u
      <3>5. q = u
        BY <2>1 DEF u
      <3> HIDE DEF q
      <3> QED  BY <1>1, <3>1, <3>2, <3>3, <3>4, <3>5 DEF Fixed, OwnTags
    <2>2. CASE at # c
      BY <1>1, <2>2 DEF First, Bounded, OwnCounts, Unused
    <2> QED  BY <2>1, <2>2
  <1>3. r = disable_monitoring_task(q, c, FALSE)
    BY <1>1, DisableIs
  <1> HIDE DEF q, s
  <1>4. /\ r.h = q.h /\ r.out = NoSample /\ ~r.p.enabled
        /\ r.p.due = prof.due /\ r.p.session = prof.session /\ r.p.values = q.p.values
        /\ r.p.lastCpu = q.p.lastCpu /\ r.p.ticks = prof.ticks
    <2> DEFINE d == disable_monitoring_task(q, c, FALSE)
    <2>1. /\ d.h = q.h /\ d.out = q.out /\ ~d.p.enabled
          /\ d.p.due = q.p.due /\ d.p.session = q.p.session /\ d.p.values = q.p.values
          /\ d.p.lastCpu = q.p.lastCpu /\ d.p.ticks = q.p.ticks
      BY <1>2, DisableIs
    <2> HIDE DEF d, r
    <2> QED  BY <1>2, <1>3, <2>1 DEF d
  <1>5. Sound(r)
    BY <1>1, DisableKeeps
  <1> HIDE DEF r
  <1>6. /\ prof' = r.p /\ hw' = [hw EXCEPT ![c] = r.h] /\ executed' = executed
        /\ sample' = IF r.out = NoSample THEN sample ELSE r.out
        /\ delivered' = delivered + r.out.n
    BY DEF DetachOn, Becomes, r, s
  <1>7. Machine' /\ hw'[c] = q.h /\ \A k \in Cpu \ {c} : hw'[k] = hw[k]
    BY <1>4, <1>5, <1>6, HandlerStep DEF Machine
  <1>8. OwnSample(sample)'
    BY <1>4, <1>6, NoSampleOwn, SampleStep DEF First
  <1>9. Bounded'
    <2>1. \A k \in Cpu : hw'[k].n =< MaxEvents
      BY <1>2, <1>7 DEF First, Bounded
    <2> QED  BY <1>2, <1>4, <1>6, <2>1 DEF First, Bounded
  <1>10. Unused' /\ Alien \notin prof'.values.tags /\ ~prof'.enabled
    BY <1>2, <1>4, <1>6 DEF Unused, NoCounts
  <1> QED  BY <1>8, <1>9, <1>10, IdleStep

\* The steps that leave the profile and the samples alone.
LEMMA FirstElsewhere ==
    ASSUME Sched, First, Counting' = Counting, Counting => hw'[at] = hw[at],
           \A c \in Cpu : hw'[c].n =< MaxEvents,
           UNCHANGED <<setup, at, alive, prof, sample, executed, delivered>>
    PROVE  First'
  <1>1. NoMixedWakeUps' = NoMixedWakeUps
    BY Same
  <1>2. Held' = Held
    BY DEF Held
  <1>3. Unused' /\ Buffered' /\ Accounted' /\ Bounded'
    BY <1>2 DEF First, Unused, Buffered, Accounted, Bounded, NoCounts
  <1>4. Placed'
    BY <1>1 DEF First, Placed, NoCounts, ExpOf, CoreType
  <1>5. OwnCounts' /\ OwnCounter'
    BY <1>1 DEF First, OwnCounts, OwnCounter, OwnTags, Alien, CoreType
  <1>6. OwnSample(sample)'
    BY <1>1 DEF First, OwnSample, OwnTags, Alien, NoSample, NoExp
  <1> QED  BY <1>3, <1>4, <1>5, <1>6 DEF First

LEMMA FirstOthersRun ==
    ASSUME Sched, Machine, Calls, First, NEW c \in Cpu, OthersRun(c)
    PROVE  First'
  <1>0. /\ UNCHANGED <<setup, at, alive, prof, sample, executed, delivered>> /\ at # c
        /\ MaxEvents \in Nat /\ at \in Cpu \cup {Off} /\ hw \in [Cpu -> CounterType]
    BY SetupIs DEF OthersRun, Machine, Calls
  <1>1. /\ \A k \in Cpu \ {c} : hw'[k] = hw[k]
        /\ hw'[c].n = hw[c].n \/ hw'[c].n = 0
    <2>1. CASE hw' = [hw EXCEPT ![c].tags = @ \cup {Alien}]
      BY <1>0, <2>1 DEF CounterType
    <2>2. CASE \E on \in BOOLEAN :
                 hw' = [hw EXCEPT ![c] = [exp |-> Other, on |-> on, n |-> 0, tags |-> {Alien}]]
      BY <1>0, <2>2
    <2> QED  BY <2>1, <2>2 DEF OthersRun
  <1>2. \A k \in Cpu : hw'[k].n =< MaxEvents
    BY <1>0, <1>1 DEF First, Bounded
  <1>3. Counting' = Counting /\ (Counting => hw'[at] = hw[at])
    BY <1>0, <1>1 DEF Counting, CountingStarted, NoExp, Off
  <1> QED  BY <1>0, <1>2, <1>3, FirstElsewhere

LEMMA FirstExecute ==
    ASSUME Sched, Machine, Calls, First, Execute
    PROVE  First'
  <1>0. /\ UNCHANGED <<setup, at, alive, prof, sample, delivered>>
        /\ at \in Cpu /\ at # Off /\ alive /\ hw \in [Cpu -> CounterType] /\ hw[at] \in CounterType
        /\ executed < MaxEvents /\ hw[at].n < MaxEvents
        /\ executed' = IF CountingStarted THEN executed + 1 ELSE executed
        /\ MaxEvents \in Nat /\ executed \in Nat /\ delivered \in Nat
        /\ prof.values \in CountsType
    BY SetupIs DEF Execute, Machine, Calls, ProfType
  <1>1. /\ Counting <=> CountingStarted
        /\ Counting' = Counting
    BY <1>0 DEF Counting, CountingStarted, NoExp, Off
  <1>2. \A k \in Cpu \ {at} : hw'[k] = hw[k]
    BY <1>0 DEF Execute
  <1>3. CASE hw[at].on
    <2> DEFINE t == [session |-> prof.session, exp |-> hw[at].exp, coretype |-> CoreType(at)]
    <2>1. /\ hw'[at].n = hw[at].n + 1 /\ hw'[at].tags = hw[at].tags \cup {t}
          /\ hw'[at].on /\ hw'[at].exp = hw[at].exp
      BY <1>0, <1>3 DEF Execute, CounterType
    <2>2. t.exp = hw[at].exp /\ t.coretype = CoreType(at) /\ Alien.exp = Other
      BY DEF Alien
    <2> HIDE DEF t
    <2>3. hw[at].n \in Nat /\ prof.values.n \in Nat
      BY <1>0 DEF CounterType, CountsType
    <2>4. \A k \in Cpu : hw'[k].n =< MaxEvents
      BY <1>0, <1>2, <2>1, <2>3 DEF First, Bounded
    <2>5. CASE ~Counting
      <3>1. executed' = executed
        BY <1>0, <1>1, <2>5
      <3> QED  BY <1>0, <1>1, <2>4, <2>5, <3>1, FirstElsewhere
    <2>6. CASE Counting
      <3>1. NoMixedWakeUps' = NoMixedWakeUps
        BY <1>0, Same
      <3>2. /\ prof.enabled /\ prof.cfg \in Experiment /\ hw[at].exp = prof.cfg
            /\ OwnTags(hw[at].tags, prof.cfg, CoreType(at))
        BY <2>6 DEF Counting, CountingStarted, Machine, ProfType, First, OwnCounter
      <3>3. executed' = executed + 1 /\ Held' = Held + 1 /\ Held \in Nat
        BY <1>0, <1>1, <2>1, <2>3, <2>6 DEF Held
      <3>4. OwnTags(hw[at].tags \cup {t}, prof.cfg, CoreType(at))
        BY <2>2, <3>2, Experiments DEF OwnTags
      <3>5. OwnCounter'
        BY <1>0, <2>1, <3>1, <3>2, <3>4 DEF OwnCounter, OwnTags, Alien, CoreType
      <3>6. Accounted'
        <4>1. executed = delivered + prof.values.n + Held
          BY <3>2 DEF First, Accounted
        <4>2. executed' = delivered' + prof'.values.n + Held'
          <5>1. prof' = prof /\ delivered' = delivered /\ delivered \in Nat /\ executed \in Nat
            BY <1>0
          <5> QED  BY <2>3, <3>3, <4>1, <5>1
        <4> QED  BY <4>2 DEF Accounted
      <3>7. Unused' /\ Buffered'
        BY <1>0 DEF First, Unused, Buffered, NoCounts
      <3>8. Bounded'
        BY <1>0, <2>4, <3>3 DEF First, Bounded
      <3>9. Placed' /\ OwnCounts'
        BY <1>0, <3>1
        DEF First, Placed, OwnCounts, OwnTags, NoCounts, ExpOf, CoreType, Alien
      <3>10. OwnSample(sample)'
        BY <1>0, <3>1 DEF First, OwnSample, OwnTags, Alien, NoSample, NoExp
      <3> QED  BY <3>5, <3>6, <3>7, <3>8, <3>9, <3>10 DEF First
    <2> QED  BY <2>5, <2>6
  <1>4. CASE ~hw[at].on
    <2>1. hw' = hw /\ ~Counting
      BY <1>4 DEF Execute, First, OwnCounter
    <2>2. executed' = executed
      BY <1>0, <1>1, <2>1
    <2>3. \A k \in Cpu : hw'[k].n =< MaxEvents
      BY <2>1 DEF First, Bounded
    <2> QED  BY <1>0, <1>1, <2>1, <2>2, <2>3, FirstElsewhere
  <1> QED  BY <1>3, <1>4

LEMMA FirstStep ==
    ASSUME Sched, Machine, Calls, First, Next, prof'.session =< 1
    PROVE  First'
  <1>1. ASSUME NEW op \in Op, CallOnItsCpu(op) PROVE First'
    <2>1. at \in Cpu /\ op # "timer" /\ UNCHANGED <<setup, at, alive>>
      BY <1>1 DEF CallOnItsCpu, Calls, Wanted, Machine
    <2>2. CASE op = "attach"
      BY <1>1, <2>1, <2>2, FirstAttach DEF CallOnItsCpu, Wanted, Perform
    <2>3. CASE op = "detach"
      BY <1>1, <2>1, <2>3, FirstDetach DEF CallOnItsCpu, Wanted, Perform
    <2> QED  BY <2>1, <2>2, <2>3 DEF Op
  <1>2. CASE CallOnOtherCpu
    <2>1. /\ call \in Call /\ call.op # "timer" /\ at # call.cpu /\ (setup.wakes \/ at = Off)
          /\ call.op = "attach" => alive /\ ~prof.enabled /\ prof.session < MaxSessions
          /\ UNCHANGED <<setup, at, alive>> /\ Perform(call.op, call.cpu)
      BY <1>2 DEF CallOnOtherCpu, Calls
    <2>2. call.op \in Op /\ call.cpu \in Cpu
      BY <2>1 DEF Call
    <2>3. CASE call.op = "attach"
      BY <2>1, <2>2, <2>3, FirstAttach DEF Perform
    <2>4. CASE call.op = "detach"
      BY <2>1, <2>2, <2>4, FirstDetach DEF Perform
    <2> QED  BY <2>1, <2>2, <2>3, <2>4 DEF Op
  <1>3. ASSUME NEW op \in Op, NEW c \in Cpu, SeeAsleep(op, c) PROVE First'
    <2>1. UNCHANGED <<setup, at, alive, prof, hw, sample, executed, delivered>>
      BY <1>3 DEF SeeAsleep
    <2>2. Counting' = Counting
      BY <2>1 DEF Counting, CountingStarted, NoExp, Off
    <2>3. \A k \in Cpu : hw'[k].n =< MaxEvents
      BY <2>1 DEF First, Bounded
    <2> QED  BY <2>1, <2>2, <2>3, FirstElsewhere
  <1>4. CASE TimeElapses
    BY <1>4 DEF TimeElapses, Sched
  <1> QED  BY <1>1, <1>2, <1>3, <1>4, FirstSwitchIn, FirstSwitchOut, FirstTick, FirstExit,
              FirstExecute, FirstOthersRun DEF Next

-----------------------------------------------------------------------------------
SchedInv ==
    /\ setup \in Setups
    /\ setup.mode = "TBS_SCHED_MODE" =>
           /\ Machine /\ Calls
           /\ prof.session =< 1 => First

LEMMA InitSched == Init => SchedInv
  <1> SUFFICES ASSUME Init, setup.mode = "TBS_SCHED_MODE" PROVE Machine /\ Calls /\ First
    BY DEF SchedInv, Init
  <1> DEFINE ce == [ct \in {0, 1} |-> 0]
             ns == [e \in Experiment |-> TRUE]
             h0 == [exp |-> NoExp, on |-> FALSE, n |-> 0, tags |-> {}]
  <1>1. Sched /\ 0 \in 0 .. MaxSessions
    BY ConfigAssumption DEF Sched, Init
  <1>2. MaxEvents \in Nat /\ setup.nticks \in Nat \ {0}
    BY <1>1, SetupIs
  <1>3. ce \in [{0, 1} -> Nat] /\ ns \in [Experiment -> BOOLEAN] /\ NoCounts \in CountsType
    BY NoSampleIsOne
  <1>4. prof = [enabled |-> FALSE, buffer |-> FALSE, cfg |-> NoExp, curExp |-> ce,
                needSetup |-> ns, values |-> NoCounts, lastCpu |-> Off, ticks |-> 0,
                prepare |-> FALSE, due |-> FALSE, armed |-> FALSE, session |-> 0]
    BY DEF Init
  <1> HIDE DEF ce, ns
  <1>5. prof \in ProfType
    BY <1>1, <1>3, <1>4 DEF ProfType
  <1>6. /\ ~prof.enabled /\ prof.cfg = NoExp /\ ~prof.armed /\ ~prof.due
        /\ prof.values = NoCounts /\ prof.lastCpu = Off /\ prof.ticks = 0 /\ prof.session = 0
    BY <1>4
  <1>7. h0 \in CounterType /\ ~h0.on /\ h0.n = 0
    BY DEF CounterType
  <1>8. hw = [c \in Cpu |-> h0]
    BY DEF Init
  <1> HIDE DEF h0
  <1>9. Machine
    BY <1>5, <1>6, <1>7, <1>8, NoSampleIsOne DEF Init, Machine
  <1>10. Calls
    BY DEF Init, Calls, NoCall
  <1>11. First
    <2>1. OwnSample(sample)
      BY <1>1, NoSampleOwn DEF Init
    <2>2. Bounded
      BY <1>2, <1>6, <1>7, <1>8 DEF Init, Bounded, NoCounts
    <2>3. ~Counting
      BY <1>6 DEF Counting, CountingStarted
    <2> QED  BY <1>6, <2>1, <2>2, <2>3
             DEF First, Unused, Buffered, Placed, OwnCounts, OwnCounter, Accounted, NoCounts
  <1> QED  BY <1>9, <1>10, <1>11

LEMMA NextSched == SchedInv /\ [Next]_vars => SchedInv'
  <1> SUFFICES ASSUME SchedInv, [Next]_vars PROVE SchedInv'
    OBVIOUS
  <1>1. setup' = setup
    BY DEF Next, vars, SwitchIn, SwitchOut, Tick, TimeElapses, CallOnOtherCpu, CallOnItsCpu,
           SeeAsleep, Exit, Execute, OthersRun
  <1>2. CASE setup.mode # "TBS_SCHED_MODE"
    BY <1>1, <1>2 DEF SchedInv
  <1>3. CASE setup.mode = "TBS_SCHED_MODE" /\ Next
    <2>1. Sched /\ Machine /\ Calls /\ (prof.session =< 1 => First)
      BY <1>3 DEF SchedInv, Sched
    <2>2. Machine' /\ Calls' /\ prof'.session >= prof.session
      BY <1>3, <2>1, TypesStep
    <2>3. prof'.session \in Nat /\ prof.session \in Nat
      BY <1>1, <2>1, <2>2, Same, ConfigAssumption DEF Machine, ProfType
    <2>4. prof'.session =< 1 => First'
      BY <1>3, <2>1, <2>2, <2>3, FirstStep
    <2> QED  BY <1>1, <2>1, <2>2, <2>4 DEF SchedInv
  <1>4. CASE setup.mode = "TBS_SCHED_MODE" /\ UNCHANGED vars
    <2>1. Sched /\ Machine /\ Calls /\ (prof.session =< 1 => First)
      BY <1>4 DEF SchedInv, Sched
    <2>2. Machine' /\ Calls'
      BY <1>4, <2>1, Same DEF Machine, Calls, vars
    <2>3. prof'.session =< 1 => First'
      <3> SUFFICES ASSUME prof'.session =< 1 PROVE First'
        OBVIOUS
      <3>1. First /\ UNCHANGED <<setup, at, alive, prof, hw, sample, executed, delivered>>
        BY <1>4, <2>1 DEF vars
      <3>2. Counting' = Counting
        BY <3>1 DEF Counting, CountingStarted, NoExp, Off
      <3>3. \A k \in Cpu : hw'[k].n =< MaxEvents
        BY <3>1 DEF First, Bounded
      <3> QED  BY <2>1, <3>1, <3>2, <3>3, FirstElsewhere
    <2> QED  BY <1>1, <2>1, <2>2, <2>3 DEF SchedInv, Sched
  <1> QED  BY <1>2, <1>3, <1>4

LEMMA SchedAlways == Spec => []SchedInv
  BY InitSched, NextSched, PTL DEF Spec

\* The counts of a session fit in what the types allow for.
LEMMA SessionFits ==
    ASSUME NEW n \in Nat, n =< MaxEvents
    PROVE  n \in 0 .. MaxSessions * MaxEvents
  <1>1. MaxSessions \in Nat \ {0} /\ MaxEvents \in Nat
    BY ConfigAssumption
  <1>2. PICK k \in Nat : MaxSessions = k + 1
    BY <1>1
  <1>3. MaxSessions * MaxEvents = k * MaxEvents + MaxEvents /\ k * MaxEvents \in Nat
    BY <1>1, <1>2
  <1> QED  BY <1>1, <1>3

LEMMA FirstIsTyped ==
    ASSUME Sched, Machine, Calls, First
    PROVE  TypeOK
  <1>1. prof \in Prof
    <2>1. prof.values \in Counts
      <3>1. prof.values \in CountsType /\ prof.values.n \in Nat /\ prof.values.n =< MaxEvents
        BY DEF Machine, ProfType, CountsType, First, Bounded
      <3>2. prof.values.n \in 0 .. MaxSessions * MaxEvents
        BY <3>1, SessionFits
      <3> QED  BY <3>1, <3>2 DEF CountsType, Counts
    <2>2. prof.ticks \in 0 .. setup.nticks - 1
      BY SetupIs DEF Machine, ProfType, First, Bounded
    <2> QED  BY <2>1, <2>2 DEF Machine, ProfType, Prof
  <1>2. hw \in [Cpu -> Counter]
    <2> SUFFICES ASSUME NEW c \in Cpu PROVE hw[c] \in Counter
      BY DEF Machine
    <2>1. hw[c] \in CounterType /\ hw[c].n \in Nat /\ hw[c].n =< MaxEvents
      BY DEF Machine, CounterType, First, Bounded
    <2>2. hw[c].n \in 0 .. MaxSessions * MaxEvents
      BY <2>1, SessionFits
    <2> QED  BY <2>1, <2>2 DEF CounterType, Counter
  <1>3. sample \in Sample \cup {NoSample}
    <2>1. CASE sample # NoSample
      <3>1. /\ sample \in SampleType /\ sample.n \in Nat /\ sample.n =< MaxEvents
            /\ sample.session >= 1 /\ sample.exp # NoExp
        BY <2>1 DEF Machine, SampleType, First, OwnSample
      <3>2. sample.n \in 0 .. MaxSessions * MaxEvents
        BY <3>1, SessionFits
      <3>3. sample.session \in 1 .. MaxSessions
        BY <3>1, ConfigAssumption DEF SampleType
      <3> QED  BY <3>1, <3>2, <3>3 DEF SampleType, Sample
    <2> QED  BY <2>1
  <1>4. executed \in 0 .. MaxEvents
    BY SetupIs DEF Machine, First, Bounded
  <1> QED  BY <1>1, <1>2, <1>3, <1>4 DEF TypeOK, Machine, Calls, Sched

LEMMA FirstIsFaithful ==
    ASSUME Sched, Machine, Calls, First
    PROVE  SamplesAreFaithful
  <1>1. SampleIsOwn /\ SampleOfItsExperiment /\ SampleOfItsCoreType
    BY DEF First, OwnSample, OwnTags, SampleIsOwn, SampleOfItsExperiment, SampleOfItsCoreType
  <1>2. ConfigFitsCore
    <2> SUFFICES ASSUME prof.enabled, at # Off, prof.lastCpu = at
                 PROVE  prof.cfg[1] = CoreType(at)
      BY DEF ConfigFitsCore
    <2>1. prof.cfg = ExpOf(CoreType(at), 0) /\ CoreType(at) \in {0, 1}
      BY Experiments DEF First, Placed, Calls
    <2> QED  BY <2>1, FirstExperiments DEF Sched
  <1> QED  BY <1>1, <1>2, FirstIsTyped DEF SamplesAreFaithful

LEMMA FirstIsConserved ==
    ASSUME First
    PROVE  Conservation
  BY DEF First, Accounted, Held, Counting, Conservation

-----------------------------------------------------------------------------------
(* In TBS_SCHED_MODE and in the first session of a thread, every sample is of the  *)
(* thread, and was counted with the experiment and on the core type that it names, *)
(* in whatever order the thread is switched, migrated, read and monitored          *)
(* (mchw_core.c, mod_save_callback_gen, mod_restore_callback_gen).                  *)
THEOREM SchedSamplesAreAlwaysFaithful ==
    Spec => [](setup.mode = "TBS_SCHED_MODE" /\ prof.session =< 1 => SamplesAreFaithful)
  <1>1. SchedInv => (setup.mode = "TBS_SCHED_MODE" /\ prof.session =< 1 => SamplesAreFaithful)
    BY FirstIsFaithful DEF SchedInv, Sched
  <1> QED  BY <1>1, SchedAlways, PTL

(* And no event is lost or counted twice: each one that the thread executed since  *)
(* its counters were set up is in one sample, in its accumulator or in the counter *)
(* of the CPU where it runs (mchw_core.c, do_count_mc_experiment and the callbacks *)
(* that call it).                                                                    *)
THEOREM SchedEventsAreAlwaysConserved ==
    Spec => [](setup.mode = "TBS_SCHED_MODE" /\ prof.session =< 1 => Conservation)
  <1>1. SchedInv => (setup.mode = "TBS_SCHED_MODE" /\ prof.session =< 1 => Conservation)
    BY FirstIsConserved DEF SchedInv
  <1> QED  BY <1>1, SchedAlways, PTL
====================================================================================
