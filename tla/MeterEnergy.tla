------------------------------- MODULE MeterEnergy -------------------------------
(***********************************************************************************)
(* What the Smart Power meters measure, and what a thread or a CPU is told of it.   *)
(* Each sample carries the energy since the sample before; a ring keeps the last    *)
(* few; a reader adds up those that are not older than its previous reading.  The   *)
(* driver of the first meter is smart_power_driver.c with smart_power_mm.c; that of *)
(* the second, smart_power_2_mm.c, has a thread that reads a serial line.  So has   *)
(* the TC2 board, for its sensors (vexpress_sensors_core.c, vexpress_sensors_mm.c). *)
(* Time is in ticks of one millisecond (HZ = 1000).                                 *)
(***********************************************************************************)
EXTENDS Integers, Sequences, SequencesExt

CONSTANTS
    Watt,       \* powers the meter shows; -1 stands for the dashes it shows when idle
    Slots,      \* CBUFFER_CAPACITY
    MaxTick     \* bound: ticks that pass

VARIABLES
    board,      \* which meter: "spower", "spower2" or "tc2"
    mode,       \* who reads: "thread" or "cpu" (system-wide mode, first meter only)
    tick,       \* jiffies
    line,       \* time_last_sample, the ring of samples, when the measurements were
                \* started (0: they are stopped), and when the sample that is being taken
                \* was begun (0: none is)
    reader,     \* time_last_sample of the reader, or -1 while it has no data
    due,        \* the reader's account: since when it is kept, the energy measured since
                \* the last report, what that report said, what it should have, what
                \* went wrong on the way to it, and is it still under way?
    luck        \* what has gone wrong since the last report was read:
                \* "shared"  a sample of the tick of the report was in the ring already
                \* "late"    a sample that came after it has an earlier tick
                \* "lost"    a sample fell out of the ring unread
energyVars == <<board, mode, tick, line, reader, due, luck>>

Sum(ss, v(_)) == FoldLeft(LAMBDA acc, s : acc + v(s), 0, ss)

NothingDue == [from |-> 0, energy |-> 0, told |-> 0, owed |-> 0, luck |-> {},
               marks |-> FALSE]

Init ==
    /\ board \in {"spower", "spower2", "tc2"} /\ mode \in {"thread", "cpu"}
    /\ board # "spower" => mode = "thread"
    /\ tick = 1
    /\ line = [last |-> 0, ring |-> <<>>, since |-> 0, begun |-> 0]
    /\ reader = -1
    /\ due = NothingDue
    /\ luck = {}

Tick ==
    /\ tick < MaxTick
    /\ tick' = tick + 1
    /\ UNCHANGED <<board, mode, line, reader, due, luck>>

-----------------------------------------------------------------------------------
(* The module is enabled and disabled.                                              *)

spower_enable ==
    /\ board = "spower" /\ line.since = 0
    /\ line' = [line EXCEPT !.last = tick, !.since = tick]
    /\ UNCHANGED <<board, mode, tick, reader, due, luck>>

spower_disable ==
    /\ board = "spower" /\ line.since # 0 /\ line.begun = 0 /\ reader = -1
    /\ line' = [line EXCEPT !.ring = <<>>, !.since = 0]
    /\ UNCHANGED <<board, mode, tick, reader, due, luck>>

\* The time of the last sample stays as it was.
spower2_enable_module ==
    /\ board = "spower2" /\ line.since = 0
    /\ line' = [line EXCEPT !.since = tick]
    /\ UNCHANGED <<board, mode, tick, reader, due, luck>>

spower2_disable_module ==
    /\ board = "spower2" /\ line.since # 0 /\ line.begun = 0 /\ reader = -1
    /\ line' = [line EXCEPT !.ring = <<>>, !.since = 0]
    /\ UNCHANGED <<board, mode, tick, reader, due, luck>>

\* The sensors of TC2 are read once before their thread is.
init_syswide_monitor ==
    /\ board = "tc2" /\ line.since = 0
    /\ line' = [line EXCEPT !.last = tick, !.since = tick]
    /\ UNCHANGED <<board, mode, tick, reader, due, luck>>

stop_syswide_monitor ==
    /\ board = "tc2" /\ line.since # 0 /\ line.begun = 0 /\ reader = -1
    /\ line' = [line EXCEPT !.ring = <<>>, !.since = 0]
    /\ UNCHANGED <<board, mode, tick, reader, due, luck>>

-----------------------------------------------------------------------------------
(* A sample is taken: it is begun, and later it is in the ring.                     *)

\* The callback of the first meter takes the time; the thread of the second takes it
\* before it waits for the line; that of TC2 reads the sensors.
Begins ==
    /\ line.since # 0 /\ line.begun = 0
    /\ line' = [line EXCEPT !.begun = tick]
    /\ UNCHANGED <<board, mode, tick, reader, due, luck>>

\* The answer is not a sample, the line is at its end.
Fails ==
    /\ board # "tc2" /\ line.begun # 0
    /\ line' = [line EXCEPT !.begun = 0]
    /\ UNCHANGED <<board, mode, tick, reader, due, luck>>

Energy(watt) == watt * (line.begun - line.last)

\* "read" is the account's: the sample is not the reader's, or a report has it.
Sample(watt, at) == [at |-> at, watt |-> watt, energy |-> Energy(watt),
                     read |-> reader = -1 \/ at < due.from]

Inserted(sample) ==
    [line EXCEPT !.ring = (IF Len(@) = Slots THEN Tail(@) ELSE @) \o <<sample>>,
                 !.last = line.begun,
                 !.begun = 0]

Arrives(watt, at) ==
    LET sample == Sample(watt, at)
    IN  /\ line.begun # 0
        /\ line' = Inserted(sample)
        /\ due' = IF sample.read THEN due ELSE [due EXCEPT !.energy = @ + sample.energy]
        /\ luck' = luck \cup {u \in {"lost"} : Len(line.ring) = Slots /\ ~line.ring[1].read}
                        \cup {u \in {"late"} : ~sample.read /\ ~due.marks /\ at < reader}
        /\ UNCHANGED <<board, mode, tick, reader>>

spower_int_in_callback(watt) == board = "spower" /\ Arrives(watt, line.begun)
spower2_thread_fn(watt) == board = "spower2" /\ Arrives(watt, line.begun)

\* It takes the time after the sensors were read.
monitoring_thread(watt) ==
    /\ board = "tc2" /\ watt >= 0
    /\ \E at \in line.begun .. tick : Arrives(watt, at)

-----------------------------------------------------------------------------------
(* Readers: a thread at its samples, a CPU at the samples of the system-wide mode.   *)

SomeSample(P(_)) == \E i \in DOMAIN line.ring : P(line.ring[i])
AllRead == [line EXCEPT !.ring = [i \in DOMAIN @ |-> [@[i] EXCEPT !.read = TRUE]]]

\* The samples that the ring has are not the reader's.
BeginsToRead ==
    /\ line.since # 0
    /\ reader' = tick
    /\ due' = [NothingDue EXCEPT !.from = tick]
    /\ line' = AllRead
    /\ luck' = {u \in {"shared"} : SomeSample(LAMBDA s : s.at = tick)}
    /\ UNCHANGED <<board, mode, tick>>

on_fork == mode = "thread" /\ reader = -1 /\ BeginsToRead
on_syswide_start_monitor == mode = "cpu" /\ ~due.marks /\ BeginsToRead

\* Seeded fault: a sample of the tick of the last reading is left out.
Fresh_Later(from) == SelectSeq(line.ring, LAMBDA s : s.at > from)

Fresh(from) == SelectSeq(line.ring, LAMBDA s : s.at >= from)

\* get_summary_samples: power is averaged over the samples, energy is added up.
get_summary_samples(from) ==
    LET fresh == Fresh(from)
    IN  [nr |-> Len(fresh), energy |-> Sum(fresh, LAMBDA s : s.energy),
         watt |-> IF fresh = <<>> THEN 0 ELSE Sum(fresh, LAMBDA s : s.watt) \div Len(fresh)]

\* The ring is read under its lock.
Report ==
    LET s == get_summary_samples(reader)
    IN  /\ reader # -1 /\ ~due.marks
        /\ due' = [due EXCEPT !.energy = 0, !.told = s.energy, !.owed = due.energy,
                              !.marks = TRUE,
                              !.luck = luck \cup {u \in {"dashes"} :
                                                    SomeSample(LAMBDA r : r.watt < 0)}]
        /\ line' = AllRead
        /\ luck' = {}
        /\ UNCHANGED <<board, mode, tick, reader>>

\* The drivers of the Smart Power meters say nothing when there is no sample.
SomethingNew == Fresh(reader) # <<>>
spower_on_new_sample == board = "spower" /\ mode = "thread" /\ SomethingNew /\ Report
spower_on_syswide_dump_virtual_counters == mode = "cpu" /\ SomethingNew /\ Report
spower2_on_new_sample == board = "spower2" /\ SomethingNew /\ Report

\* vexpress_sensors_on_new_sample with syswide_do_read_energy_sensors.
syswide_do_read_energy_sensors == board = "tc2" /\ Report

\* All of them then take the time of the report, without the lock.
ReportIsMarked ==
    /\ due.marks
    /\ reader' = tick
    /\ due' = [due EXCEPT !.marks = FALSE]
    /\ luck' = luck \cup {u \in {"shared"} : SomeSample(LAMBDA s : s.read /\ s.at = tick)}
                    \cup {u \in {"late"} : SomeSample(LAMBDA s : ~s.read /\ s.at < tick)}
    /\ UNCHANGED <<board, mode, tick, line>>

\* A thread is freed; the system-wide mode ends.
on_free_task ==
    /\ reader # -1 /\ ~due.marks
    /\ reader' = -1
    /\ due' = NothingDue
    /\ line' = AllRead
    /\ luck' = {}
    /\ UNCHANGED <<board, mode, tick>>

Next ==
    \/ Tick
    \/ spower_enable \/ spower_disable
    \/ spower2_enable_module \/ spower2_disable_module
    \/ init_syswide_monitor \/ stop_syswide_monitor
    \/ Begins \/ Fails
    \/ \E watt \in Watt : \/ spower_int_in_callback(watt) \/ spower2_thread_fn(watt)
                         \/ monitoring_thread(watt)
    \/ on_fork \/ on_syswide_start_monitor \/ on_free_task
    \/ spower_on_new_sample \/ spower_on_syswide_dump_virtual_counters
    \/ spower2_on_new_sample \/ syswide_do_read_energy_sensors \/ ReportIsMarked

Spec == Init /\ [][Next]_energyVars

-----------------------------------------------------------------------------------
\* The energy a reader is told is the energy measured since it was last told: no sample
\* is told of twice, and none is left out.  A sample of the very tick of a report that
\* has it is told of again by the next; samples that fall out of the ring, and those
\* that were begun before the time of a report and came after it was read, are not told of.
EnergyIsToldOnce ==
    /\ due.luck \cap {"shared", "lost", "late"} = {} => due.told = due.owed
    /\ due.luck \cap {"lost", "late", "dashes"} = {} => due.told >= due.owed

\* "Get a sample that summarizes measurements collected from a given point": as long as
\* the ring has room for what was collected since, a report leaves none of it out.
\* It does, on the second meter: a sample bears the time before the wait for the line.
LateSamplesAreTold ==
    board = "spower2" /\ due.luck \cap {"lost", "dashes"} = {} => due.told >= due.owed

\* The energy of a sample was spent while the meter was measuring: the first meter
\* and the TC2 board start with the present time.  The second meter counts, in its first
\* sample, the time before it was enabled too, so nothing is said about it.
EnergyIsOfTheSession ==
    board # "spower2"
    => \A i \in DOMAIN line.ring :
          LET s == line.ring[i]
          IN  s.watt >= 0 => s.energy <= s.watt * (s.at - line.since)

MeterEnergyIsSound == EnergyIsToldOnce /\ EnergyIsOfTheSession
==================================================================================
