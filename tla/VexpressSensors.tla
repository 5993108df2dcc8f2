----------------------------- MODULE VexpressSensors -----------------------------
(***********************************************************************************)
(* Energy sensors of the ARM boards (vexpress_sensors_core.c, vexpress_sensors_mm.c). *)
(* On the TC2 board the module looks for its sensors among the devices of hwmon and  *)
(* keeps references to them; on the Juno board it maps a region of registers.  The   *)
(* energy of a thread is what a 64-bit meter, read in two halves, advances between   *)
(* the thread's switches in and out (Juno; that of TC2 is in MeterEnergy).           *)
(***********************************************************************************)
EXTENDS Integers, Sequences, FiniteSets, SequencesExt

CONSTANTS
    Device,         \* devices of hwmon
    NrSensors,      \* VEXPRESS_NR_SENSORS of the board TC2
    Half,           \* values of half the meter: 2^32
    MaxMeter,       \* bound: energy that is spent
    SensorSetups    \* what may happen, each a set of strings:
                    \* "others"  devices that are not energy sensors
                    \* "bare"    energy sensors without attributes
                    \* "fails"   the region cannot be mapped, readings fail
                    \* "attach"  a thread is attached to while it runs

VARIABLES
    sensorSetup,
    kind,       \* what the devices are: "energy", "bare" or "other"
    held,       \* references of the module to each device
    sensors,    \* energy_sensors, in the order they were found
    region,     \* the registers of Juno are "free", "taken" or "mapped"
    enabled,    \* the module is enabled on "tc2", on "juno" or nowhere ("")
    meter64,    \* the energy spent: the meter
    thread,     \* vexpress_sensors_thread_data_t of a thread, and whether it runs
    ran         \* "energy" spent while the thread ran since its last sample and, "idle",
                \* while it slept since the last reading; what the sample said ("told")
                \* and should have said ("owed"), and whether it depends on "exact"
                \* readings; whether those so far ("sure") and the last ("read") are
sensorVars == <<sensorSetup, kind, held, sensors, region, enabled, meter64, thread, ran>>

\* The meter of 64 bits does not wrap while the board runs.
SensorAssumption ==
    /\ IsFiniteSet(Device) /\ NrSensors \in Nat
    /\ Half \in Nat \ {0}
    /\ MaxMeter \in 1 .. Half * Half - 1

Can(what) == what \in sensorSetup
NoThread == [state |-> "none", first |-> FALSE, cur |-> 0, acum |-> 0]
NotRan == [energy |-> 0, idle |-> 0, told |-> 0, owed |-> 0,
           exact |-> TRUE, sure |-> TRUE, read |-> FALSE]
Width == Half * Half

Init ==
    /\ sensorSetup \in SensorSetups
    /\ kind \in [Device -> {"energy"} \cup {k \in {"other"} : Can("others")}
                                      \cup {k \in {"bare"} : Can("bare")}]
    /\ held = [d \in Device |-> 0]
    /\ sensors = <<>>
    /\ region = "free" /\ enabled = ""
    /\ meter64 = 1
    /\ thread = NoThread /\ ran = NotRan

-----------------------------------------------------------------------------------
(* TC2: sensors of hwmon.                                                           *)

\* The devices are looked at in some order.  A device that has a name is not rejected
\* for it (the test that should do so needs a missing name); one without attributes
\* counts as found although its reference is dropped.
find_energy_sensors(order) ==
    [found |-> order,
     held |-> [d \in Device |-> IF d \in ToSet(order) /\ kind[d] # "bare"
                                THEN held[d] + 1 ELSE held[d]]]

\* With less than two found, those are put again; more than two do not fit.
initialize_energy_sensors(order) ==
    LET f == find_energy_sensors(order)
    IN  /\ enabled = "" /\ region = "free"
        /\ \A d \in Device : held[d] = 0     \* bound: wrong references end the story
        /\ IF Len(order) < NrSensors
           THEN /\ held' = [d \in Device |-> IF d \in ToSet(order) THEN f.held[d] - 1
                                               ELSE f.held[d]]
                /\ UNCHANGED <<sensors, enabled>>
           ELSE /\ held' = f.held
                /\ sensors' = f.found
                /\ enabled' = "tc2"
        /\ UNCHANGED <<sensorSetup, kind, region, meter64, thread, ran>>

\* Seeded fault: the references are kept.
release_energy_sensors_KeepsRefs ==
    /\ enabled = "tc2"
    /\ enabled' = ""
    /\ sensors' = <<>>
    /\ UNCHANGED <<sensorSetup, kind, held, region, meter64, thread, ran>>

release_energy_sensors ==
    /\ enabled = "tc2"
    /\ enabled' = ""
    /\ held' = [d \in Device |->
                  IF \E i \in 1 .. NrSensors : sensors[i] = d THEN held[d] - 1 ELSE held[d]]
    /\ sensors' = <<>>
    /\ UNCHANGED <<sensorSetup, kind, region, meter64, thread, ran>>

-----------------------------------------------------------------------------------
(* Juno: registers.                                                                 *)

\* A region that cannot be mapped is not given back.
MapRegisters ==
    /\ enabled = "" /\ region = "free"
    /\ \/ region' = "mapped" /\ enabled' = "juno"
       \/ Can("fails") /\ region' = "taken" /\ UNCHANGED enabled
    /\ UNCHANGED <<sensorSetup, kind, held, sensors, meter64, thread, ran>>

UnmapRegisters ==
    /\ enabled = "juno" /\ thread.state = "none"
    /\ region' = "free" /\ enabled' = ""
    /\ UNCHANGED <<sensorSetup, kind, held, sensors, meter64, thread, ran>>

-----------------------------------------------------------------------------------
(* Readings: the meter may advance between one half and the other.                   *)

Spend ==
    /\ enabled = "juno" /\ meter64 < MaxMeter
    /\ meter64' = meter64 + 1
    /\ ran' = CASE thread.state = "in" -> [ran EXCEPT !.energy = @ + 1]
               [] thread.state = "out" -> [ran EXCEPT !.idle = @ + 1]
               [] OTHER -> ran
    /\ UNCHANGED <<sensorSetup, kind, held, sensors, region, enabled, thread>>

\* What raw_read_energy_sensor may return, the energy spent when it does, and that of
\* the moment it is a reading of.  C leaves open which half is read first: if a carry
\* comes between, the reading is torn, and of no moment ("sure" is FALSE).  (Energy is
\* counted in the units of the meter: scale_factor is 1.)
raw_read_energy_sensor ==
    LET Halves(hi, lo) == (hi \div Half) * Half + (lo % Half)
        now == meter64
        next == meter64 + 1
        Reading(v, meter) ==
            [value |-> v, meter |-> meter, sure |-> v \in {now, next},
             at |-> IF v \in {now, next} THEN v ELSE next]
    IN  {Reading(now, now)}
        \cup {Reading(v, next) :
              v \in {w \in {Halves(now, next), Halves(next, now)} : now < MaxMeter}}

\* do_read_energy_sensors; 64-bit differences wrap.
do_read_energy_sensors(T, value, acum) ==
    [T EXCEPT !.cur = value,
              !.acum = IF acum THEN (@ + value + Width - T.cur) % Width ELSE @]

-----------------------------------------------------------------------------------
(* The thread.                                                                      *)

vexpress_sensors_on_fork(running) ==
    /\ enabled = "juno" /\ thread.state = "none"
    /\ running => Can("attach")
    /\ thread' = [state |-> IF running THEN "in" ELSE "out", first |-> TRUE,
                  cur |-> 0, acum |-> 0]
    /\ ran' = NotRan
    /\ UNCHANGED <<sensorSetup, kind, held, sensors, region, enabled, meter64>>

\* What was spent while it slept is dropped; of a thread attached to while it ran, so
\* is what it spent before it was first switched out and not sampled since.
vexpress_sensors_on_switch_in ==
    /\ thread.state = "out"
    /\ \E r \in raw_read_energy_sensor :
         /\ thread' = [do_read_energy_sensors(thread, r.value, FALSE)
                          EXCEPT !.state = "in", !.first = FALSE]
         /\ meter64' = r.meter
         /\ ran' = [ran EXCEPT !.energy = @ + (r.meter - r.at), !.idle = 0,
                               !.sure = @ /\ (thread.first => ran.energy = 0),
                               !.read = r.sure]
    /\ UNCHANGED <<sensorSetup, kind, held, sensors, region, enabled>>

vexpress_sensors_on_switch_out ==
    /\ thread.state = "in"
    /\ IF thread.first
       THEN /\ thread' = [thread EXCEPT !.state = "out"]
            /\ UNCHANGED <<meter64, ran>>
       ELSE \E r \in raw_read_energy_sensor :
              /\ thread' = [do_read_energy_sensors(thread, r.value, TRUE)
                               EXCEPT !.state = "out"]
              /\ meter64' = r.meter
              /\ ran' = [ran EXCEPT !.energy = @ + (r.at - meter64),
                                    !.idle = r.meter - r.at,
                                    !.sure = @ /\ ran.read /\ r.sure, !.read = r.sure]
    /\ UNCHANGED <<sensorSetup, kind, held, sensors, region, enabled>>

\* With a sample the thread is told its energy.  The timer of a monitor samples a
\* thread that sleeps as well, and this reading adds what was spent meanwhile.
vexpress_sensors_on_new_sample ==
    /\ thread.state # "none"
    /\ \E r \in raw_read_energy_sensor :
         LET t == do_read_energy_sensors(thread, r.value, TRUE)
             late == r.meter - r.at
         IN  /\ thread' = [t EXCEPT !.acum = 0]
             /\ meter64' = r.meter
             /\ ran' = [energy |-> IF thread.state = "in" THEN late ELSE 0,
                        idle |-> IF thread.state = "out" THEN late ELSE 0,
                        owed |-> ran.energy + ran.idle + (r.at - meter64),
                        told |-> t.acum, exact |-> ran.sure /\ ran.read /\ r.sure,
                        sure |-> TRUE, read |-> r.sure]
    /\ UNCHANGED <<sensorSetup, kind, held, sensors, region, enabled>>

vexpress_sensors_on_free_task ==
    /\ thread.state = "out"
    /\ thread' = NoThread /\ ran' = NotRan
    /\ UNCHANGED <<sensorSetup, kind, held, sensors, region, enabled, meter64>>

Next ==
    \/ \E D \in SUBSET Device : \E order \in SetToSeqs(D) : initialize_energy_sensors(order)
    \/ release_energy_sensors
    \/ MapRegisters \/ UnmapRegisters \/ Spend
    \/ \E running \in BOOLEAN : vexpress_sensors_on_fork(running)
    \/ vexpress_sensors_on_switch_in \/ vexpress_sensors_on_switch_out
    \/ vexpress_sensors_on_new_sample \/ vexpress_sensors_on_free_task

Spec == Init /\ [][Next]_sensorVars

-----------------------------------------------------------------------------------
\* While the module is enabled it holds one reference to each sensor it reads and none
\* to anything else, and none afterwards: hwmon devices can be unloaded then.  This is
\* promised where the devices are just the sensors the board has.
SensorRefsAreExact ==
    (sensorSetup \cap {"others", "bare"} = {} /\ Cardinality(Device) = NrSensors)
    => \A d \in Device : held[d] = IF enabled = "tc2" THEN 1 ELSE 0

\* The energy of a sample is what was spent while the thread ran since its last sample,
\* and, if it sleeps, since the sensor was last read.  One torn reading spoils the
\* samples on its two sides and no other; a thread the sensor was never read for is
\* told the whole meter, and one attached to while it ran may lose its first run.
RunningEnergyIsExact == ran.exact => ran.told = ran.owed

\* The module can be enabled again after it failed, unless mapping is what failed.
CanBeEnabledAgain == ~Can("fails") /\ enabled = "" => region = "free"

SensorsAreSound == SensorRefsAreExact /\ RunningEnergyIsExact /\ CanBeEnabledAgain
==================================================================================
