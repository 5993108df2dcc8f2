--------------------------------- MODULE Devices ---------------------------------
(* The devices that measure energy, each by itself: the Smart Power meters and what    *)
(* their samples tell, the RAPL registers, and the sensors of the ARM boards.  They     *)
(* share no state; the initial state chooses one, and the others stay as they are.      *)
EXTENDS Naturals

CONSTANTS
    Meter, NoMeter, Fd, BufferSlots, MaxRefs, MeterSetups,                  \* SmartPower
    Slots, MaxTick, Watt,                                                   \* MeterEnergy
    Package, RaplModulus, MaxEnergy,                                        \* EnergyCounters
    Device, NrSensors, Half, MaxMeter, SensorSetups                         \* VexpressSensors

VARIABLES
    subject,    \* "meter", "energy", "rapl" or "sensors", or what another module adds
    meterSetup, meter, gbl, leaving, stopped, fd, meterModule, wrong,
    board, mode, tick, line, reader, due, luck,
    spent, ctl, truth, rapl, timer, edp,
    sensorSetup, kind, held, sensors, region, sensorsOn, meter64, thread, ran

SP == INSTANCE SmartPower WITH module <- meterModule
ME == INSTANCE MeterEnergy
EC == INSTANCE EnergyCounters WITH Modulus <- RaplModulus
VS == INSTANCE VexpressSensors WITH enabled <- sensorsOn

\* What is assumed of the constants.
ASSUME DevicesAssumption ==
    /\ SP!MeterAssumption
    /\ EC!RaplAssumption
    /\ VS!SensorAssumption

meterVars == <<meterSetup, meter, gbl, leaving, stopped, fd, meterModule, wrong>>
energyVars == <<board, mode, tick, line, reader, due, luck>>
raplVars == <<spent, ctl, truth, rapl, timer, edp>>
sensorVars == <<sensorSetup, kind, held, sensors, region, sensorsOn, meter64, thread, ran>>
deviceVars == <<meterVars, energyVars, raplVars, sensorVars>>

-----------------------------------------------------------------------------------
Unused == "unused"
NoMeters == /\ meterSetup = Unused /\ meter = Unused /\ gbl = Unused /\ leaving = Unused
            /\ stopped = Unused /\ fd = Unused /\ meterModule = Unused /\ wrong = Unused
NoEnergy == /\ board = Unused /\ mode = Unused /\ tick = Unused /\ line = Unused
            /\ reader = Unused /\ due = Unused /\ luck = Unused
NoRapl == /\ spent = Unused /\ ctl = Unused /\ truth = Unused
          /\ rapl = Unused /\ timer = Unused /\ edp = Unused
NoSensors == /\ sensorSetup = Unused /\ kind = Unused /\ held = Unused /\ sensors = Unused
             /\ region = Unused /\ sensorsOn = Unused /\ meter64 = Unused
             /\ thread = Unused /\ ran = Unused
NoDevices == NoMeters /\ NoEnergy /\ NoRapl /\ NoSensors

DevicesInit ==
    \/ subject = "meter" /\ SP!Init /\ NoEnergy /\ NoRapl /\ NoSensors
    \/ subject = "energy" /\ ME!Init /\ NoMeters /\ NoRapl /\ NoSensors
    \/ subject = "rapl" /\ EC!Init /\ NoMeters /\ NoEnergy /\ NoSensors
    \/ subject = "sensors" /\ VS!Init /\ NoMeters /\ NoEnergy /\ NoRapl

DevicesNext ==
    /\ UNCHANGED subject
    /\ \/ /\ subject = "meter" /\ SP!Next
          /\ UNCHANGED <<energyVars, raplVars, sensorVars>>
       \/ /\ subject = "energy" /\ ME!Next
          /\ UNCHANGED <<meterVars, raplVars, sensorVars>>
       \/ /\ subject = "rapl" /\ EC!Next
          /\ UNCHANGED <<meterVars, energyVars, sensorVars>>
       \/ /\ subject = "sensors" /\ VS!Next
          /\ UNCHANGED <<meterVars, energyVars, raplVars>>

DevicesSpec == DevicesInit /\ [][DevicesNext]_<<subject, deviceVars>>

-----------------------------------------------------------------------------------
\* smart_power_driver.c: a meter is freed with its last user and not before, the timer
\* and the requests are off without a user and on while the module measures.
SmartPowerIsSound == subject = "meter" => SP!SmartPowerIsSound

\* spower_stop_measurements: the reference that is put is the one that was taken.
OwnMeterIsPut == subject = "meter" => SP!OwnMeterIsPut

\* get_summary_samples and its callers: the energy told is the energy measured since
\* the last telling, and was spent while the meter was measuring.
MeterEnergyIsSound == subject = "energy" => ME!MeterEnergyIsSound

\* spower2_get_sample: a report leaves nothing out that was collected from its point on.
LateSamplesAreTold == subject = "energy" => ME!LateSamplesAreTold

\* intel_rapl_core.c and edp_core.c: the energy of samples, and of the whole system, is
\* exact although the registers wrap; the timer is off without a user.
EnergyCountersAreSound == subject = "rapl" => EC!EnergyCountersAreSound

\* vexpress_sensors_core.c and vexpress_sensors_mm.c: references to devices are exact,
\* and so is the energy of a thread.
SensorsAreSound == subject = "sensors" => VS!SensorsAreSound
=================================================================================
