----------------------------- MODULE EnergyCounters -----------------------------
(***********************************************************************************)
(* Energy read from the RAPL registers of a package (intel_rapl_core.c), which are  *)
(* narrow and wrap around.  Threads and CPUs add the differences between readings   *)
(* (intel_rapl_mm.c); the energy-delay product (edp_core.c) adds them for the whole *)
(* system, with a timer that reads before the registers can wrap.  Each reading is  *)
(* of the package where the code happens to run.  RAPL has one user at a time: the  *)
(* RAPL module, or the EDP of an RDT module.                                        *)
(***********************************************************************************)
EXTENDS Naturals

CONSTANTS
    Package,        \* the packages, one register each
    Modulus,        \* MSR_ENERY_STATUS_BITMASK + 1: where registers wrap
    MaxEnergy       \* bound: energy units that a package spends, or that a sum is added to

VARIABLES
    spent,      \* energy spent by each package: what its register shows is this value
                \* modulo Modulus
    ctl,        \* intel_rapl_control_t of "thread" (private data of a thread), "cpu" (of
                \* the system-wide mode) and "edp" (gbl_ctrl)
    truth,      \* for each of them: the package last read; the energy it spent since the
                \* sum was cleared, and since it was read; whether the readings can tell
                \* ("sure"); what the last sample should have told, and whether it could
                \* ("exact")
    rapl,       \* global_rapl_data: the user, use_timer, and who holds the lock
    timer,      \* the timer is "off", "pending" or "running"
    edp         \* edp_counts_on; is a reset half done?
raplVars == <<spent, ctl, truth, rapl, timer, edp>>

RaplAssumption == Modulus \in Nat \ {0} /\ MaxEnergy \in Nat /\ Package # {}

Control == {"thread", "cpu", "edp"}
NoControl == [on |-> FALSE, cur |-> 0, acum |-> 0, told |-> 0]
NoTruth == [from |-> CHOOSE p \in Package : TRUE, energy |-> 0, fresh |-> 0, sure |-> TRUE,
            told |-> 0, exact |-> TRUE]

Init ==
    /\ spent = [p \in Package |-> 0]
    /\ ctl = [c \in Control |-> NoControl]
    /\ truth = [c \in Control |-> NoTruth]
    /\ rapl = [user |-> "none", timer |-> FALSE, locked |-> FALSE]
    /\ timer = "off"
    /\ edp = [on |-> FALSE, resetting |-> FALSE]

-----------------------------------------------------------------------------------
(* The hardware.                                                                    *)

\* A register that wraps twice between readings loses energy.
Spend(p) ==
    /\ spent[p] < MaxEnergy
    /\ spent' = [spent EXCEPT ![p] = @ + 1]
    /\ truth' = [c \in Control |->
                   IF ~ctl[c].on \/ truth[c].from # p THEN truth[c]
                   ELSE [truth[c] EXCEPT !.energy = @ + 1, !.fresh = @ + 1,
                                         !.sure = @ /\ truth[c].fresh + 1 < Modulus]]
    /\ UNCHANGED <<ctl, rapl, timer, edp>>

Register(p) == spent[p] % Modulus

-----------------------------------------------------------------------------------
(* Control structures.                                                              *)

intel_rapl_control_init == [NoControl EXCEPT !.on = TRUE]

\* Seeded fault: a register that has wrapped is not noticed.
do_read_energy_msrs_NoWrap(C, p, acum) ==
    LET new == Register(p)
        delta == IF new < C.cur THEN 0 ELSE new - C.cur
    IN  [C EXCEPT !.cur = new, !.acum = IF acum THEN @ + delta ELSE @]

do_read_energy_msrs(C, p, acum) ==
    LET new == Register(p)
        delta == IF new < C.cur THEN (Modulus - 1 - C.cur) + new + 1 ELSE new - C.cur
    IN  [C EXCEPT !.cur = new, !.acum = IF acum THEN @ + delta ELSE @]

\* The code runs on package p.
Read(c, p, acum) == do_read_energy_msrs(ctl[c], p, acum)
Reading(c, p) == [truth[c] EXCEPT !.from = p, !.fresh = 0,
                                  !.sure = @ /\ p = truth[c].from]

\* The energy is told, and for threads and CPUs the sum starts again.
intel_rapl_get_energy_sample_thread(C) == [C EXCEPT !.told = C.acum, !.acum = 0]
Told(t) == [t EXCEPT !.told = t.energy - t.fresh, !.energy = t.fresh, !.exact = t.sure,
                     !.sure = t.fresh < Modulus]

-----------------------------------------------------------------------------------
(* The monitoring module: reset_on_cswitch is never set, so context switches read   *)
(* nothing.                                                                         *)

intel_rapl_enable_module ==
    /\ rapl.user = "none" /\ ~rapl.locked
    /\ rapl' = [rapl EXCEPT !.user = "mm"]
    /\ UNCHANGED <<spent, ctl, truth, timer, edp>>

intel_rapl_disable_module ==
    /\ rapl.user = "mm" /\ ~ctl["thread"].on /\ ~ctl["cpu"].on
    /\ rapl' = [rapl EXCEPT !.user = "none"]
    /\ UNCHANGED <<spent, ctl, truth, timer, edp>>

Begin(c, p) ==
    /\ rapl.user = "mm"
    /\ ctl' = [ctl EXCEPT ![c] = do_read_energy_msrs(intel_rapl_control_init, p, FALSE)]
    /\ truth' = [truth EXCEPT ![c] = [NoTruth EXCEPT !.from = p]]
    /\ UNCHANGED <<spent, rapl, timer, edp>>

intel_rapl_on_fork(p) == ~ctl["thread"].on /\ Begin("thread", p)
intel_rapl_on_syswide_start_monitor(p) == Begin("cpu", p)

\* The thread has moved since, or a timer on another package samples it.
intel_rapl_on_new_sample(p) ==
    /\ ctl["thread"].on
    /\ ctl' = [ctl EXCEPT !["thread"] =
                  intel_rapl_get_energy_sample_thread(Read("thread", p, TRUE))]
    /\ truth' = [truth EXCEPT !["thread"] = Told(Reading("thread", p))]
    /\ UNCHANGED <<spent, rapl, timer, edp>>

\* On the CPU that it is about, and so is the sample.
intel_rapl_on_syswide_refresh_monitor ==
    LET p == truth["cpu"].from
    IN  /\ ctl["cpu"].on
        /\ ctl' = [ctl EXCEPT !["cpu"] = Read("cpu", p, TRUE)]
        /\ truth' = [truth EXCEPT !["cpu"] = Reading("cpu", p)]
        /\ UNCHANGED <<spent, rapl, timer, edp>>

\* What was spent since the last refresh stays for the next sample.
intel_rapl_on_syswide_dump_virtual_counters ==
    /\ ctl["cpu"].on
    /\ ctl' = [ctl EXCEPT !["cpu"] = intel_rapl_get_energy_sample_thread(@)]
    /\ truth' = [truth EXCEPT !["cpu"] = Told(@)]
    /\ UNCHANGED <<spent, rapl, timer, edp>>

End(c) ==
    /\ ctl[c].on
    /\ ctl' = [ctl EXCEPT ![c] = NoControl]
    /\ truth' = [truth EXCEPT ![c] = NoTruth]
    /\ UNCHANGED <<spent, rapl, timer, edp>>

intel_rapl_on_free_task == End("thread")
SyswideEnds == End("cpu")

-----------------------------------------------------------------------------------
(* The energy-delay product.  A user's command, or the timer, reads where it runs.  *)

\* gbl_ctrl has been cleared and not read: the mask of domains was still empty when
\* __intel_rapl_initialize read the registers.
NotRead == [NoTruth EXCEPT !.energy = Modulus, !.fresh = Modulus, !.sure = FALSE]

edp_initialize_environment ==
    /\ rapl.user = "none" /\ ~rapl.locked
    /\ rapl' = [rapl EXCEPT !.user = "edp", !.timer = TRUE]
    /\ timer' = "pending"
    /\ edp' = [edp EXCEPT !.on = TRUE]
    /\ ctl' = [ctl EXCEPT !["edp"] = intel_rapl_control_init]
    /\ truth' = [truth EXCEPT !["edp"] = NotRead]
    /\ UNCHANGED spent

\* Bound: nothing is added to a sum that is more than a package can spend.
Update(p) ==
    /\ ctl["edp"].acum <= MaxEnergy
    /\ ctl' = [ctl EXCEPT !["edp"] = Read("edp", p, TRUE)]
    /\ truth' = [truth EXCEPT !["edp"] = Reading("edp", p)]

TimerExpires ==
    /\ timer = "pending"
    /\ timer' = "running"
    /\ UNCHANGED <<spent, ctl, truth, rapl, edp>>

\* intel_rapl_update_energy_values: with the lock and rearming the timer, unless the
\* timer is not used any more.
rapl_timer(p) ==
    /\ timer = "running"
    /\ rapl.timer => ~rapl.locked
    /\ timer' = IF rapl.timer THEN "pending" ELSE "off"
    /\ Update(p)
    /\ UNCHANGED <<spent, rapl, edp>>

Ready == rapl.user = "edp" /\ ~rapl.locked
Rearm == timer' = IF timer = "running" THEN timer ELSE "pending"

edp_dump_global_counters(p) ==
    /\ Ready
    /\ IF edp.on THEN Update(p) /\ Rearm ELSE UNCHANGED <<ctl, truth, timer>>
    /\ UNCHANGED <<spent, rapl, edp>>

edp_pause_global_counts(p) ==
    /\ Ready
    /\ Update(p) /\ Rearm
    /\ edp' = [edp EXCEPT !.on = FALSE]
    /\ UNCHANGED <<spent, rapl>>

\* Nothing is read: the energy spent in the pause is added by the next reading.
edp_resume_global_counts ==
    /\ Ready
    /\ edp' = [edp EXCEPT !.on = TRUE]
    /\ UNCHANGED <<spent, ctl, truth, rapl, timer>>

\* The register is read, and what was spent since it was read before is not added.
edp_reset_global_counters(p) ==
    /\ Ready /\ ~edp.resetting
    /\ ctl' = [ctl EXCEPT !["edp"] = Read("edp", p, FALSE)]
    /\ truth' = [truth EXCEPT !["edp"] = [Reading("edp", p) EXCEPT !.energy =
                                            @ - truth["edp"].fresh]]
    /\ Rearm
    /\ edp' = [edp EXCEPT !.resetting = TRUE]
    /\ UNCHANGED <<spent, rapl>>

\* Then the sums are cleared, without the lock: one that is just being added to, by the
\* timer or by another command, keeps what it had.
intel_rapl_reset_energy_values ==
    /\ edp.resetting
    /\ \/ /\ ctl' = [ctl EXCEPT !["edp"].acum = 0]
          /\ truth' = [truth EXCEPT !["edp"].energy = truth["edp"].fresh,
                                    !["edp"].sure = truth["edp"].fresh < Modulus]
       \/ UNCHANGED <<ctl, truth>>
    /\ edp' = [on |-> TRUE, resetting |-> FALSE]
    /\ UNCHANGED <<spent, rapl, timer>>

\* intel_rapl_release waits for the timer with the lock in its hands.
edp_release_resources ==
    /\ Ready
    /\ rapl' = [rapl EXCEPT !.locked = TRUE]
    /\ UNCHANGED <<spent, ctl, truth, timer, edp>>

intel_rapl_release ==
    /\ rapl.locked
    /\ timer # "running"
    /\ timer' = "off"
    /\ rapl' = [user |-> "none", timer |-> FALSE, locked |-> FALSE]
    /\ ctl' = [ctl EXCEPT !["edp"] = NoControl]
    /\ truth' = [truth EXCEPT !["edp"] = NoTruth]
    /\ edp' = [edp EXCEPT !.on = FALSE]
    /\ UNCHANGED spent

Next ==
    \/ \E p \in Package :
          \/ Spend(p)
          \/ intel_rapl_on_fork(p) \/ intel_rapl_on_new_sample(p)
          \/ intel_rapl_on_syswide_start_monitor(p)
          \/ rapl_timer(p) \/ edp_dump_global_counters(p)
          \/ edp_pause_global_counts(p) \/ edp_reset_global_counters(p)
    \/ intel_rapl_enable_module \/ intel_rapl_disable_module \/ intel_rapl_on_free_task
    \/ intel_rapl_on_syswide_refresh_monitor
    \/ intel_rapl_on_syswide_dump_virtual_counters \/ SyswideEnds
    \/ edp_initialize_environment \/ TimerExpires \/ edp_resume_global_counts
    \/ intel_rapl_reset_energy_values \/ edp_release_resources \/ intel_rapl_release

Spec == Init /\ [][Next]_raplVars

-----------------------------------------------------------------------------------
\* The energy told with a sample is what the package spent since the sample before,
\* however often the register wrapped in all, if it does not wrap twice between two
\* readings and both samples are read on one package.
SampleEnergyIsExact ==
    \A c \in {"thread", "cpu"} : truth[c].exact => ctl[c].told = truth[c].told

\* The sum of the EDP is what was spent up to the last reading since it was cleared, by a
\* reset that no reading overlapped, if all of them were on one package; a pause does not
\* keep it from adding, and until the first reset it may include what was spent before
\* it began.
EdpEnergyIsExact ==
    ctl["edp"].on /\ truth["edp"].sure
    => ctl["edp"].acum = truth["edp"].energy - truth["edp"].fresh

\* While RAPL has no user that wants it the timer is off, so that it does not run after
\* the module is unloaded.
TimerHasUser == rapl.user # "edp" => timer = "off"

EnergyCountersAreSound == SampleEnergyIsExact /\ EdpEnergyIsExact /\ TimerHasUser

\* Not true of the code: the end of the EDP and its timer may wait for each other.
ReleaseIsNotStuck == ~(rapl.locked /\ rapl.timer /\ timer = "running")
=================================================================================
