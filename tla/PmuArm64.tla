-------------------------------- MODULE PmuArm64 --------------------------------
(***********************************************************************************)
(* The backend of 64-bit ARM processors (pmu_config_arm64.c, arm64/hw_events.h).   *)
(* Counter 0 is the cycle counter, which has no event select register and counts   *)
(* in every mode; each counter has an enable bit.  All but the cycle counter       *)
(* interrupt, from when the driver is loaded until it is removed, and overflows of *)
(* the cycle counter are ignored.  The bits of the event select register exclude a *)
(* mode, so the flags of the string are stored negated.                            *)
(***********************************************************************************)
EXTENDS HwEvents

IsFixed(k) == k = 0

-----------------------------------------------------------------------------------
(* Operations on the events of an experiment.                                       *)

Program(h, e, v) ==
    [h EXCEPT !.val[e.phys] = v,
              !.sel[e.phys] = IF IsFixed(e.phys) THEN @ ELSE e.ctl,
              !.enabled = @ \cup {e.phys}]

start_count(h, e) == Program(h, e, e.new)

restart_count(h, e) == Program(h, e, e.reset)

stop_count(h, e) == [h EXCEPT !.enabled = @ \ {e.phys}]

\* Zero, not the value the event starts from.
clear_count(h, e) == [h EXCEPT !.val[e.phys] = 0]

read_count(h, e) == [e EXCEPT !.new = h.val[e.phys]]

save_context(h, e) == [e EXCEPT !.new = h.val[e.phys]]

get_last_value(e) == e.new

get_reset_value(e) == e.reset

SelectOf(h, k) ==
    IF k \notin h.enabled THEN Off
    ELSE IF IsFixed(k) THEN [modes |-> Mode, int |-> FALSE] ELSE h.sel[k]

-----------------------------------------------------------------------------------
(* From a configuration string to an experiment.                                    *)

\* A flag that stands for a bit which excludes a mode: one, or no value, stores zero.
NegatedFlag(p, t, field) ==
    IF t.val \notin Bit \cup {NoVal} THEN Rejected(p)
    ELSE [p EXCEPT !.cfg[t.idx][field] = IF t.val = 0 THEN 1 ELSE 0]

parse_flag(p, t, ebsAllowed) ==
    IF p.error THEN p ELSE
    CASE t.key = "coretype" /\ t.idx \in {0, 1} -> [p EXCEPT !.coretype = t.idx]
      [] t.idx \notin Phys -> Rejected(p)
      [] t.key = "pmc" -> [p EXCEPT !.used = @ \cup {t.idx}, !.count = @ + 1,
                                    !.cfg[t.idx].usr = 0, !.cfg[t.idx].os = 1]
      [] t.key \in {"usr", "os"} -> NegatedFlag(p, t, t.key)
      [] t.key = "ebs" /\ ebsAllowed /\ p.ebs = -1 -> EbsFlag(p, t)
      [] OTHER -> Rejected(p)

parse_pmcs_strconfig(tokens, ebsAllowed) ==
    FoldLeft(LAMBDA p, t : parse_flag(p, t, ebsAllowed), Unparsed, tokens)

\* A counter sampled on never counts in kernel mode.
GpBits(p, k) ==
    LET c == p.cfg[k]
    IN  [modes |-> ModesOf(1 - c.usr, IF c.ebs THEN 0 ELSE 1 - c.os), int |-> TRUE]

do_setup_pmcs(p) ==
    LET Ctl(k) == IF IsFixed(k) THEN Off ELSE GpBits(p, k)
    IN  init_core_experiment_t(p, [k \in p.used |-> Event(k, Ctl(k), ResetValue(p.cfg[k]))])

-----------------------------------------------------------------------------------
(* The counters of a CPU, and their overflow.                                       *)

\* The counters are not stopped, but nothing is selected for them to count.
mc_clear_all_platform_counters(h) ==
    [h EXCEPT !.val = [k \in Phys |-> 0],
              !.sel = [k \in Phys |-> [modes |-> {}, int |-> TRUE]]]

reset_overflow_status(h) == [h EXCEPT !.status = {}]

\* The status is taken and cleared before the counters are looked at.
armv8pmu_handle_irq(h) == [h |-> reset_overflow_status(h), mask |-> h.status \ {0}]
=================================================================================
