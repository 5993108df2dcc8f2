-------------------------------- MODULE PmuIntel --------------------------------
(***********************************************************************************)
(* The backend of Intel processors (pmu_config_x86.c and corei7/hw_events.h).      *)
(* A general-purpose counter has an event select register of its own; the          *)
(* fixed-function counters share one control register, which is written whole, so  *)
(* every fixed event of an experiment carries the bits of all of them and stopping *)
(* one stops them all.                                                             *)
(***********************************************************************************)
EXTENDS HwEvents

IsFixed(k) == k < NrFixed

-----------------------------------------------------------------------------------
(* Operations on the events of an experiment.                                       *)

\* Write the counter and the register that makes it count.
Program(h, e, v) ==
    IF IsFixed(e.phys)
    THEN [h EXCEPT !.val[e.phys] = v, !.ctrl = e.ctl]
    ELSE [h EXCEPT !.val[e.phys] = v, !.sel[e.phys] = e.ctl]

start_count(h, e) == Program(h, e, e.new)

restart_count(h, e) == Program(h, e, e.reset)

stop_count(h, e) ==
    IF IsFixed(e.phys) THEN [h EXCEPT !.ctrl = NoCtrl] ELSE [h EXCEPT !.sel[e.phys] = Off]

clear_count(h, e) == [h EXCEPT !.val[e.phys] = e.reset]

read_count(h, e) == [e EXCEPT !.new = h.val[e.phys]]

save_context(h, e) == [e EXCEPT !.new = h.val[e.phys]]

get_last_value(e) == e.new

get_reset_value(e) == e.reset

\* The event the hardware counts, and interrupts for.
SelectOf(h, k) == IF IsFixed(k) THEN h.ctrl[k] ELSE h.sel[k]

-----------------------------------------------------------------------------------
(* From a configuration string to an experiment.                                    *)

parse_flag(p, t, ebsAllowed) ==
    IF p.error THEN p ELSE
    CASE t.key = "coretype" /\ t.idx \in {0, 1} -> [p EXCEPT !.coretype = t.idx]
      [] t.idx \notin Phys -> Rejected(p)
      [] t.key = "pmc" -> [p EXCEPT !.used = @ \cup {t.idx}, !.count = @ + 1,
                                    !.cfg[t.idx].usr = 1]
      [] t.key \in {"usr", "os"} -> BitFlag(p, t, t.key)
      [] t.key \in {"edge", "inv", "any"} -> FilterFlag(p, t)
      [] t.key \in {"umask", "um", "cmask", "cm"} /\ t.val # NoVal -> p
      [] t.key = "ebs" /\ ebsAllowed /\ p.ebs = -1 -> EbsFlag(p, t)
      [] OTHER -> Rejected(p)

parse_pmcs_strconfig(tokens, ebsAllowed) ==
    FoldLeft(LAMBDA p, t : parse_flag(p, t, ebsAllowed), Unparsed, tokens)

\* The bits of a fixed counter; it interrupts only when it is the one sampled on.
FixedBits(p, k) ==
    IF k \notin p.used \/ ~IsFixed(k) THEN Off
    ELSE LET c == p.cfg[k]
         IN  [modes |-> ModesOf(c.usr, IF c.ebs THEN 0 ELSE c.os), int |-> c.ebs]

\* The counters 4 to 7 only count when the bit for kernel mode is set too.
GpBits(p, k) ==
    LET c  == p.cfg[k]
        os == IF c.ebs THEN 0 ELSE IF k - NrFixed \in 4 .. 7 THEN 1 ELSE c.os
    IN  [modes |-> ModesOf(c.usr, os), int |-> TRUE]

do_setup_pmcs(p) ==
    LET Ctl(k) == IF IsFixed(k) THEN [f \in Phys |-> FixedBits(p, f)] ELSE GpBits(p, k)
    IN  init_core_experiment_t(p, [k \in p.used |-> Event(k, Ctl(k), ResetValue(p.cfg[k]))])

-----------------------------------------------------------------------------------
(* The counters of a CPU, and their overflow.                                       *)

mc_clear_all_platform_counters(h) ==
    [h EXCEPT !.val = [k \in Phys |-> 0], !.sel = NoCtrl, !.ctrl = NoCtrl]

reset_overflow_status(h) == [h EXCEPT !.status = {}]

read_overflow_mask(h) == h.status

\* The status is cleared when the overflows have been served.
pmc_do_nmi_counter_overflow(h) == [h |-> h, mask |-> read_overflow_mask(h)]
=================================================================================
