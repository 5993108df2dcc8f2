--------------------------------- MODULE PmuPhi ---------------------------------
(***********************************************************************************)
(* The backend of the Xeon Phi (pmu_config_phi.c and phi/hw_events.h).  All the    *)
(* counters are general-purpose ones and all of them interrupt.  The interrupt     *)
(* handler leaves the overflow status to whoever reads the counters.               *)
(***********************************************************************************)
EXTENDS HwEvents

Program(h, e, v) == [h EXCEPT !.val[e.phys] = v, !.sel[e.phys] = e.ctl]

start_count(h, e) == Program(h, e, e.new)

restart_count(h, e) == Program(h, e, e.reset)

stop_count(h, e) == [h EXCEPT !.sel[e.phys] = Off]

clear_count(h, e) == [h EXCEPT !.val[e.phys] = e.reset]

read_count(h, e) == [e EXCEPT !.new = h.val[e.phys]]

save_context(h, e) == [e EXCEPT !.new = h.val[e.phys]]

get_last_value(e) == e.new

get_reset_value(e) == e.reset

SelectOf(h, k) == h.sel[k]

parse_flag(p, t, ebsAllowed) ==
    IF p.error THEN p ELSE
    CASE t.key = "coretype" /\ t.idx \in {0, 1} -> [p EXCEPT !.coretype = t.idx]
      [] t.idx \notin Phys -> Rejected(p)
      [] t.key = "pmc" -> [p EXCEPT !.used = @ \cup {t.idx}, !.count = @ + 1,
                                    !.cfg[t.idx].usr = 1]
      [] t.key \in {"usr", "os"} -> BitFlag(p, t, t.key)
      [] t.key \in {"edge", "inv"} -> FilterFlag(p, t)
      [] t.key \in {"umask", "cmask"} /\ t.val # NoVal -> p
      [] t.key = "ebs" /\ ebsAllowed /\ p.ebs = -1 -> EbsFlag(p, t)
      [] OTHER -> Rejected(p)

parse_pmcs_strconfig(tokens, ebsAllowed) ==
    FoldLeft(LAMBDA p, t : parse_flag(p, t, ebsAllowed), Unparsed, tokens)

GpBits(p, k) ==
    LET c == p.cfg[k]
    IN  [modes |-> ModesOf(c.usr, IF c.ebs THEN 0 ELSE c.os), int |-> TRUE]

do_setup_pmcs(p) ==
    init_core_experiment_t(p, [k \in p.used |-> Event(k, GpBits(p, k), ResetValue(p.cfg[k]))])

mc_clear_all_platform_counters(h) == [h EXCEPT !.val = [k \in Phys |-> 0], !.sel = NoCtrl]

reset_overflow_status(h) == [h EXCEPT !.status = {}]

read_overflow_mask(h) == h.status

pmc_do_nmi_counter_overflow(h) == [h |-> h, mask |-> read_overflow_mask(h)]
=================================================================================
