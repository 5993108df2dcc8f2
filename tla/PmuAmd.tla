--------------------------------- MODULE PmuAmd ---------------------------------
(***********************************************************************************)
(* The backend of AMD processors (pmu_config_x86.c and amd/hw_events.h).  There    *)
(* are no fixed-function counters and no register that says which counter has      *)
(* overflowed, so only the counter sampled on is made to interrupt, and every      *)
(* interrupt is taken to be its own.  The counters of the L3 cache, which several  *)
(* CPUs share, are not modelled.                                                   *)
(***********************************************************************************)
EXTENDS HwEvents

Program(h, e, v) == [h EXCEPT !.val[e.phys] = v, !.sel[e.phys] = e.ctl]

start_count(h, e) == Program(h, e, e.new)

restart_count(h, e) == Program(h, e, e.reset)

stop_count(h, e) == [h EXCEPT !.sel[e.phys] = Off]

clear_count(h, e) == [h EXCEPT !.val[e.phys] = e.reset]

read_count(h, e) == [e EXCEPT !.new = h.val[e.phys]]

save_context(h, e) == [e EXCEPT !.new = h.val[e.phys]]

get_last_value(e) == e.new

get_reset_value(e) == e.reset

SelectOf(h, k) == h.sel[k]

GpBits(p, k) ==
    LET c == p.cfg[k]
    IN  [modes |-> ModesOf(c.usr, IF c.ebs THEN 0 ELSE c.os), int |-> c.ebs]

do_setup_pmcs(p) ==
    init_core_experiment_t(p, [k \in p.used |-> Event(k, GpBits(p, k), ResetValue(p.cfg[k]))])

mc_clear_all_platform_counters(h) == [h EXCEPT !.val = [k \in Phys |-> 0], !.sel = NoCtrl]

reset_overflow_status(h) == h

read_overflow_mask(h) == {0}

pmc_do_nmi_counter_overflow(h) == [h |-> h, mask |-> read_overflow_mask(h)]

\* Only the counter sampled on is ever taken to have overflowed.
OverflowedEbs(x) == IF x.ebs = 0 THEN {} ELSE {x.lle[x.ebs].phys}
=================================================================================
