-------------------------------- MODULE PmuPerf ---------------------------------
(***********************************************************************************)
(* The backend that leaves the counters to the perf subsystem of the kernel        *)
(* (pmu_config_perf.c and perf/hw_events.h).  An event counts while its thread     *)
(* runs and is enabled, so starting, stopping and saving do nothing; its 64-bit    *)
(* count never goes back, and what is read is the difference from the last time.   *)
(*                                                                                 *)
(* val is the count of each event, enabled those that are enabled, and new the     *)
(* old_value of an event.                                                          *)
(***********************************************************************************)
EXTENDS HwEvents

start_count(h, e) == h
restart_count(h, e) == h
stop_count(h, e) == h
clear_count(h, e) == h

read_count(h, e) == [e EXCEPT !.last = (h.val[e.phys] - e.new) % PerfModulus,
                              !.new = h.val[e.phys]]

get_last_value(e) == e.last

SelectOf(h, k) == IF k \in h.enabled THEN h.sel[k] ELSE Off

-----------------------------------------------------------------------------------
(* From a configuration string to events of perf.                                   *)

parse_flag(p, t, ebsAllowed) ==
    IF p.error THEN p ELSE
    CASE t.key = "coretype" /\ t.idx \in {0, 1} -> p
      [] t.idx \notin Phys -> Rejected(p)
      [] t.key = "pmc" -> [p EXCEPT !.used = @ \cup {t.idx}, !.count = @ + 1,
                                    !.cfg[t.idx].usr = 1, !.cfg[t.idx].pmu = -1]
      [] t.key = "usr" -> BitFlag(p, t, "usr")
      [] t.key = "os" -> BitFlag(p, t, "os")
      [] t.key = "systemwide" -> BitFlag(p, t, "wide")
      [] t.key \in {"edge", "inv", "any"} -> FilterFlag(p, t)
      [] t.key \in {"umask", "um", "cmask", "cm", "config1", "c1", "config2", "c2"}
             /\ t.val # NoVal -> p
      [] t.key = "pmu" -> [p EXCEPT !.cfg[t.idx].pmu = t.val]
      [] t.key = "ebs" /\ ebsAllowed /\ p.ebs = -1 -> EbsFlag(p, t)
      [] OTHER -> Rejected(p)

\* Whatever the string says, the core type is 0.
parse_pmcs_strconfig(tokens, ebsAllowed) ==
    [FoldLeft(LAMBDA p, t : parse_flag(p, t, ebsAllowed), Unparsed, tokens)
        EXCEPT !.coretype = 0]

\* Intel counters 4 to 7 only count when the bit for kernel mode is set too.
Forced(k, c) == IF k - NrFixed \in 4 .. 7 THEN [c EXCEPT !.os = 1] ELSE c

\* The kernel is left out of the count only when the user alone was asked for; there
\* is no way to leave out the user.
init_counter(c) ==
    [modes |-> IF c.os = 0 /\ c.usr = 1 /\ c.wide = 0 THEN {"user"} ELSE Mode, int |-> c.ebs]

do_setup_pmcs(p) ==
    LET used   == {k \in p.used : Exists(k)}
        events == [k \in used |-> [phys |-> k, ctl |-> init_counter(Forced(k, p.cfg[k])),
                                   reset |-> p.cfg[k].window, new |-> 0, last |-> 0]]
    IN  [init_core_experiment_t([p EXCEPT !.used = used], events) EXCEPT !.needSetup = FALSE]

-----------------------------------------------------------------------------------
(* Enabling and disabling.                                                          *)

Events(x) == {x.lle[i].phys : i \in DOMAIN x.lle}

perf_enable_counters(h, x) == [h EXCEPT !.enabled = @ \cup Events(x)]

perf_disable_counters(h, x) == [h EXCEPT !.enabled = @ \ Events(x)]
=================================================================================
