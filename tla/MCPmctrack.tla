------------------------------- MODULE MCPmctrack -------------------------------
(* A program of two threads, monitored in each mode, one circumstance at a time.    *)
EXTENDS Pmctrack

CONSTANTS c, t

\* The last counts of a thread are of the second experiment.
McExpIdx == [s \in Sample |-> IF s[2] = "EXIT" THEN 1 ELSE 0]

Plain == [mode |-> "PROCESS", aggregate |-> FALSE, max_samples |-> NoLimit,
          timeout |-> FALSE, threads |-> {}, interrupt |-> FALSE, broken |-> FALSE,
          fails |-> FALSE]
AttachBoth == [Plain EXCEPT !.mode = "ATTACH", !.threads = {c, t}]
AttachOne == [Plain EXCEPT !.mode = "ATTACH", !.threads = {c}]
Syswide == [Plain EXCEPT !.mode = "SYSWIDE"]

Variants(s) == {s, [s EXCEPT !.interrupt = TRUE], [s EXCEPT !.aggregate = TRUE],
                [s EXCEPT !.max_samples = 1], [s EXCEPT !.fails = TRUE, !.aggregate = TRUE]}
McSetups == Variants(Plain) \cup Variants(AttachBoth)
              \cup {[Plain EXCEPT !.broken = TRUE], [AttachBoth EXCEPT !.broken = TRUE],
                    [AttachBoth EXCEPT !.timeout = TRUE],
                    AttachOne, Syswide, [Syswide EXCEPT !.fails = TRUE],
                    [Syswide EXCEPT !.interrupt = TRUE], [Syswide EXCEPT !.timeout = TRUE]}

Aggregate == {[Plain EXCEPT !.aggregate = TRUE]}
=================================================================================
