-------------------------------- MODULE HwEvents --------------------------------
(***********************************************************************************)
(* What the PMU backends of PMCTrack have in common: the counters of a CPU as the  *)
(* backends program them, the experiment a configuration string is turned into,    *)
(* and the words such a string is made of.  PmuIntel, PmuAmd, PmuPhi, PmuArm,      *)
(* PmuArm64 and PmuPerf say what each backend does with them.                      *)
(*                                                                                 *)
(* A physical counter is a number; on Intel and ARM the lowest are the             *)
(* fixed-function counters.  Of the fields of an event select register only those  *)
(* are kept that decide what is counted: the modes of execution, and whether an    *)
(* overflow interrupts.  Counters hold values modulo Modulus.                      *)
(***********************************************************************************)
EXTENDS Integers, Sequences, SequencesExt

CONSTANTS
    NrFixed,        \* fixed-function counters
    NrGp,           \* general-purpose counters
    MaxLlExps,      \* MAX_LL_EXPS, the counters an experiment has room for
    Modulus,        \* 2^w for a counter of w bits
    PerfModulus,    \* what the kernel's 64-bit counts are modulo
    DefaultWindow   \* events between two samples when "ebs" comes without a number

Phys == 0 .. MaxLlExps - 1
Exists(k) == k < NrFixed + NrGp
Mode == {"user", "kernel"}
Select == [modes : SUBSET Mode, int : BOOLEAN]
Off == [modes |-> {}, int |-> FALSE]

\* sel: an event select register for each counter; ctrl: the one control register the
\* fixed-function counters of Intel share; enabled: the enable bits of ARM; status:
\* the counters that have overflowed.
Pmu == [val : [Phys -> 0 .. PerfModulus - 1], sel : [Phys -> Select],
        ctrl : [Phys -> Select], enabled : SUBSET Phys, status : SUBSET Phys]

NoCtrl == [k \in Phys |-> Off]

-----------------------------------------------------------------------------------
(* Configuration strings.  A flag is a word, a number and perhaps a value.          *)

NoVal == -1
Bit == {0, 1}

\* What parse_pmcs_strconfig has understood so far: the configuration of each counter,
\* the counters in use, how many times one was named, the counter to sample on, the
\* core type, and whether a flag was not understood.
NoConfig == [usr |-> 0, os |-> 0, ebs |-> FALSE, window |-> 0, pmu |-> 0, wide |-> 0]
Unparsed == [cfg |-> [k \in Phys |-> NoConfig], used |-> {}, count |-> 0, ebs |-> -1,
             coretype |-> -1, error |-> FALSE]

Rejected(p) == [p EXCEPT !.error = TRUE]

\* A flag that stands for a bit: absent means one, and only 0 and 1 are accepted.
BitFlag(p, t, field) ==
    IF t.val \notin Bit \cup {NoVal} THEN Rejected(p)
    ELSE [p EXCEPT !.cfg[t.idx][field] = IF t.val = NoVal THEN 1 ELSE t.val]

\* Flags that select what an event is, which is abstracted: only their form matters.
FilterFlag(p, t) == IF t.val \notin Bit \cup {NoVal} THEN Rejected(p) ELSE p

EbsFlag(p, t) == [p EXCEPT !.cfg[t.idx].ebs = TRUE,
                           !.cfg[t.idx].window = IF t.val = NoVal THEN DefaultWindow ELSE t.val,
                           !.ebs = t.idx]

-----------------------------------------------------------------------------------
(* Experiments.                                                                     *)

\* A counter of an experiment: the value to start it from, the one saved when the
\* thread left the CPU, and what to write into its control register.
Event(k, ctl, reset) == [phys |-> k, ctl |-> ctl, reset |-> reset, new |-> reset]

\* The logical counters are the physical ones in use, in ascending order; events has
\* that of each.
init_core_experiment_t(p, events) ==
    LET order == SetToSortSeq(p.used, <)
    IN  [lle |-> [i \in DOMAIN order |-> events[order[i]]],
         ebs |-> IF \E i \in DOMAIN order : p.cfg[order[i]].ebs
                 THEN CHOOSE i \in DOMAIN order : p.cfg[order[i]].ebs
                 ELSE 0,
         nrOverflows |-> [i \in DOMAIN order |-> 0],
         needSetup |-> TRUE]

\* A counter overflows when it has counted the window it was started short of.
ResetValue(c) == IF c.ebs THEN (-c.window) % Modulus ELSE 0

ModesOf(usr, os) == {m \in Mode : (m = "user" /\ usr = 1) \/ (m = "kernel" /\ os = 1)}
=================================================================================
