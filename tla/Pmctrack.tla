-------------------------------- MODULE Pmctrack --------------------------------
(* The pmctrack command (cmdtools/pmctrack/pmctrack.c, with the functions of        *)
(* libpmctrack/src/core.c it calls), at work on the buffer of samples of module     *)
(* SamplesBuffer: it launches a program and monitors it, or the whole system while  *)
(* the program runs, or attaches to a program that is there; prints its samples or  *)
(* adds them up; and ends with it, at a limit, or when it is told to.               *)
(*                                                                                  *)
(* The command is one thread and three signal handlers, which run between any two   *)
(* of its steps.  No handler restarts what it interrupts (sa_flags is 0), so that a *)
(* signal ends pause, read and wait4.  As built (USE_VFORK), the command is stopped *)
(* while the child sets itself up.                                                  *)
EXTENDS SamplesBuffer

CONSTANTS
    Child,          \* the thread that is launched, or whose pid is given
    Family,         \* the threads of its process
    Setups,         \* what is asked of the command, and what it may meet
    NrExperiments,
    ExpIdx,         \* the experiment a sample is of
    BatchSize,      \* samples that fit in the memory read is given
    Junk,           \* what malloc may leave in a counter
    MaxTicks        \* bound: samples taken, besides those of an exit

ASSUME PmctrackAssumption ==
    /\ Child \in Family /\ Family \subseteq Task
    /\ NrExperiments \in Nat \ {0} /\ BatchSize \in Nat \ {0} /\ MaxTicks \in Nat
    /\ ExpIdx \in [Sample -> 0 .. NrExperiments - 1]
    /\ 0 \in Junk /\ Junk \subseteq Nat

VARIABLES
    setup,            \* never changes: see SetupIsValid
    pc,               \* where the command is
    child,            \* the process that was launched
    signals,          \* pending signals
    timer,            \* is the alarm set?
    late,             \* is the time of -N over?
    terminated,       \* was SIGTERM sent to the child?
    child_finished, stop_profiling, profile_started,
    set,              \* pid_set: the threads attached
    untried,          \* the threads of the set that attach_pid_set has not come to
    todo,             \* samples read that the loop over them has not come to
    rows,             \* pid_ctrl_vector and acum_samples
    reported,         \* have they been printed?
    ended,            \* how the loop was left
    shown,            \* history: the samples printed, or added up
    tally             \* history: samples stored, overwritten, and cut off by -n

flagVars == <<child_finished, stop_profiling, profile_started>>
childVars == <<child, late, terminated>>
outVars == <<todo, rows, reported, shown>>
setVars == <<set, untried>>
sessionVars == <<setup, pc, signals, timer, ended, tally,
                 flagVars, childVars, outVars, setVars>>
bufferVars == vars

NoLimit == -1
Experiment == 0 .. NrExperiments - 1
cont == Len(shown) + 1

\* check_options: -S and -p exclude each other.
SetupIsValid(c) ==
    /\ c.mode \in {"PROCESS", "SYSWIDE", "ATTACH"}
    /\ c.aggregate \in BOOLEAN                \* -A
    /\ c.max_samples \in {NoLimit} \cup Nat   \* -n
    /\ c.timeout \in BOOLEAN                  \* -N
    /\ c.threads \subseteq Family             \* -p: populate_pid_set
    /\ c.mode = "ATTACH" <=> Child \in c.threads
    /\ c.interrupt \in BOOLEAN                \* Ctrl+C
    /\ c.broken \in BOOLEAN                   \* nobody reads what is printed
    /\ c.fails \in BOOLEAN                    \* calls fail

Launched == setup.mode # "ATTACH"

\* In the system-wide mode no thread is monitored: this entry stands for the mode, which
\* has a reference to the buffer of its monitor as long as it is on.
SyswideHolder == Child

\* How far monitoring_counters* get before they start a child or attach: who launches a
\* program has no buffer yet, the mode is on, the monitor of threads has a buffer.
SessionInit ==
    /\ setup \in Setups
    /\ Pmcs!FifoInit
    /\ ref_counter = CASE setup.mode = "PROCESS" -> 0
                       [] setup.mode = "ATTACH" -> 1
                       [] setup.mode = "SYSWIDE" -> 2
    /\ reader = IF setup.mode = "PROCESS" THEN "gone" ELSE "user"
    /\ monitor_waiting = FALSE /\ sem_queue = 0
    /\ task = [t \in Task |-> IF setup.mode = "SYSWIDE" /\ t = SyswideHolder
                              THEN "monitored" ELSE "free"]
    /\ forking = [t \in Task |-> t] /\ leaked = 0 /\ accidents = {}
    /\ pc = IF Launched THEN "fork" ELSE "attach"
    /\ child = "none"
    /\ signals = {} /\ timer = FALSE /\ late = FALSE /\ terminated = FALSE
    /\ child_finished = FALSE /\ stop_profiling = FALSE /\ profile_started = FALSE
    /\ set = {} /\ untried = setup.threads
    /\ todo = << >> /\ rows = << >> /\ reported = FALSE /\ ended = "no"
    /\ shown = << >> /\ tally = [stored |-> 0, lost |-> 0, cut |-> 0]

-----------------------------------------------------------------------------------
(* The threads monitored, as in SamplesBuffer.                                      *)

\* A sample that is stored, perhaps over another one.
Stored == tally' = [tally EXCEPT !.stored = @ + 1,
                                 !.lost = @ + (IF Len(queue) = Capacity THEN 1 ELSE 0)]

Elsewhere == UNCHANGED <<setup, pc, signals, timer, ended, flagVars, childVars, outVars, setVars>>

Sampled(t) ==
    /\ setup.mode # "SYSWIDE"
    /\ tally.stored < MaxTicks
    /\ TakeSample(t)
    /\ Stored /\ Elsewhere

\* In the system-wide mode the samples are of CPUs, t stands for one.
SampledSyswide(t) ==
    /\ setup.mode = "SYSWIDE" /\ task[SyswideHolder] = "monitored"
    /\ tally.stored < MaxTicks
    /\ Push(t, "TICK")
    /\ UNCHANGED <<ref_counter, reader, task, forkVars>>
    /\ Stored /\ Elsewhere

Exits(t) ==
    /\ setup.mode # "SYSWIDE"
    /\ AnnounceExit(t)
    /\ IF t \in EbsTask THEN UNCHANGED tally ELSE Stored
    /\ Elsewhere

\* New threads are of the same process (is_new_thread), and not those that were there
\* before: the other processes that a program creates do not inherit its buffer.
LivesOn(t) ==
    /\ setup.mode # "SYSWIDE"
    /\ \/ \E u \in Family \ setup.threads : ForkTests(t, u)
       \/ ForkGets(t) \/ ForkAssigns(t) \/ ForkEnds(t)
       \/ DropReference(t) \/ Reaped(t)
       \/ t \in setup.threads /\ ExitUnmonitored(t)
    /\ UNCHANGED tally /\ Elsewhere

\* The process of the child ends with its last thread.  SIGCHLD is sent then.
ChildExits ==
    /\ child = "running"
    /\ setup.mode = "PROCESS" => \A t \in Family : task[t] \in {"free", "gone"}
    /\ child' = "zombie"
    /\ signals' = signals \cup {"CHLD"}
    /\ UNCHANGED <<bufferVars, setup, pc, timer, ended, tally, flagVars, late, terminated,
                   outVars, setVars>>

-----------------------------------------------------------------------------------
(* Starting.                                                                        *)

Goto(p) == pc' = p
Silent == UNCHANGED <<setup, signals, timer, tally>>

\* exit(1) before process_pmc_counts.
GiveUp == pc' = "exited" /\ ended' = "early"

ForkChild ==
    /\ pc = "fork"
    /\ \/ /\ child' = "setup" /\ Goto("vforked") /\ UNCHANGED ended
       \/ setup.fails /\ GiveUp /\ UNCHANGED child
    /\ Silent /\ UNCHANGED <<bufferVars, flagVars, late, terminated, outVars, setVars>>

\* The child configures itself and starts to count, which allocates the buffer, unless
\* it is the command that monitors the whole system; and becomes the program.
ChildExecs ==
    /\ pc = "vforked"
    /\ child' = "running"
    /\ IF setup.mode = "PROCESS"
       THEN /\ ref_counter' = 1
            /\ task' = [task EXCEPT ![Child] = "monitored"]
            /\ Goto("started")
       ELSE UNCHANGED <<ref_counter, task>> /\ Goto("open")
    /\ Silent /\ UNCHANGED <<queue, got, monitor_waiting, sem_queue, reader, forkVars, late,
                             terminated, ended, flagVars, outVars, setVars>>

\* ... or fails before that, and has still to exit when the command goes on.
ChildFails ==
    /\ pc = "vforked" /\ setup.fails
    /\ child' = "running"
    /\ Goto(IF setup.mode = "PROCESS" THEN "started" ELSE "open")
    /\ Silent /\ UNCHANGED <<bufferVars, late, terminated, ended, flagVars, outVars, setVars>>

\* The child may have finished already.
CheckChild ==
    /\ pc = "started"
    /\ IF child = "zombie"
       THEN child' = "reaped" /\ GiveUp
       ELSE Goto("monitor") /\ UNCHANGED <<child, ended>>
    /\ Silent /\ UNCHANGED <<bufferVars, late, terminated, flagVars, outVars, setVars>>

\* pid_monitor: the child has a buffer, or none ...
pmct_monitor_process ==
    /\ pc = "monitor"
    /\ IF task[Child] \in {"monitored", "exiting"}
       THEN Goto("found") /\ UNCHANGED ended
       ELSE GiveUp
    /\ Silent /\ UNCHANGED <<bufferVars, childVars, flagVars, outVars, setVars>>

\* ... and the command becomes a holder of it, without a lock: it may have been freed.
GetBuffer ==
    /\ pc = "found"
    /\ IF ref_counter > 0
       THEN Get /\ reader' = "user" /\ Goto("open") /\ UNCHANGED ended
       ELSE pc' = "exited" /\ ended' = "wild" /\ UNCHANGED <<ref_counter, reader>>
    /\ Silent /\ UNCHANGED <<queue, got, monitor_waiting, sem_queue, task, forkVars,
                             childVars, flagVars, outVars, setVars>>

\* attach_pid_set: the thread with the given pid must be attached, others may be gone.
\* One that has exited is still attached if it is found.
AttachFirst ==
    /\ pc = "attach"
    /\ \/ /\ Attach(Child) \/ AttachExited(Child)
          /\ set' = {Child} /\ untried' = untried \ {Child}
          /\ Goto("others") /\ UNCHANGED ended
       \/ /\ task[Child] # "free"
          /\ GiveUp /\ UNCHANGED <<bufferVars, setVars>>
    /\ Silent /\ UNCHANGED <<childVars, flagVars, outVars>>

AttachOther(t) ==
    /\ pc = "others" /\ t \in untried
    /\ untried' = untried \ {t}
    /\ \/ (Attach(t) \/ AttachExited(t)) /\ set' = set \cup {t}
       \/ task[t] # "free" /\ UNCHANGED <<bufferVars, set>>
    /\ Silent /\ UNCHANGED <<pc, ended, childVars, flagVars, outVars>>

AllAttached ==
    /\ pc = "others" /\ untried = {}
    /\ Goto("open")
    /\ Silent /\ UNCHANGED <<bufferVars, ended, childVars, flagVars, outVars, setVars>>

-----------------------------------------------------------------------------------
(* process_pmc_counts.                                                              *)

\* pmct_open_monitor_entry, and memory to read into.
Open ==
    /\ pc = "open"
    /\ profile_started' = TRUE
    /\ \/ Goto("loop") /\ UNCHANGED ended
       \/ setup.fails /\ Goto("error_path") /\ ended' = "failed"
    /\ Silent /\ UNCHANGED <<bufferVars, child_finished, stop_profiling, childVars,
                             outVars, setVars>>

Leave(why) == pc' = "report" /\ ended' = why

\* A child that has finished is not waited for: what it left is read at once.
Loop ==
    /\ pc = "loop"
    /\ IF stop_profiling THEN Leave("stopped") /\ UNCHANGED timer
       ELSE /\ UNCHANGED ended
            /\ IF child_finished THEN Goto("read") /\ UNCHANGED timer
               ELSE Goto("alarmed") /\ timer' = TRUE
    /\ UNCHANGED <<bufferVars, setup, signals, tally, flagVars, childVars, outVars, setVars>>

Pause ==
    /\ pc = "alarmed"
    /\ Goto("pause")
    /\ Silent /\ UNCHANGED <<bufferVars, ended, flagVars, childVars, outVars, setVars>>

\* After pause: has Ctrl+C been pressed?
TestStop ==
    /\ pc = "woken"
    /\ Goto(IF stop_profiling THEN "loop" ELSE "read")
    /\ Silent /\ UNCHANGED <<bufferVars, ended, flagVars, childVars, outVars, setVars>>

\* The limit of -n: what a read returned beyond it is dropped.
Within(s) ==
    IF setup.max_samples = NoLimit \/ cont + Len(s) <= setup.max_samples THEN s
    ELSE SubSeq(s, 1, setup.max_samples - (cont - 1))

\* read of /proc/pmc/monitor, which may wait: see SamplesBuffer.
pmct_read_samples ==
    /\ pc = "read"
    /\ \/ /\ ReadWait \/ Down
          /\ UNCHANGED <<pc, todo, tally>>
       \/ /\ ReadEof
          /\ Goto("eof") /\ UNCHANGED <<todo, tally>>
       \/ /\ ReadBatch(BatchSize)
          /\ Goto("samples")
          /\ todo' = Within(got')
          /\ tally' = [tally EXCEPT !.cut = @ + Len(got') - Len(Within(got'))]
    /\ UNCHANGED <<setup, signals, timer, ended, flagVars, childVars, rows, reported,
                   shown, setVars>>

\* A signal ends a wait, and with it the session.
ReadFails ==
    /\ pc = "read"
    /\ \/ signals # {} /\ Signal /\ UNCHANGED <<pc, ended>>
       \/ ReadInterrupted /\ Goto("error_path") /\ ended' = "interrupted"
    /\ Silent /\ UNCHANGED <<flagVars, childVars, outVars, setVars>>

\* Seeded fault: the end of file of a child that has not been seen to finish ends all.
NothingRead_AnyEof ==
    /\ pc = "eof" /\ ReturnToUser
    /\ Leave("eof")
    /\ Silent /\ UNCHANGED <<flagVars, childVars, outVars, setVars>>
NothingRead ==
    /\ pc = "eof" /\ ReturnToUser
    /\ IF setup.mode = "ATTACH" \/ child_finished THEN Leave("eof")
       ELSE Goto("loop") /\ UNCHANGED ended
    /\ Silent /\ UNCHANGED <<flagVars, childVars, outVars, setVars>>

-----------------------------------------------------------------------------------
(* The samples read, one by one.                                                    *)

IsOf(row, s) == row.pid = s[1]
RowOf(s) == CHOOSE j \in 1 .. Len(rows) + 1 :
              /\ j <= Len(rows) => IsOf(rows[j], s)
              /\ \A k \in 1 .. j - 1 : ~IsOf(rows[k], s)

\* A row for a thread that has none: the memory is not cleared.
NewRow(s, junk) == [pid |-> s[1], exp_mask |-> {}, heap |-> junk, acum |-> junk,
                    nr_samples_accum |-> junk]

\* pmct_accumulate_sample: each experiment ran for its share of the time.
Accumulate_Once(row, e) == [row EXCEPT !.acum[e] = @ + 1]
Accumulate(row, e) == [row EXCEPT !.acum[e] = @ + NrExperiments]

\* Seeded fault: one mark for all experiments of a thread.
AddTo_OneMark(row, e) ==
    LET first == row.exp_mask = {}
    IN  Accumulate([row EXCEPT !.exp_mask = @ \cup {e},
                               !.nr_samples_accum[e] = IF first THEN 1 ELSE @ + 1], e)
\* Seeded fault: a count is begun again with each sample.
AddTo_Restarts(row, e) ==
    Accumulate([row EXCEPT !.exp_mask = @ \cup {e}, !.nr_samples_accum[e] = 1], e)
AddTo(row, e) ==
    LET counted == IF e \in row.exp_mask THEN row.nr_samples_accum[e] + 1 ELSE 1
    IN  Accumulate([row EXCEPT !.exp_mask = @ \cup {e}, !.nr_samples_accum[e] = counted], e)

AddUp(s) ==
    LET j == RowOf(s)
    IN  IF j <= Len(rows) THEN rows' = [rows EXCEPT ![j] = AddTo(@, ExpIdx[s])]
        ELSE \E value \in Junk :
               rows' = Append(rows, AddTo(NewRow(s, [e \in Experiment |-> value]), ExpIdx[s]))

Limit(n) == \/ setup.max_samples # NoLimit /\ n > setup.max_samples
            \/ setup.timeout /\ late

\* One sample: it is printed, or added up; then the limits of -n and -N.
Process ==
    /\ pc = "samples" /\ todo # << >>
    /\ todo' = Tail(todo)
    /\ shown' = Append(shown, Head(todo))
    /\ IF setup.aggregate THEN AddUp(Head(todo)) ELSE UNCHANGED rows
    /\ IF Launched
       THEN terminated' = (terminated \/ (~child_finished /\ Limit(cont + 1))) /\ UNCHANGED pc
       ELSE Goto(IF Limit(cont + 1) THEN "detach" ELSE "samples") /\ UNCHANGED terminated
    /\ Silent /\ UNCHANGED <<bufferVars, ended, flagVars, child, late, reported, setVars>>

\* There is no memory for another row.
ProcessFails ==
    /\ pc = "samples" /\ todo # << >>
    /\ setup.fails /\ setup.aggregate /\ RowOf(Head(todo)) > Len(rows)
    /\ Goto("error_path") /\ ended' = "failed"
    /\ Silent /\ UNCHANGED <<bufferVars, flagVars, childVars, outVars, setVars>>

Processed ==
    /\ pc = "samples" /\ todo = << >>
    /\ Goto("loop")
    /\ Silent /\ UNCHANGED <<bufferVars, ended, flagVars, childVars, outVars, setVars>>

-----------------------------------------------------------------------------------
(* The end.                                                                         *)

Report ==
    /\ pc = "report"
    /\ reported' = setup.aggregate
    /\ Goto("error_path")
    /\ Silent /\ UNCHANGED <<bufferVars, ended, flagVars, childVars, todo, rows, shown, setVars>>

Attached(t) == task[t] \in {"monitored", "kept"}

\* detach_pid_set, of threads that may have exited; one that is exiting is waited for.
DetachOne_KeepsMark(t) ==
    /\ t \in set /\ task[t] # "exiting"
    /\ \/ Detach(t) \/ DetachOther(t)
       \/ ~Attached(t) /\ UNCHANGED bufferVars
    /\ set' = {}
DetachOne(t) ==
    /\ t \in set /\ task[t] # "exiting"
    /\ \/ Detach(t) \/ DetachOther(t)
       \/ ~Attached(t) /\ UNCHANGED bufferVars
    /\ set' = set \ {t}

DetachSet ==
    /\ pc \in {"detach", "error_path"}
    /\ \E t \in Task : DetachOne(t)
    /\ Silent /\ UNCHANGED <<pc, ended, untried, flagVars, childVars, outVars>>

\* After the limit there is nobody left to detach at the end.
Detached ==
    /\ pc = "detach" /\ set = {}
    /\ Goto("samples")
    /\ Silent /\ UNCHANGED <<bufferVars, ended, flagVars, childVars, outVars, setVars>>

AllDetached ==
    /\ pc = "error_path" /\ set = {}
    /\ Goto(IF Launched /\ ~child_finished THEN "wait4" ELSE "exited")
    /\ Silent /\ UNCHANGED <<bufferVars, ended, flagVars, childVars, outVars, setVars>>

\* wait4 finds the child, or none because the handler of SIGCHLD has had it.
Wait4 ==
    /\ pc = "wait4"
    /\ child \in {"zombie", "reaped"}
    /\ child' = "reaped"
    /\ Goto("exited")
    /\ Silent /\ UNCHANGED <<bufferVars, ended, flagVars, late, terminated, outVars, setVars>>

\* A process that exits stops the system-wide mode, and drops its reference.
Exit ==
    /\ pc = "exited" /\ UNCHANGED sessionVars
    /\ IF setup.mode = "SYSWIDE"
       THEN /\ reader \in {"user", "eof"} /\ reader' = "gone"
            /\ task' = [task EXCEPT ![SyswideHolder] = "gone"]
            /\ ref_counter' = ref_counter - 2
            /\ UNCHANGED <<queue, got, monitor_waiting, sem_queue, forkVars>>
       ELSE MonitorExit

-----------------------------------------------------------------------------------
(* Signals.  A handler runs when the command is in user mode, or waits in pause or   *)
(* wait4, which it ends.                                                            *)

InUserMode == pc \notin {"vforked", "found", "exited"} /\ reader \in {"user", "eof", "gone"}
Resume == pc' = CASE pc = "pause" -> "woken" [] pc = "wait4" -> "exited" [] OTHER -> pc

\* The alarm is set for long enough to get to pause.
AlarmExpires ==
    /\ timer /\ pc \notin {"alarmed", "exited"}
    /\ timer' = FALSE
    /\ signals' = signals \cup {"ALRM"}
    /\ UNCHANGED <<bufferVars, setup, pc, ended, tally, flagVars, childVars, outVars, setVars>>

sigalarm_handler ==
    /\ InUserMode /\ "ALRM" \in signals
    /\ signals' = signals \ {"ALRM"}
    /\ Resume
    /\ UNCHANGED <<bufferVars, setup, timer, ended, tally, flagVars, childVars, outVars, setVars>>

\* Seeded fault: the child is reaped and nobody is told.
sigchld_handler_Silent ==
    /\ InUserMode /\ "CHLD" \in signals
    /\ signals' = signals \ {"CHLD"}
    /\ IF ~profile_started
       THEN GiveUp /\ UNCHANGED child
       ELSE Resume /\ UNCHANGED ended /\ child' = IF child = "zombie" THEN "reaped" ELSE child
    /\ UNCHANGED <<bufferVars, setup, timer, tally, flagVars, late, terminated,
                   outVars, setVars>>
\* A child that ends before the loop begins ends the command.
sigchld_handler ==
    /\ InUserMode /\ "CHLD" \in signals
    /\ signals' = signals \ {"CHLD"}
    /\ IF ~profile_started
       THEN GiveUp /\ UNCHANGED <<child, child_finished>>
       ELSE /\ Resume /\ UNCHANGED ended
            /\ IF child = "zombie" THEN child' = "reaped" /\ child_finished' = TRUE
               ELSE UNCHANGED <<child, child_finished>>
    /\ UNCHANGED <<bufferVars, setup, timer, tally, stop_profiling, profile_started,
                   late, terminated, outVars, setVars>>

Interrupt ==
    /\ setup.interrupt /\ ~stop_profiling /\ pc # "exited" /\ "INT" \notin signals
    /\ signals' = signals \cup {"INT"}
    /\ UNCHANGED <<bufferVars, setup, pc, timer, ended, tally, flagVars, childVars,
                   outVars, setVars>>

\* Only a child is killed, not a program that was there before.
sigint_handler ==
    /\ InUserMode /\ "INT" \in signals
    /\ signals' = signals \ {"INT"}
    /\ terminated' = (terminated \/ child # "none")
    /\ stop_profiling' = TRUE
    /\ Resume
    /\ UNCHANGED <<bufferVars, setup, timer, ended, tally, child_finished, profile_started,
                   child, late, outVars, setVars>>

\* SIGPIPE, on printing: the same handler, which ends the command.
BrokenPipe ==
    /\ setup.broken /\ ~setup.aggregate
    /\ pc = "samples" /\ shown # << >>
    /\ terminated' = (terminated \/ child # "none")
    /\ stop_profiling' = TRUE
    /\ child' = IF child = "zombie" THEN "reaped" ELSE child
    /\ child_finished' = (child_finished \/ child = "zombie")
    /\ pc' = "exited" /\ ended' = "broken"
    /\ Silent /\ UNCHANGED <<bufferVars, profile_started, late, outVars, setVars>>

TimePasses ==
    /\ setup.timeout /\ ~late /\ pc # "exited"
    /\ late' = TRUE
    /\ Silent /\ UNCHANGED <<bufferVars, pc, ended, flagVars, child, terminated, outVars, setVars>>

-----------------------------------------------------------------------------------
ThreadStep == \E t \in Task : Sampled(t) \/ SampledSyswide(t) \/ Exits(t) \/ LivesOn(t)

StartStep ==
    \/ ForkChild \/ ChildExecs \/ ChildFails \/ CheckChild \/ pmct_monitor_process \/ GetBuffer
    \/ AttachFirst \/ (\E t \in Task : AttachOther(t)) \/ AllAttached

CountsStep ==
    \/ Open \/ Loop \/ Pause \/ TestStop \/ pmct_read_samples \/ ReadFails \/ NothingRead
    \/ Process \/ ProcessFails \/ Processed

EndStep == Report \/ DetachSet \/ Detached \/ AllDetached \/ Wait4 \/ Exit

HandlerStep == sigalarm_handler \/ sigchld_handler \/ sigint_handler

SessionNext ==
    \/ ThreadStep \/ StartStep \/ CountsStep \/ EndStep \/ HandlerStep
    \/ ChildExits \/ AlarmExpires \/ Interrupt \/ BrokenPipe \/ TimePasses

SessionSpec == SessionInit /\ [][SessionNext]_<<bufferVars, sessionVars>>

\* The command and its handlers run, alarms go off, and a process whose threads have
\* exited ends.  Nothing is said of when threads take samples or exit.
SessionFairness ==
    /\ WF_<<bufferVars, sessionVars>>(StartStep)
    /\ WF_<<bufferVars, sessionVars>>(CountsStep)
    /\ WF_<<bufferVars, sessionVars>>(EndStep)
    /\ WF_<<bufferVars, sessionVars>>(sigalarm_handler)
    /\ WF_<<bufferVars, sessionVars>>(sigchld_handler)
    /\ WF_<<bufferVars, sessionVars>>(sigint_handler)
    /\ WF_<<bufferVars, sessionVars>>(AlarmExpires)

FairSession == SessionSpec /\ SessionFairness

-----------------------------------------------------------------------------------
SessionTypeOK ==
    /\ TypeOK
    /\ SetupIsValid(setup)
    /\ pc \in {"fork", "vforked", "started", "monitor", "found", "attach", "others", "open", "loop",
               "alarmed", "pause", "woken", "read", "eof", "samples", "detach", "report",
               "error_path", "wait4", "exited"}
    /\ child \in {"none", "setup", "running", "zombie", "reaped"}
    /\ signals \subseteq {"ALRM", "CHLD", "INT"}
    /\ {timer, late, terminated, child_finished, stop_profiling, profile_started, reported}
         \subseteq BOOLEAN
    /\ set \subseteq setup.threads /\ untried \subseteq setup.threads
    /\ todo \in Seq(Sample) /\ shown \in Seq(Sample)
    /\ ended \in {"no", "early", "failed", "eof", "stopped", "interrupted", "broken", "wild"}
    /\ tally \in [stored : Nat, lost : Nat, cut : Nat]

\* Every sample stored was overwritten, or waits in the buffer, or was read; and what
\* was read was shown once, or is about to be, or was beyond the limit (pmctrack.c
\* 1063-1118).
EverySampleHasAFate ==
    tally.stored = tally.lost + Len(queue) + Len(todo) + Len(shown) + tally.cut

\* A session of threads that comes to its end has left nothing behind, and nobody can
\* add to it (pmctrack.c 1068-1074); but for the child of a fork that a detach overtook.
NothingIsLeftBehind ==
    ended = "eof" /\ "overtaken" \notin accidents =>
      queue = << >> /\ todo = << >> /\ Holders = {}

\* No more samples than asked for are shown; and once they are, the child has been
\* terminated or has finished, or the threads have been detached (1076-1134).
LimitIsRespected ==
    setup.max_samples # NoLimit =>
      /\ Len(shown) <= setup.max_samples
      /\ Len(shown) = setup.max_samples /\ pc = "loop" =>
           IF Launched THEN terminated \/ child_finished
           ELSE \A t \in setup.threads : ~Attached(t)

\* The command does not leave threads behind that it attached to, unless it dies of a
\* broken pipe: they would go on filling a buffer that nobody reads (1157, 891-904).
NobodyStaysAttached ==
    pc = "exited" /\ setup.mode = "ATTACH" /\ ended # "broken" =>
      \A t \in setup.threads : ~Attached(t)

\* What is added up is what was read: for each thread and experiment the number of its
\* samples, and their counts times the experiments, on top of what malloc left in the
\* counters (1083-1113, core.c 547-587).
Taken(p, e) == Cardinality({k \in DOMAIN shown : shown[k][1] = p /\ ExpIdx[shown[k]] = e})
SumsAreExact ==
    setup.aggregate =>
      /\ \A p \in {shown[k][1] : k \in DOMAIN shown} :
           \E j \in DOMAIN rows : rows[j].pid = p
      /\ \A j, k \in DOMAIN rows : rows[j].pid = rows[k].pid => j = k
      /\ \A j \in DOMAIN rows : \A e \in Experiment :
           LET row == rows[j]
               n   == Taken(row.pid, e)
           IN  /\ e \in row.exp_mask <=> n > 0
               /\ n > 0 => row.nr_samples_accum[e] = n
               /\ row.acum[e] = row.heap[e] + n * NrExperiments

\* The end is reported to a command that is still there for its child: one that ends
\* of itself after launching a program has seen it finish (1073, 1160-1163).
EndsWithItsChild ==
    pc = "exited" /\ Launched /\ ended = "eof" => child = "reaped" /\ child_finished

\* The mode holds the buffer as long as it is on, so that no read of its monitor reports
\* the end: unlike the session of a program, one of the whole system does not end with
\* its program, but when it is stopped, or when a signal finds it in read (syswide.c
\* 466, mchw_core.c 2392).
SyswideGoesOn == setup.mode = "SYSWIDE" => ended # "eof"

\* Not an invariant: the buffer of the child lasts until the command has got it
\* (mchw_core.c 2252-2254).
BufferIsGotInTime == ended # "wild"

\* The buffer is the one of SamplesBuffer: its references and its wake-ups are sound
\* although the command comes late, reads when it is told to, and may be killed.
SessionIsSound ==
    /\ SessionTypeOK
    /\ RefsAreHolders
    /\ WakeupPending
    /\ EverySampleHasAFate
    /\ NothingIsLeftBehind
    /\ LimitIsRespected
    /\ NobodyStaysAttached
    /\ SumsAreExact
    /\ EndsWithItsChild
    /\ SyswideGoesOn

\* Once the program has ended, so does the command that monitors it: no signal is lost
\* that it needs to see it, whatever it was doing (1051-1074, 1173-1183).
SessionEnds == setup.mode = "PROCESS" /\ child = "zombie" ~> pc = "exited"

\* Not a property of the code, see SyswideGoesOn: and so does the command that monitors
\* the whole system.
SyswideEnds == setup.mode = "SYSWIDE" /\ child = "zombie" ~> pc = "exited"

\* README.md line 356 says of -A: "pmctrack will display the aggregate event count for
\* the application's entire execution".  Whoever asked for it, and let the application
\* finish, should be shown what was added up.
AggregateIsDisplayed ==
    pc = "exited" /\ rows # << >> /\ ended \notin {"early", "failed", "wild"} => reported
=================================================================================
