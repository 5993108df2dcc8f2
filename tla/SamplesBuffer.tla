--------------------------- MODULE SamplesBuffer ---------------------------
(***************************************************************************)
(* The buffer of PMC samples that a monitor process shares with the        *)
(* threads it monitors (pmc_samples_buffer_t in mc_experiments.h), and the *)
(* blocking read of /proc/pmc/monitor (proc_monitor_pmcs_read in           *)
(* mchw_core.c).                                                           *)
(*                                                                         *)
(* Every holder of the buffer has a reference: the monitor that allocated  *)
(* it, and each monitored thread, which gets its own when it is attached   *)
(* or forked and drops it when it is detached or exits.  A thread that     *)
(* forks hands the buffer on in three reads of its own pointer, none of    *)
(* them under a lock, and an interrupt may detach it in between.  An       *)
(* exited thread can be attached until it is reaped.  The reader blocks    *)
(* on a semaphore while the buffer is empty; whoever stores a sample wakes *)
(* it if the monitor_waiting flag says so.  A read returns 0 (end of file) *)
(* when the buffer is empty and the reader holds the only reference.       *)
(*                                                                         *)
(* A step is a critical section of the buffer's spinlock, or a statement   *)
(* executed outside of it.  The ring buffer is the queue it implements     *)
(* (module CBuffer); a sample is the thread that produced it and its type. *)
(***************************************************************************)
EXTENDS Integers, Sequences, FiniteSets

CONSTANTS
  Task,       \* threads that may be monitored
  EbsTask,    \* those profiled in an event-based (EBS) mode
  Capacity,   \* samples the ring buffer holds
  MaxLeaks    \* bound: references that are lost for good

ASSUME SamplesBufferAssumption ==
  /\ IsFiniteSet(Task)
  /\ EbsTask \subseteq Task
  /\ Capacity \in Nat \ {0}
  /\ MaxLeaks \in Nat

VARIABLES
  queue,            \* pmc_samples: the stored samples, oldest first
  got,              \* samples returned by the last read
  ref_counter,
  monitor_waiting,
  sem_queue,        \* count of the semaphore
  reader,           \* where the monitor is: see TypeOK
  task,             \* what each thread does with the buffer: see TypeOK
  forking,          \* the thread that each one is creating, itself if none
  leaked,           \* history: references that nobody is left to drop
  accidents         \* history: what may have cost a reference

forkVars == <<forking, leaked, accidents>>
vars == <<queue, got, ref_counter, monitor_waiting, sem_queue, reader, task, forkVars>>

Sample == Task \X {"TICK", "EXIT"}

TypeOK ==
  /\ queue \in Seq(Sample)
  /\ got \in Seq(Sample)
  /\ ref_counter \in Nat
  /\ monitor_waiting \in BOOLEAN
  /\ sem_queue \in Nat
     \* "user": not in read; "down": about to wait, or waiting, in down_interruptible;
     \* "woken": back from it; "intr": it failed with EINTR; "eof": read returned 0
  /\ reader \in {"user", "down", "woken", "intr", "eof", "gone"}
     \* "free": holds no reference; "tested", "got", "forked": being created, see
     \* ForkTests; "bare": created without the buffer that was meant for it;
     \* "exiting": exit announced, reference not dropped; "gone": exited;
     \* "kept": attached since; "wild": used the buffer after it was freed
  /\ task \in [Task -> {"free", "tested", "got", "forked", "monitored", "bare",
                        "exiting", "gone", "kept", "wild"}]
  /\ forking \in [Task -> Task]
  /\ leaked \in Nat
     \* "overtaken": a detach came between the reads of a fork; "late": an exited
     \* thread was attached
  /\ accidents \subseteq {"overtaken", "late"}

Pmcs == INSTANCE SampleFifo

-----------------------------------------------------------------------------
(* get_pmc_samples_buffer and put_pmc_samples_buffer.  The buffer is freed *)
(* when the counter reaches 0: see RefsAreHolders.                         *)
Get_Forgotten == ref_counter' = ref_counter
Get == ref_counter' = ref_counter + 1

Put_Forgotten == ref_counter' = ref_counter
Put == ref_counter' = ref_counter - 1

(* __wake_up_monitor_program.                                              *)
WakeUp_FlagKept ==
  /\ monitor_waiting' = monitor_waiting
  /\ sem_queue' = IF monitor_waiting THEN sem_queue + 1 ELSE sem_queue

WakeUp_NoUp ==
  /\ monitor_waiting' = FALSE
  /\ UNCHANGED sem_queue

WakeUp ==
  /\ monitor_waiting' = FALSE
  /\ sem_queue' = IF monitor_waiting THEN sem_queue + 1 ELSE sem_queue

(* __push_sample_cbuffer: store, overwriting if need be, and wake.         *)
Push(t, type) == Pmcs!FifoInsert(<<t, type>>) /\ WakeUp

AtEof_RefsOnly == ref_counter <= 1
AtEof == ref_counter <= 1 /\ queue = << >>

(* allocate_pmc_samples_buffer, called by the monitor: one reference.      *)
Init ==
  /\ Pmcs!FifoInit
  /\ ref_counter = 1
  /\ monitor_waiting = FALSE
  /\ sem_queue = 0
  /\ reader = "user"
  /\ task = [t \in Task |-> "free"]
  /\ forking = [t \in Task |-> t]
  /\ leaked = 0
  /\ accidents = {}

-----------------------------------------------------------------------------
(* The monitored threads.                                                  *)

(* The monitor attaches a thread: set_up_monitoring_task ...               *)
Attach(t) ==
  /\ reader = "user"
  /\ task[t] = "free"
  /\ task' = [task EXCEPT ![t] = "monitored"]
  /\ Get
  /\ UNCHANGED <<queue, got, monitor_waiting, sem_queue, reader, forkVars>>

(* ... which has exited already, but whose pid is still found.             *)
AttachExited(t) ==
  /\ reader = "user"
  /\ task[t] = "gone"
  /\ task' = [task EXCEPT ![t] = "kept"]
  /\ Get
  /\ accidents' = accidents \cup {"late"}
  /\ UNCHANGED <<queue, got, monitor_waiting, sem_queue, reader, forking, leaked>>

(* Such a thread has put its buffer once: mod_free_per_thread_data does not*)
(* look at the buffer when the thread is reaped.                           *)
Reaped(t) ==
  /\ task[t] = "kept"
  /\ leaked < MaxLeaks
  /\ leaked' = leaked + 1
  /\ task' = [task EXCEPT ![t] = "gone"]
  /\ UNCHANGED <<queue, got, ref_counter, monitor_waiting, sem_queue, reader,
                 forking, accidents>>

(* The monitor detaches a thread: disable_monitoring_task.  Nobody is      *)
(* woken; only the monitor itself could be waiting.  An interrupt does it  *)
(* on the CPU of the thread, whatever the thread is doing.                 *)
Overtakes(t) == forking[t] # t /\ task[forking[t]] \in {"tested", "got"}
Detach(t) ==
  /\ reader = "user"
  /\ task[t] = "monitored"
  /\ task' = [task EXCEPT ![t] = "free"]
  /\ Put
  /\ accidents' = IF Overtakes(t) THEN accidents \cup {"overtaken"} ELSE accidents
  /\ UNCHANGED <<queue, got, monitor_waiting, sem_queue, reader, forking, leaked>>

(* The same of a thread that has no buffer (left), or has exited.          *)
DetachOther(t) ==
  /\ reader = "user"
  /\ \/ /\ task[t] = "bare" /\ task' = [task EXCEPT ![t] = "free"]
        /\ UNCHANGED ref_counter
     \/ /\ task[t] = "kept" /\ task' = [task EXCEPT ![t] = "gone"]
        /\ Put
  /\ UNCHANGED <<queue, got, monitor_waiting, sem_queue, reader, forkVars>>

(* A monitored thread creates another one, which inherits the buffer and   *)
(* the profiling mode: mod_alloc_per_thread_data.  It tests whether it is  *)
(* monitored and has a buffer ...                                          *)
ForkTests(t, u) ==
  /\ task[t] = "monitored" /\ forking[t] = t
  /\ task[u] = "free" /\ forking[u] = u
  /\ t \in EbsTask <=> u \in EbsTask
  /\ task' = [task EXCEPT ![u] = "tested"]
  /\ forking' = [forking EXCEPT ![t] = u]
  /\ UNCHANGED <<queue, got, ref_counter, monitor_waiting, sem_queue, reader,
                 leaked, accidents>>

(* ... takes a reference to it, for which the compiled code may or may not *)
(* read the pointer again: if a detach has cleared it, it is NULL, and the *)
(* thread dies; if not, the buffer may have been freed ...                 *)
ForkGets(t) ==
  LET u == forking[t]
  IN  /\ u # t /\ task[u] = "tested"
      /\ \/ IF ref_counter > 0
            THEN /\ Get
                 /\ task' = [task EXCEPT ![u] = "got"]
                 /\ UNCHANGED forking
            ELSE /\ task' = [task EXCEPT ![u] = "wild"]
                 /\ UNCHANGED <<ref_counter, forking>>
         \/ /\ task[t] = "free"
            /\ task' = [task EXCEPT ![u] = "gone", ![t] = "gone"]
            /\ forking' = [forking EXCEPT ![t] = t]
            /\ UNCHANGED ref_counter
      /\ UNCHANGED <<queue, got, monitor_waiting, sem_queue, reader, leaked, accidents>>

(* ... and gives its pointer to the child, perhaps read once more: the     *)
(* child of a thread that was detached gets no buffer, and nobody has the  *)
(* reference.                                                              *)
ForkAssigns(t) ==
  LET u == forking[t]
  IN  /\ u # t /\ task[u] = "got"
      /\ \/ /\ task' = [task EXCEPT ![u] = "forked"]
            /\ UNCHANGED <<forking, leaked>>
         \/ /\ task[t] = "free"
            /\ leaked < MaxLeaks
            /\ leaked' = leaked + 1
            /\ task' = [task EXCEPT ![u] = "bare"]
            /\ forking' = [forking EXCEPT ![t] = t]
      /\ UNCHANGED <<queue, got, ref_counter, monitor_waiting, sem_queue, reader, accidents>>

(* The child exists, unless its counters cannot be copied or the monitoring*)
(* module refuses it.                                                      *)
ForkEnds(t) ==
  LET u == forking[t]
  IN  /\ u # t /\ task[u] = "forked"
      /\ forking' = [forking EXCEPT ![t] = t]
      /\ \/ /\ task' = [task EXCEPT ![u] = "monitored"]
            /\ UNCHANGED ref_counter
         \/ /\ task' = [task EXCEPT ![u] = "free"]
            /\ Put
      /\ UNCHANGED <<queue, got, monitor_waiting, sem_queue, reader, leaked, accidents>>

(* A sample is due.  The timer of a mode that has one samples a thread that*)
(* was attached too late as well.                                          *)
TakeSample(t) ==
  /\ task[t] = "monitored" \/ (task[t] = "kept" /\ t \notin EbsTask)
  /\ Push(t, "TICK")
  /\ UNCHANGED <<ref_counter, reader, task, forkVars>>

(* mod_exit_thread, first critical section: a thread in a time-based mode  *)
(* leaves its last counts, one in an event-based mode just wakes the       *)
(* monitor.                                                                *)
AnnounceExit(t) ==
  /\ task[t] = "monitored" /\ forking[t] = t
  /\ task' = [task EXCEPT ![t] = "exiting"]
  /\ IF t \in EbsTask
     THEN WakeUp /\ UNCHANGED <<queue, got>>
     ELSE Push(t, "EXIT")
  /\ UNCHANGED <<ref_counter, reader, forkVars>>

(* ... and later on the reference is dropped, outside the buffer's lock    *)
(* and without a wake-up.                                                  *)
DropReference(t) ==
  /\ task[t] = "exiting"
  /\ task' = [task EXCEPT ![t] = "gone"]
  /\ Put
  /\ UNCHANGED <<queue, got, monitor_waiting, sem_queue, reader, forkVars>>

(* A thread that has no buffer just goes away.                             *)
ExitUnmonitored(t) ==
  /\ task[t] \in {"free", "bare"} /\ forking[t] = t
  /\ task' = [task EXCEPT ![t] = "gone"]
  /\ UNCHANGED <<queue, got, ref_counter, monitor_waiting, sem_queue, reader, forkVars>>

-----------------------------------------------------------------------------
(* The monitor.  proc_monitor_pmcs_read takes the lock on entry and each   *)
(* time it comes back from the semaphore; what it does then is the same.   *)

Reading == reader \in {"user", "woken"}

ReadEof ==
  /\ Reading
  /\ AtEof
  /\ reader' = "eof"
  /\ got' = << >>
  /\ UNCHANGED <<queue, ref_counter, monitor_waiting, sem_queue, task, forkVars>>

FlagWaiting_OnEntryOnly == reader = "user" \/ monitor_waiting
FlagWaiting == TRUE

ReadWait ==
  /\ Reading
  /\ ~AtEof
  /\ queue = << >>
  /\ monitor_waiting' = FlagWaiting
  /\ reader' = "down"
  /\ UNCHANGED <<queue, got, ref_counter, sem_queue, task, forkVars>>

(* remove_cbuffer_t_batch: as many samples as fit in the reader's n.       *)
ReadBatch(n) ==
  /\ Reading
  /\ ~AtEof
  /\ queue # << >>
  /\ Pmcs!FifoTake(IF n > Len(queue) THEN Len(queue) ELSE n)
  /\ reader' = "user"
  /\ UNCHANGED <<ref_counter, monitor_waiting, sem_queue, task, forkVars>>

(* down_interruptible succeeds ...                                         *)
Down ==
  /\ reader = "down"
  /\ sem_queue > 0
  /\ sem_queue' = sem_queue - 1
  /\ reader' = "woken"
  /\ UNCHANGED <<queue, got, ref_counter, monitor_waiting, task, forkVars>>

(* ... or a signal ends a wait that nobody has ended.                      *)
Signal ==
  /\ reader = "down"
  /\ sem_queue = 0
  /\ reader' = "intr"
  /\ UNCHANGED <<queue, got, ref_counter, monitor_waiting, sem_queue, task, forkVars>>

(* The flag is cleared without the lock and read returns EINTR.            *)
ReadInterrupted ==
  /\ reader = "intr"
  /\ monitor_waiting' = FALSE
  /\ reader' = "user"
  /\ UNCHANGED <<queue, got, ref_counter, sem_queue, task, forkVars>>

(* After an end of file the monitor may go on.                             *)
ReturnToUser ==
  /\ reader = "eof"
  /\ reader' = "user"
  /\ UNCHANGED <<queue, got, ref_counter, monitor_waiting, sem_queue, task, forkVars>>

(* The monitor exits and drops its own reference (mod_exit_thread).        *)
MonitorExit ==
  /\ reader \in {"user", "eof"}
  /\ reader' = "gone"
  /\ Put
  /\ UNCHANGED <<queue, got, monitor_waiting, sem_queue, task, forkVars>>

-----------------------------------------------------------------------------
TaskStep(t) ==
  \/ \E u \in Task : ForkTests(t, u)
  \/ ForkGets(t)
  \/ ForkAssigns(t)
  \/ ForkEnds(t)
  \/ TakeSample(t)
  \/ AnnounceExit(t)
  \/ DropReference(t)
  \/ ExitUnmonitored(t)
  \/ Reaped(t)

MonitorStep ==
  \/ \E t \in Task : Attach(t) \/ AttachExited(t) \/ Detach(t) \/ DetachOther(t)
  \/ ReadEof
  \/ ReadWait
  \/ \E n \in 1 .. Capacity : ReadBatch(n)
  \/ Down
  \/ Signal
  \/ ReadInterrupted
  \/ ReturnToUser
  \/ MonitorExit

Next == MonitorStep \/ \E t \in Task : TaskStep(t)

(* Once in the kernel, code runs to completion: a woken or interrupted     *)
(* reader goes on, and an exiting thread finishes its exit.  Nothing says  *)
(* that a thread takes a sample, exits, or that a signal arrives.          *)
Fairness ==
  /\ WF_vars(Down)
  /\ WF_vars(ReadInterrupted)
  /\ WF_vars(reader = "woken"
             /\ (ReadEof \/ ReadWait \/ \E n \in 1 .. Capacity : ReadBatch(n)))
  /\ \A t \in Task : WF_vars(DropReference(t))

Spec == Init /\ [][Next]_vars
FairSpec == Spec /\ Fairness

-----------------------------------------------------------------------------
Holders ==
  {t \in Task : task[t] \in {"got", "forked", "monitored", "exiting", "kept"}}

(* The counter is the number of threads that can still reach the buffer,   *)
(* so put_pmc_samples_buffer frees it when, and only when, nobody can; plus*)
(* the references lost for good.                                           *)
RefsAddUp ==
  ref_counter = Cardinality(Holders) + (IF reader = "gone" THEN 0 ELSE 1) + leaked

(* None is lost, no thread comes without its buffer and none uses a freed  *)
(* one, unless a detach overtook a fork or an exited thread was attached.  *)
LossesAreAccidents ==
  accidents = {} =>
    leaked = 0 /\ \A t \in Task : task[t] \notin {"bare", "kept", "wild"}

(* Both, of the unlocked reads of mchw_core.c 520-523 against the detach of*)
(* 2011-2014, and of the attach of an exited thread (1825-1846).           *)
RefsAreHolders == RefsAddUp /\ LossesAreAccidents

(* A reader told that the threads are finished is told the truth: no       *)
(* sample is left behind and nobody can store another one; unless a fork   *)
(* was overtaken, whose child may come by the buffer after that.           *)
EofIsFinal ==
  reader = "eof" /\ "overtaken" \notin accidents => queue = << >> /\ Holders = {}

(* No lost wake-up: a reader that waits while there are samples has a      *)
(* wake-up to consume, in spite of the flag being cleared without the lock *)
(* when a signal interrupts a read.                                        *)
WakeupPending ==
  reader = "down" => \/ sem_queue > 0
                     \/ monitor_waiting /\ queue = << >>

(* The race of an interrupted read with a wake-up leaves the semaphore too *)
(* high by one, and does so only once.                                     *)
SemaphoreBounded == sem_queue <= 2

(* A waiting reader gets the samples that arrive.                          *)
SamplesReachReader == (reader = "down" /\ queue # << >>) ~> reader = "user"

(* mchw_core.c lines 2391 and 2410 say of the tests in the read: "EOF if   *)
(* all threads actually finished".  A reader that waits while all of them  *)
(* finish should then be told.                                             *)
EndReachesReader == (reader = "down" /\ Holders = {}) ~> reader # "down"
=============================================================================
