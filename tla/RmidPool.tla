--------------------------------- MODULE RmidPool ---------------------------------
(***********************************************************************************)
(* The pool of resource monitoring identifiers (intel_rdt_core.c) as the RDT       *)
(* monitoring module uses it (intel_rdt_mm.c).  A thread takes an RMID the first   *)
(* time it is switched in; the threads it creates share it; the one that exits     *)
(* last gives it back.  References are counted without the lock of the pool: a     *)
(* put drops the reference first, and returns the RMID to the pool later.          *)
(*                                                                                 *)
(* Disabling the module frees the pool and enabling it builds a new one, while the *)
(* threads keep the RMIDs of the pool they took them from.                         *)
(***********************************************************************************)
EXTENDS Integers, Sequences, SequencesExt, FiniteSets

CONSTANTS
    Thread,         \* the threads
    NrRmids,        \* what CPUID reports; RMID 0 is reserved for the OS
    Policy,         \* the allocation policies the administrator sets
    MaxActivations  \* bound: how many times the module is enabled

ASSUME RmidAssumption ==
    /\ IsFiniteSet(Thread)
    /\ NrRmids \in Nat \ {0}
    /\ MaxActivations \in Nat \ {0}
    /\ Policy \subseteq {"RMID_FIFO", "RMID_LIFO", "RMID_RANDOM"}

Rmid == 1 .. NrRmids

VARIABLES
    available_rmids,    \* the list of free RMIDs
    nr_available_rmids,
    ref_counter,        \* references to each RMID
    free_rmid,          \* whether each RMID is marked as free
    assigned_rmids,     \* the first nr_assigned_rmids items of that array
    enabled,            \* the module is the current one
    activations,        \* how many times it was
    state,              \* state of each thread: "none", "alive", "putting" or "gone"
    first_time,         \* the thread still has to take an RMID
    rmid,               \* its RMID, or 0
    process             \* the thread whose RMID it shares
pool == <<available_rmids, nr_available_rmids, ref_counter, free_rmid, assigned_rmids>>
module == <<enabled, activations>>
threads == <<state, first_time, rmid, process>>
vars == <<pool, module, threads>>

\* The list starts at a random node and wraps around.
initialize_rmid_pool ==
    /\ \E start \in 0 .. NrRmids - 1 :
         available_rmids' = [i \in Rmid |-> 1 + ((start + i - 1) % NrRmids)]
    /\ nr_available_rmids' = NrRmids
    /\ ref_counter' = [r \in Rmid |-> 0]
    /\ free_rmid' = [r \in Rmid |-> TRUE]
    /\ assigned_rmids' = <<>>

\* Before the module is enabled there is no pool.
Init ==
    /\ available_rmids = <<>> /\ nr_available_rmids = 0
    /\ ref_counter = [r \in Rmid |-> 0]
    /\ free_rmid = [r \in Rmid |-> TRUE]
    /\ assigned_rmids = <<>>
    /\ enabled = FALSE /\ activations = 0
    /\ state = [t \in Thread |-> "none"]
    /\ first_time = [t \in Thread |-> FALSE]
    /\ rmid = [t \in Thread |-> 0]
    /\ process = [t \in Thread |-> t]

intel_cmt_enable_module ==
    /\ ~enabled /\ activations < MaxActivations
    /\ enabled' = TRUE /\ activations' = activations + 1
    /\ initialize_rmid_pool
    /\ UNCHANGED threads

\* No put of a thread is under way when the pool is freed.
intel_cmt_disable_module ==
    /\ enabled
    /\ \A t \in Thread : state[t] # "putting"
    /\ enabled' = FALSE
    /\ UNCHANGED <<activations, pool, threads>>

-----------------------------------------------------------------------------------
(* The pool.                                                                        *)

\* The positions of the list the policy may pick.
Pick(policy) ==
    CASE policy = "RMID_FIFO"   -> {1}
      [] policy = "RMID_LIFO"   -> {Len(available_rmids)}
      [] policy = "RMID_RANDOM" -> 1 .. nr_available_rmids

\* Seeded fault: the node is not removed from the list.
get_rmid_KeepsNode(t) ==
    IF available_rmids = <<>>
    THEN rmid' = [rmid EXCEPT ![t] = 0] /\ UNCHANGED pool
    ELSE /\ rmid' = [rmid EXCEPT ![t] = Head(available_rmids)]
         /\ free_rmid' = [free_rmid EXCEPT ![Head(available_rmids)] = FALSE]
         /\ ref_counter' = [ref_counter EXCEPT ![Head(available_rmids)] = @ + 1]
         /\ nr_available_rmids' = nr_available_rmids - 1
         /\ assigned_rmids' = Append(assigned_rmids, Head(available_rmids))
         /\ UNCHANGED available_rmids

\* The whole of get_rmid runs under the lock.
get_rmid(t) ==
    IF available_rmids = <<>>
    THEN rmid' = [rmid EXCEPT ![t] = 0] /\ UNCHANGED pool
    ELSE \E policy \in Policy : \E i \in Pick(policy) :
           LET r == available_rmids[i]
           IN  /\ rmid' = [rmid EXCEPT ![t] = r]
               /\ available_rmids' = RemoveAt(available_rmids, i)
               /\ free_rmid' = [free_rmid EXCEPT ![r] = FALSE]
               /\ nr_available_rmids' = nr_available_rmids - 1
               /\ ref_counter' = [ref_counter EXCEPT ![r] = @ + 1]
               /\ assigned_rmids' = Append(assigned_rmids, r)

\* Seeded fault: the reference of the new thread is not counted.
use_rmid_Uncounted(r) == UNCHANGED pool

use_rmid(r) ==
    /\ ref_counter' = [q \in Rmid |-> IF q = r /\ ~free_rmid[q] THEN ref_counter[q] + 1
                                     ELSE ref_counter[q]]
    /\ UNCHANGED <<available_rmids, nr_available_rmids, free_rmid, assigned_rmids>>

\* The last reference leads to a second step, put_rmid_last; the others do not.
put_rmid(t) ==
    LET counted == {r \in Rmid : r = rmid[t] /\ ~free_rmid[r]}
        last == \E r \in counted : ref_counter[r] = 1
    IN  /\ ref_counter' = [r \in Rmid |-> IF r \in counted THEN ref_counter[r] - 1
                                         ELSE ref_counter[r]]
        /\ state' = [state EXCEPT ![t] = IF last THEN "putting" ELSE "gone"]
        /\ UNCHANGED <<available_rmids, nr_available_rmids, free_rmid, assigned_rmids>>

\* Seeded fault: the array of assigned RMIDs is shortened at its end.
Compact_DropsLast(s, r) == Front(s)

\* Seeded fault: the array is not shortened.
Compact_DropsNothing(s, r) == s

\* The item is looked for in the array, and the array is shortened.
Compact(s, r) == IF Contains(s, r) THEN RemoveFirst(s, r) ELSE Front(s)

put_rmid_last(t) ==
    /\ state[t] = "putting"
    /\ free_rmid' = [free_rmid EXCEPT ![rmid[t]] = TRUE]
    /\ available_rmids' = Append(available_rmids, rmid[t])
    /\ nr_available_rmids' = nr_available_rmids + 1
    /\ assigned_rmids' = Compact(assigned_rmids, rmid[t])
    /\ state' = [state EXCEPT ![t] = "gone"]
    /\ UNCHANGED <<ref_counter, module, first_time, rmid, process>>

-----------------------------------------------------------------------------------
(* The callbacks of the module.                                                     *)

\* The thread belongs to the process of p, whose profiling is enabled.
intel_cmt_on_fork_thread(t, p) ==
    /\ enabled /\ state[t] = "none" /\ state[p] = "alive"
    /\ state' = [state EXCEPT ![t] = "alive"]
    /\ first_time' = [first_time EXCEPT ![t] = FALSE]
    /\ rmid' = [rmid EXCEPT ![t] = rmid[p]]
    /\ process' = [process EXCEPT ![t] = process[p]]
    /\ use_rmid(rmid[p])
    /\ UNCHANGED module

\* A process, or a thread of one that is not profiled.
intel_cmt_on_fork_process(t) ==
    /\ enabled /\ state[t] = "none"
    /\ state' = [state EXCEPT ![t] = "alive"]
    /\ first_time' = [first_time EXCEPT ![t] = TRUE]
    /\ UNCHANGED <<pool, module, rmid, process>>

\* An empty pool leaves the thread without an RMID for good.
intel_cmt_on_switch_in(t) ==
    /\ enabled /\ state[t] = "alive" /\ first_time[t]
    /\ first_time' = [first_time EXCEPT ![t] = FALSE]
    /\ get_rmid(t)
    /\ UNCHANGED <<module, state, process>>

\* The module hears of the exit only if it is current.
intel_cmt_on_exit(t) ==
    /\ state[t] = "alive"
    /\ IF enabled THEN put_rmid(t)
       ELSE state' = [state EXCEPT ![t] = "gone"] /\ UNCHANGED pool
    /\ UNCHANGED <<module, first_time, rmid, process>>

Next ==
    \/ intel_cmt_enable_module \/ intel_cmt_disable_module
    \/ \E t \in Thread :
         \/ intel_cmt_on_fork_process(t)
         \/ \E p \in Thread : intel_cmt_on_fork_thread(t, p)
         \/ intel_cmt_on_switch_in(t) \/ intel_cmt_on_exit(t) \/ put_rmid_last(t)

Spec == Init /\ [][Next]_vars

-----------------------------------------------------------------------------------
\* Each variable stays within its range; the list never holds more than every RMID.
TypeOK ==
    /\ available_rmids \in BoundedSeq(Rmid, NrRmids)
    /\ nr_available_rmids \in 0 .. NrRmids
    /\ ref_counter \in [Rmid -> 0 .. Cardinality(Thread)]
    /\ free_rmid \in [Rmid -> BOOLEAN]
    /\ assigned_rmids \in BoundedSeq(Rmid, NrRmids)
    /\ enabled \in BOOLEAN /\ activations \in 0 .. MaxActivations
    /\ state \in [Thread -> {"none", "alive", "putting", "gone"}]
    /\ first_time \in [Thread -> BOOLEAN]
    /\ rmid \in [Thread -> 0 .. NrRmids]
    /\ process \in [Thread -> Thread]

Holders(r) == {t \in Thread : state[t] = "alive" /\ rmid[t] = r}

\* The unlocked counter of an RMID is the number of threads that use it, so the RMID
\* goes back to the pool with the last of them (comment of put_rmid).
RefsAreHolders == enabled => \A r \in Rmid : ref_counter[r] = Cardinality(Holders(r))

\* Every RMID is either once in the list of free ones or once in the array of assigned
\* ones, and the count the random policy divides by is the length of the list.
PoolIsPartitioned ==
    enabled => /\ nr_available_rmids = Len(available_rmids)
               /\ IsInjective(available_rmids \o assigned_rmids)
               /\ ToSet(available_rmids) \cup ToSet(assigned_rmids) = Rmid

\* get_rmid returns an RMID that no thread of another process uses (comment of
\* get_rmid, "Remove a unused RMID from the free pool"): what is measured under an
\* RMID comes from one process.
RmidIsOfOneProcess ==
    \A t, u \in Thread :
      state[t] = "alive" /\ state[u] = "alive" /\ rmid[t] = rmid[u] /\ rmid[t] # 0
        => process[t] = process[u]

\* The array of assigned RMIDs has room for all but the reserved one
\* (initialize_rmid_pool, "RMID 0 is already used (reserved)").
AssignedFits == Len(assigned_rmids) =< NrRmids - 1

\* An RMID is in the pool or in use, once; by the threads it counts, of one process.
RmidsAreSound == TypeOK /\ RefsAreHolders /\ PoolIsPartitioned /\ RmidIsOfOneProcess
===================================================================================
