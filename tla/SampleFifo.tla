----------------------------- MODULE SampleFifo -----------------------------
(***************************************************************************)
(* What the byte ring buffer of src/modules/pmcs/cbuffer.c promises to its *)
(* clients: a bounded queue of samples in arrival order which, when it is  *)
(* full, gives up its oldest sample to make room for the newest.           *)
(***************************************************************************)
EXTENDS Integers, Sequences

CONSTANTS
  Capacity,   \* how many samples the buffer holds, at least one
  Sample      \* the samples that clients insert

VARIABLES
  queue,      \* the samples stored, oldest first
  got         \* the samples returned by the last removal

fifoVars == <<queue, got>>

FifoInit == queue = << >> /\ got = << >>

(* A new sample is stored last; a full buffer forgets its first sample.    *)
FifoInsert(s) ==
  /\ queue' = IF Len(queue) < Capacity
              THEN Append(queue, s)
              ELSE Append(Tail(queue), s)
  /\ UNCHANGED got

(* A removal returns the n oldest samples, in order.                       *)
FifoTake(n) ==
  /\ n <= Len(queue)
  /\ got' = SubSeq(queue, 1, n)
  /\ queue' = SubSeq(queue, n + 1, Len(queue))

FifoClear == queue' = << >> /\ UNCHANGED got

FifoNext ==
  \/ \E s \in Sample : FifoInsert(s)
  \/ \E n \in 0 .. Capacity : FifoTake(n)
  \/ FifoClear

FifoSpec == FifoInit /\ [][FifoNext]_fifoVars
=============================================================================
