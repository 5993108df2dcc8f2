------------------------------- MODULE CBuffer -------------------------------
(***************************************************************************)
(* The byte ring buffer of src/modules/pmcs/cbuffer.c.  It stores the PMC  *)
(* samples on their way to the monitor process and the measurements of the *)
(* power meters.                                                           *)
(*                                                                         *)
(* A byte is an element of Byte; a sample is Chunk bytes long, and every   *)
(* client sizes its buffer as a whole number of samples, inserts one       *)
(* sample at a time and removes whole samples.  A reader of samples        *)
(* removes batches; a power meter looks at the contents through an         *)
(* iterator, clears them and never removes (the reads of the Smart Power   *)
(* device do, but only if it is built with CONSUMER).  The single-byte     *)
(* insert and remove have no caller and are left out.                      *)
(***************************************************************************)
EXTENDS Integers, Sequences

CONSTANTS
  Capacity,   \* capacity in samples
  Chunk,      \* bytes per sample
  Value       \* what tells one sample from another

ASSUME CBufferAssumption ==
  /\ Capacity \in Nat \ {0}
  /\ Chunk \in Nat \ {0}

max_size == Capacity * Chunk

(* Byte b of the sample with value v; Blank is a byte never written.       *)
Byte == (Value \X (1 .. Chunk))
Blank == <<"blank", 0>>
SampleBytes(v) == [b \in 1 .. Chunk |-> <<v, b>>]

VARIABLES
  data,       \* the byte vector
  head,       \* index of the first stored byte
  size,       \* number of bytes stored
  items,      \* what the last removal copied out
  client      \* who uses the buffer: it never changes

ringVars == <<data, head, size, items, client>>

RingTypeOK ==
  /\ data \in [0 .. max_size - 1 -> Byte \cup {Blank}]
  /\ head \in 0 .. max_size
  /\ size \in 0 .. max_size
  /\ items \in Seq(Byte \cup {Blank})
  /\ client \in {"reader", "meter"}

-----------------------------------------------------------------------------
(* memcpy of the byte sequence s to position pos of vector d.              *)
CopyIn(d, pos, s) ==
  [p \in DOMAIN d |-> IF p \in pos .. pos + Len(s) - 1
                      THEN s[p - pos + 1]
                      ELSE d[p]]

(* memcpy of n bytes of vector d from position pos.                        *)
CopyOut(d, pos, n) == [k \in 1 .. n |-> d[pos + k - 1]]

create_cbuffer_t ==
  /\ data = [p \in 0 .. max_size - 1 |-> Blank]
  /\ head = 0
  /\ size = 0
  /\ items = << >>
  /\ client \in {"reader", "meter"}

nr_gaps == max_size - size

(* Faulty variants of the definition that follows them, for the mutants.   *)
HeadAfterOverwrite_NoWrap(n) == head + (n - nr_gaps)
HeadAfterOverwrite_ByOneByte(n) == (head + 1) % max_size
HeadAfterOverwrite_Forgotten(n) == head

(* Where the head goes when n bytes are stored in fewer gaps.              *)
HeadAfterOverwrite(n) == (head + (n - nr_gaps)) % max_size

(* The copy is split in two when the end of the vector gets in the way;    *)
(* when the gaps do not suffice the head moves past what was overwritten.  *)
insert_items_cbuffer_t(s) ==
  LET n     == Len(s)
      whead == (head + size) % max_size
      fit   == IF whead + n > max_size THEN max_size - whead ELSE n
  IN  /\ n <= max_size
      /\ data' = CopyIn(CopyIn(data, whead, SubSeq(s, 1, fit)),
                        0, SubSeq(s, fit + 1, n))
      /\ IF nr_gaps >= n
         THEN size' = size + n /\ head' = head
         ELSE size' = max_size /\ head' = HeadAfterOverwrite(n)
      /\ UNCHANGED <<items, client>>

(* The head is reduced only by a split copy, so that a removal that ends   *)
(* exactly at the end of the vector leaves head = max_size.                *)
remove_items_cbuffer_t(n) ==
  LET split == head + n > max_size
      first == IF split THEN max_size - head ELSE 0
      from  == IF split THEN 0 ELSE head
      rest  == n - first
  IN  /\ n <= size
      /\ items' = CopyOut(data, head, first) \o CopyOut(data, from, rest)
      /\ head' = from + rest
      /\ size' = size - n
      /\ UNCHANGED <<data, client>>

(* At most max_nr bytes, and nothing at all from an empty buffer.          *)
remove_cbuffer_t_batch(max_nr) ==
  LET n == IF max_nr > size THEN size ELSE max_nr
  IN  IF n # 0
      THEN remove_items_cbuffer_t(n)
      ELSE items' = << >> /\ UNCHANGED <<data, head, size, client>>

clear_cbuffer_t ==
  /\ size' = 0
  /\ head' = 0
  /\ UNCHANGED <<data, items, client>>

IteratorAdvance_LateWrap(p) == IF p + Chunk > max_size THEN p + Chunk - max_size
                                                       ELSE p + Chunk

(* iterator_next_cbuffer_t moves by a chunk and wraps by subtraction.      *)
IteratorAdvance(p) == IF p + Chunk >= max_size THEN p + Chunk - max_size
                                               ELSE p + Chunk

(* The positions an iterator hands out, in order, from the head on.        *)
iterator_cbuffer_t ==
  LET nr == (size + Chunk - 1) \div Chunk
      cur_pos[k \in 1 .. nr] ==
        IF k = 1 THEN head ELSE IteratorAdvance(cur_pos[k - 1])
  IN  [k \in 1 .. nr |-> cur_pos[k]]

-----------------------------------------------------------------------------
InsertSample == \E v \in Value : insert_items_cbuffer_t(SampleBytes(v))

RemoveBatch ==
  /\ client = "reader"
  /\ \E nr \in 1 .. Capacity : remove_cbuffer_t_batch(nr * Chunk)

ClearSamples ==
  /\ client = "meter"
  /\ clear_cbuffer_t

RingNext == InsertSample \/ RemoveBatch \/ ClearSamples

RingSpec == create_cbuffer_t /\ [][RingNext]_ringVars

-----------------------------------------------------------------------------
(* The stored bytes in order, first to last.                               *)
Contents == [k \in 1 .. size |-> data[(head + k - 1) % max_size]]

(* The k-th chunk of a byte sequence.                                      *)
ChunkOf(s, k) == SubSeq(s, (k - 1) * Chunk + 1, k * Chunk)

(* A byte sequence is a row of whole samples: no sample is torn, whatever  *)
(* was overwritten (cbuffer.c, insert_items_cbuffer_t).                    *)
IsWhole(s) ==
  /\ Len(s) % Chunk = 0
  /\ \A k \in 1 .. Len(s) \div Chunk :
       \E v \in Value : ChunkOf(s, k) = SampleBytes(v)

(* Neither the buffer nor a reader ever holds part of a sample, although   *)
(* an insertion into a full buffer overwrites bytes that were not read.    *)
NoTornSample == IsWhole(Contents) /\ IsWhole(items)

(* What an iterator hands out is exactly the stored samples, oldest first, *)
(* and every pointer it returns lies in the vector with its whole chunk.   *)
(* This is what spower_get_sample and its siblings rely on.                *)
IteratorYieldsContents ==
  LET pos == iterator_cbuffer_t
  IN  client = "meter" =>
      \A k \in DOMAIN pos :
        /\ pos[k] + Chunk <= max_size
        /\ CopyOut(data, pos[k], Chunk) = ChunkOf(Contents, k)

(* Whatever is stored over what, and however much is removed at a time:    *)
(* the buffer, its readers and its iterators see whole samples, in order.  *)
SamplesAreWhole == RingTypeOK /\ NoTornSample /\ IteratorYieldsContents

(* cbuffer.h line 17 says of the field: "Index of the first element //     *)
(* head in [0 .. max_size-1]".                                             *)
HeadInRange == head \in 0 .. max_size - 1

(* The ring buffer implements the bounded overwriting queue of samples.    *)
ValuesOf(s) == [k \in 1 .. Len(s) \div Chunk |-> s[(k - 1) * Chunk + 1][1]]

Fifo == INSTANCE SampleFifo WITH
          Sample <- Value, queue <- ValuesOf(Contents), got <- ValuesOf(items)

ImplementsFifo == Fifo!FifoSpec
=============================================================================
