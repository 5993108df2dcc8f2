------------------------------- MODULE Hardware_proofs -------------------------------
(***********************************************************************************)
(* Two of the components that MCHardware puts side by side, each by itself.         *)
(*                                                                                 *)
(* The byte ring is a bounded queue of whole samples, whatever its capacity, the    *)
(* size of a sample and the samples.  First byte by byte: what an insertion and a   *)
(* removal do to the contents.  Then sample by sample: everything moves by whole    *)
(* samples, so no sample is torn.                                                   *)
(*                                                                                 *)
(* The pool of RMIDs, for any number of RMIDs and threads, under any policy: until  *)
(* the module is enabled for the second time, which makes a new pool while threads  *)
(* still have RMIDs of the old one, every RMID is in the pool or in use, and it is  *)
(* in use by the threads its counter counts, which are of one process.              *)
(***********************************************************************************)
EXTENDS CBuffer, RmidPool, FiniteSetTheorems, SequenceTheorems, WellFoundedInduction, TLAPS

-----------------------------------------------------------------------------------
(* The byte ring: arithmetic.                                                       *)

LEMMA OneRemainder ==
    ASSUME NEW m \in Nat \ {0}, NEW q1 \in Int, NEW q2 \in Int,
           NEW r1 \in 0 .. m - 1, NEW r2 \in 0 .. m - 1, m * q1 + r1 = m * q2 + r2
    PROVE  q1 = q2 /\ r1 = r2
  <1>1. ASSUME NEW a \in Int, NEW b \in Int, NEW x \in 0 .. m - 1, NEW y \in 0 .. m - 1,
               a < b
        PROVE  m * a + x # m * b + y
    <2> DEFINE d == b - a - 1
    <2>1. d \in Nat /\ b = a + d + 1
      BY <1>1
    <2>2. m * d \in Nat
      BY <2>1
    <2>3. m * b = m * a + m * d + m
      BY <2>1
    <2>4. m * a \in Int /\ m * b \in Int
      OBVIOUS
    <2> QED  BY <2>2, <2>3, <2>4
  <1>2. ~(q1 < q2) /\ ~(q2 < q1)
    BY <1>1
  <1>3. q1 = q2
    BY <1>2
  <1>4. m * q1 \in Int
    OBVIOUS
  <1> QED  BY <1>3, <1>4

LEMMA IsDivided ==
    ASSUME NEW m \in Nat \ {0}, NEW q \in Nat, NEW r \in 0 .. m - 1
    PROVE  (m * q + r) \div m = q /\ (m * q + r) % m = r
  <1> DEFINE n == m * q + r
             d == n \div m
             e == n % m
  <1>1. m * q \in Nat
    OBVIOUS
  <1>2. n \in Nat
    BY <1>1
  <1> HIDE DEF n
  <1>3. d \in Int /\ e \in 0 .. m - 1 /\ n = m * d + e
    BY <1>2
  <1> HIDE DEF d, e
  <1>4. n = m * q + r
    BY DEF n
  <1>5. m * d + e = m * q + r /\ q \in Int
    BY <1>3, <1>4
  <1>6. d = q /\ e = r
    BY <1>3, <1>5, OneRemainder
  <1> QED  BY <1>6 DEF n, d, e

(* A position at most twice around.                                                 *)
Around(x, m) == IF x < m THEN x ELSE IF x < 2 * m THEN x - m ELSE 0

LEMMA AroundIs ==
    ASSUME NEW m \in Nat \ {0}, NEW x \in 0 .. 2 * m
    PROVE  x % m = Around(x, m)
  <1>1. CASE x < m
    <2>1. x \in 0 .. m - 1 /\ m * 0 + x = x
      BY <1>1
    <2> QED  BY <1>1, <2>1, IsDivided, 0 \in Nat DEF Around
  <1>2. CASE m =< x /\ x < 2 * m
    <2>1. x - m \in 0 .. m - 1 /\ m * 1 + (x - m) = x
      BY <1>2
    <2>2. (m * 1 + (x - m)) % m = x - m
      BY <2>1, IsDivided
    <2> QED  BY <1>2, <2>1, <2>2 DEF Around
  <1>3. CASE x = 2 * m
    <2>1. 0 \in 0 .. m - 1 /\ m * 2 + 0 = x
      BY <1>3
    <2>2. (m * 2 + 0) % m = 0
      BY <2>1, IsDivided
    <2> QED  BY <1>3, <2>1, <2>2 DEF Around
  <1> QED  BY <1>1, <1>2, <1>3

LEMMA MaxSize == max_size \in Nat \ {0} /\ Chunk \in Nat \ {0} /\ Chunk =< max_size
  <1>1. Capacity \in Nat \ {0} /\ Chunk \in Nat \ {0}
    BY CBufferAssumption
  <1>2. PICK c \in Nat : Capacity = c + 1
    <2>1. Capacity - 1 \in Nat /\ Capacity = (Capacity - 1) + 1
      BY <1>1
    <2> QED  BY <2>1
  <1>3. max_size = c * Chunk + Chunk /\ c * Chunk \in Nat
    BY <1>1, <1>2 DEF max_size
  <1> QED  BY <1>1, <1>3

-----------------------------------------------------------------------------------
(* Bytes.                                                                           *)

Bytes == Byte \cup {Blank}

(* Where position p is after n bytes.                                               *)
Ahead(p, n) == Around(p + n, max_size)

LEMMA AheadIs ==
    ASSUME NEW p \in 0 .. max_size, NEW n \in 0 .. max_size
    PROVE  (p + n) % max_size = Ahead(p, n) /\ Ahead(p, n) \in 0 .. max_size - 1
  <1>1. max_size \in Nat \ {0} /\ p + n \in 0 .. 2 * max_size
    BY MaxSize
  <1>2. (p + n) % max_size = Ahead(p, n)
    BY <1>1, AroundIs, Zenon DEF Ahead
  <1>3. Ahead(p, n) \in 0 .. max_size - 1
    BY <1>1 DEF Ahead, Around
  <1> QED  BY <1>2, <1>3

LEMMA ContentsAre ==
    ASSUME RingTypeOK
    PROVE  /\ Contents = [k \in 1 .. size |-> data[Ahead(head, k - 1)]]
           /\ Contents \in Seq(Bytes) /\ Len(Contents) = size
  <1>1. max_size \in Nat \ {0} /\ head \in 0 .. max_size /\ size \in 0 .. max_size
    BY MaxSize DEF RingTypeOK
  <1>2. ASSUME NEW k \in 1 .. size
        PROVE  /\ (head + k - 1) % max_size = Ahead(head, k - 1)
               /\ Ahead(head, k - 1) \in 0 .. max_size - 1
    <2>1. k - 1 \in 0 .. max_size /\ head + k - 1 = head + (k - 1)
      BY <1>1
    <2> QED  BY <1>1, <2>1, AheadIs
  <1>3. Contents = [k \in 1 .. size |-> data[Ahead(head, k - 1)]]
    BY <1>2 DEF Contents
  <1>4. \A k \in 1 .. size : data[Ahead(head, k - 1)] \in Bytes
    BY <1>2 DEF RingTypeOK, Bytes
  <1>5. Contents \in [1 .. size -> Bytes]
    BY <1>3, <1>4
  <1> QED  BY <1>1, <1>3, <1>5, SeqDef

(* An insertion of a whole sample stores its bytes from the first gap on.           *)
LEMMA InsertStores ==
    ASSUME RingTypeOK, NEW s \in Seq(Bytes), Len(s) > 0, insert_items_cbuffer_t(s),
           NEW p \in 0 .. max_size - 1
    PROVE  data'[p] = IF Ahead(head, size) =< p /\ p < Ahead(head, size) + Len(s)
                      THEN s[p - Ahead(head, size) + 1]
                      ELSE IF p + max_size < Ahead(head, size) + Len(s)
                      THEN s[p + max_size - Ahead(head, size) + 1]
                      ELSE data[p]
  <1> DEFINE n == Len(s)
             w == Ahead(head, size)
             fit == IF w + n > max_size THEN max_size - w ELSE n
             s1 == SubSeq(s, 1, fit)
             s2 == SubSeq(s, fit + 1, n)
             d1 == CopyIn(data, w, s1)
             d2 == CopyIn(d1, 0, s2)
  <1>1. /\ max_size \in Nat \ {0} /\ head \in 0 .. max_size /\ size \in 0 .. max_size
        /\ DOMAIN data = 0 .. max_size - 1
    BY MaxSize DEF RingTypeOK
  <1>2. (head + size) % max_size = w /\ w \in 0 .. max_size - 1
    BY <1>1, AheadIs
  <1>3. n \in Nat \ {0} /\ n =< max_size
    BY LenProperties DEF insert_items_cbuffer_t
  <1>4. data' = d2
    BY <1>2 DEF insert_items_cbuffer_t
  <1> HIDE DEF w
  <1>5. /\ fit \in 0 .. n
        /\ Len(s1) = fit /\ \A i \in 1 .. fit : s1[i] = s[i]
        /\ Len(s2) = n - fit /\ \A i \in 1 .. n - fit : s2[i] = s[fit + i]
    <2>1. fit \in 0 .. n
      BY <1>1, <1>2, <1>3
    <2> HIDE DEF fit
    <2>2. Len(s1) = fit /\ \A i \in 1 .. fit : s1[i] = s[i]
      BY <2>1, <1>3
    <2>3. Len(s2) = n - fit /\ \A i \in 1 .. n - fit : s2[i] = s[fit + i]
      BY <2>1, <1>3
    <2> QED  BY <2>1, <2>2, <2>3
  <1>6. d1[p] = IF w =< p /\ p =< w + fit - 1 THEN s[p - w + 1] ELSE data[p]
    <2> HIDE DEF fit, s1
    <2>1. d1[p] = IF p \in w .. w + Len(s1) - 1 THEN s1[p - w + 1] ELSE data[p]
      BY <1>1 DEF CopyIn
    <2>2. p \in w .. w + fit - 1 => p - w + 1 \in 1 .. fit
      BY <1>1, <1>2, <1>5
    <2> QED  BY <1>1, <1>2, <1>5, <2>1, <2>2
  <1>7. d2[p] = IF p =< n - fit - 1 THEN s[fit + p + 1] ELSE d1[p]
    <2> HIDE DEF fit, s2
    <2>1. DOMAIN d1 = 0 .. max_size - 1
      BY <1>1 DEF CopyIn
    <2> HIDE DEF d1
    <2>2. d2[p] = IF p \in 0 .. 0 + Len(s2) - 1 THEN s2[p - 0 + 1] ELSE d1[p]
      BY <2>1 DEF CopyIn
    <2>3. p =< n - fit - 1 => p + 1 \in 1 .. n - fit /\ p - 0 + 1 = p + 1 /\ fit + (p + 1) = fit + p + 1
      BY <1>1, <1>3, <1>5
    <2> QED  BY <1>1, <1>5, <2>2, <2>3
  <1> HIDE DEF d1, d2
  <1>8. d2[p] = IF w =< p /\ p < w + n THEN s[p - w + 1]
                ELSE IF p + max_size < w + n THEN s[p + max_size - w + 1]
                ELSE data[p]
    <2>1. CASE w + n > max_size
      <3>1. fit = max_size - w
        BY <2>1
      <3> HIDE DEF fit
      <3>2. w + n - max_size =< w /\ fit + p + 1 = p + max_size - w + 1
        BY <1>1, <1>2, <1>3, <3>1
      <3>3. d2[p] = IF p =< w + n - max_size - 1 THEN s[p + max_size - w + 1] ELSE d1[p]
        <4>1. (p =< n - fit - 1) <=> (p =< w + n - max_size - 1)
          BY <1>1, <1>2, <1>3, <3>1
        <4> QED  BY <1>7, <3>2, <4>1, Zenon
      <3>4. d1[p] = IF w =< p THEN s[p - w + 1] ELSE data[p]
        <4>1. p =< w + fit - 1
          BY <1>1, <1>2, <3>1
        <4> QED  BY <1>6, <4>1, Zenon
      <3> HIDE DEF n
      <3>5. CASE w =< p
        <4>1. p < w + n /\ ~(p =< w + n - max_size - 1)
          BY <1>1, <1>2, <1>3, <2>1, <3>2, <3>5
        <4> QED  BY <3>3, <3>4, <3>5, <4>1
      <3>6. CASE ~(w =< p)
        <4>1. p =< w + n - max_size - 1 <=> p + max_size < w + n
          BY <1>1, <1>2, <1>3, <3>6
        <4> QED  BY <3>3, <3>4, <3>6, <4>1
      <3> QED  BY <3>5, <3>6
    <2>2. CASE ~(w + n > max_size)
      <3>1. fit = n
        BY <2>2
      <3> HIDE DEF fit
      <3> QED  BY <1>1, <1>2, <1>3, <1>6, <1>7, <2>2, <3>1
    <2> QED  BY <2>1, <2>2
  <1> QED  BY <1>4, <1>8 DEF w

(* How many bytes are lost when n are inserted, and where the head is after that.   *)
Lost(n) == IF n =< max_size - size THEN 0 ELSE n - (max_size - size)

LEMMA InsertMoves ==
    ASSUME RingTypeOK, NEW n \in 1 .. max_size
    PROVE  /\ Lost(n) \in 0 .. size /\ size - Lost(n) + n =< max_size
           /\ Ahead(head, Lost(n)) \in 0 .. max_size - 1
           /\ \A k \in 1 .. size - Lost(n), h \in {head, Ahead(head, Lost(n))} :
                 (Lost(n) = 0 /\ h = head) \/ h = Ahead(head, Lost(n)) =>
                    LET p == Ahead(head, (k + Lost(n)) - 1)
                    IN  /\ Ahead(h, k - 1) = p /\ p \in 0 .. max_size - 1
                        /\ ~(Ahead(head, size) =< p /\ p < Ahead(head, size) + n)
                        /\ ~(p + max_size < Ahead(head, size) + n)
           /\ \A k \in 1 .. n, h \in {head, Ahead(head, Lost(n))} :
                 (Lost(n) = 0 /\ h = head) \/ h = Ahead(head, Lost(n)) =>
                    LET p == Ahead(h, (size - Lost(n) + k) - 1)
                    IN  /\ p \in 0 .. max_size - 1
                        /\ \/ /\ Ahead(head, size) =< p /\ p < Ahead(head, size) + n
                              /\ p - Ahead(head, size) + 1 = k
                           \/ /\ ~(Ahead(head, size) =< p)
                              /\ p + max_size < Ahead(head, size) + n
                              /\ p + max_size - Ahead(head, size) + 1 = k
  <1>1. max_size \in Nat \ {0} /\ head \in 0 .. max_size /\ size \in 0 .. max_size
    BY MaxSize DEF RingTypeOK
  <1>2. Lost(n) \in 0 .. size /\ size - Lost(n) + n =< max_size
    BY <1>1 DEF Lost
  <1>3. Ahead(head, Lost(n)) \in 0 .. max_size - 1
    <2>1. Lost(n) \in 0 .. max_size
      BY <1>1, <1>2
    <2> QED  BY <1>1, <2>1, AheadIs
  <1>4. ASSUME NEW k \in 1 .. size - Lost(n), NEW h \in {head, Ahead(head, Lost(n))},
               (Lost(n) = 0 /\ h = head) \/ h = Ahead(head, Lost(n))
        PROVE  LET p == Ahead(head, (k + Lost(n)) - 1)
               IN  /\ Ahead(h, k - 1) = p /\ p \in 0 .. max_size - 1
                   /\ ~(Ahead(head, size) =< p /\ p < Ahead(head, size) + n)
                   /\ ~(p + max_size < Ahead(head, size) + n)
    BY <1>1, <1>2, <1>4 DEF Lost, Ahead, Around
  <1>5. ASSUME NEW k \in 1 .. n, NEW h \in {head, Ahead(head, Lost(n))},
               (Lost(n) = 0 /\ h = head) \/ h = Ahead(head, Lost(n))
        PROVE  LET p == Ahead(h, (size - Lost(n) + k) - 1)
               IN  /\ p \in 0 .. max_size - 1
                   /\ \/ /\ Ahead(head, size) =< p /\ p < Ahead(head, size) + n
                         /\ p - Ahead(head, size) + 1 = k
                      \/ /\ ~(Ahead(head, size) =< p)
                         /\ p + max_size < Ahead(head, size) + n
                         /\ p + max_size - Ahead(head, size) + 1 = k
    BY <1>1, <1>2, <1>5 DEF Lost, Ahead, Around
  <1> QED  BY <1>2, <1>3, <1>4, <1>5

(* An insertion forgets the bytes that are lost and adds its own.                   *)
LEMMA InsertQueues ==
    ASSUME RingTypeOK, NEW s \in Seq(Bytes), Len(s) > 0, insert_items_cbuffer_t(s)
    PROVE  /\ RingTypeOK' /\ UNCHANGED <<items, client>>
           /\ Len(s) =< max_size
           /\ Lost(Len(s)) \in 0 .. size
           /\ size' = size - Lost(Len(s)) + Len(s)
           /\ \/ Lost(Len(s)) = 0 /\ head' = head
              \/ Lost(Len(s)) # 0 /\ head' = Ahead(head, Lost(Len(s)))
           /\ \A k \in 1 .. size - Lost(Len(s)) : Contents'[k] = Contents[k + Lost(Len(s))]
           /\ \A k \in 1 .. Len(s) : Contents'[size - Lost(Len(s)) + k] = s[k]
  <1> DEFINE n == Len(s)
             l == Lost(n)
             w == Ahead(head, size)
  <1>1. max_size \in Nat \ {0} /\ head \in 0 .. max_size /\ size \in 0 .. max_size
    BY MaxSize DEF RingTypeOK
  <1>2. n \in 1 .. max_size
    BY LenProperties DEF insert_items_cbuffer_t
  <1>3. /\ UNCHANGED <<items, client>>
        /\ IF nr_gaps >= n THEN size' = size + n /\ head' = head
           ELSE size' = max_size /\ head' = HeadAfterOverwrite(n)
    BY DEF insert_items_cbuffer_t
  <1>4. /\ l \in 0 .. size /\ size - l + n =< max_size
        /\ Ahead(head, l) \in 0 .. max_size - 1
    BY <1>2, InsertMoves
  <1>5. /\ size' = size - l + n
        /\ (l = 0 /\ head' = head) \/ (l # 0 /\ head' = Ahead(head, l))
    <2>1. CASE nr_gaps >= n
      <3>1. l = 0
        BY <1>1, <1>2, <2>1 DEF nr_gaps, Lost
      <3> QED  BY <1>1, <1>2, <1>3, <2>1, <3>1
    <2>2. CASE ~(nr_gaps >= n)
      <3>1. l = n - nr_gaps /\ l \in 0 .. max_size /\ l # 0
        BY <1>1, <1>2, <1>4, <2>2 DEF nr_gaps, Lost
      <3>2. (head + l) % max_size = Ahead(head, l)
        BY <1>1, <3>1, AheadIs
      <3>3. head' = Ahead(head, l)
        BY <1>3, <2>2, <3>1, <3>2 DEF HeadAfterOverwrite
      <3>4. size' = size - l + n
        BY <1>1, <1>2, <1>3, <2>2, <3>1 DEF nr_gaps
      <3> QED  BY <3>1, <3>3, <3>4
    <2> QED  BY <2>1, <2>2
  <1>6. /\ head' \in {head, Ahead(head, l)}
        /\ head' \in 0 .. max_size /\ size' \in 0 .. max_size
    <2> HIDE DEF l, n
    <2> QED  BY <1>1, <1>2, <1>4, <1>5
  <1>7. ASSUME NEW p \in 0 .. max_size - 1
        PROVE  data'[p] = IF w =< p /\ p < w + n THEN s[p - w + 1]
                          ELSE IF p + max_size < w + n THEN s[p + max_size - w + 1]
                          ELSE data[p]
    BY InsertStores
  <1>8. data' \in [0 .. max_size - 1 -> Bytes]
    <2>1. DOMAIN data' = 0 .. max_size - 1 /\ data' = [p \in 0 .. max_size - 1 |-> data'[p]]
      BY DEF insert_items_cbuffer_t, CopyIn, RingTypeOK
    <2>2. ASSUME NEW p \in 0 .. max_size - 1
          PROVE  data'[p] \in Bytes
      <3>1. w \in 0 .. max_size - 1
        BY <1>1, AheadIs
      <3> HIDE DEF w
      <3>2. w =< p /\ p < w + n => p - w + 1 \in 1 .. n
        BY <1>1, <1>2, <3>1
      <3>3. p + max_size < w + n => p + max_size - w + 1 \in 1 .. n
        BY <1>1, <1>2, <3>1
      <3>4. \A i \in 1 .. n : s[i] \in Bytes
        BY ElementOfSeq
      <3>5. data[p] \in Bytes
        BY DEF RingTypeOK, Bytes
      <3> HIDE DEF n
      <3>6. CASE w =< p /\ p < w + n
        BY <1>7, <3>2, <3>4, <3>6, Zenon
      <3>7. CASE ~(w =< p /\ p < w + n) /\ p + max_size < w + n
        BY <1>7, <3>3, <3>4, <3>7, Zenon
      <3>8. CASE ~(w =< p /\ p < w + n) /\ ~(p + max_size < w + n)
        BY <1>7, <3>5, <3>8, Zenon
      <3> QED  BY <3>6, <3>7, <3>8
    <2> QED  BY <2>1, <2>2, Zenon
  <1>9. RingTypeOK'
    BY <1>3, <1>6, <1>8 DEF RingTypeOK, Bytes
  <1>10. /\ \A k \in 1 .. size : Contents[k] = data[Ahead(head, k - 1)]
         /\ \A k \in 1 .. size' : Contents'[k] = data'[Ahead(head', k - 1)]
    <2>1. Contents = [k \in 1 .. size |-> data[Ahead(head, k - 1)]]
      BY ContentsAre
    <2>2. Contents' = [k \in 1 .. size' |-> data'[Ahead(head', k - 1)]]
      <3>1. (RingTypeOK => Contents = [k \in 1 .. size |-> data[Ahead(head, k - 1)]])'
        BY ContentsAre, PTL
      <3> QED  BY <1>9, <3>1
    <2> QED  BY <2>1, <2>2
  <1>kept. \A k \in 1 .. size - l, h \in {head, Ahead(head, l)} :
            (l = 0 /\ h = head) \/ h = Ahead(head, l) =>
               LET p == Ahead(head, (k + l) - 1)
               IN  /\ Ahead(h, k - 1) = p /\ p \in 0 .. max_size - 1
                   /\ ~(w =< p /\ p < w + n) /\ ~(p + max_size < w + n)
    BY <1>2, InsertMoves, Zenon
  <1>added. \A k \in 1 .. n, h \in {head, Ahead(head, l)} :
            (l = 0 /\ h = head) \/ h = Ahead(head, l) =>
               LET p == Ahead(h, (size - l + k) - 1)
               IN  /\ p \in 0 .. max_size - 1
                   /\ \/ w =< p /\ p < w + n /\ p - w + 1 = k
                      \/ ~(w =< p) /\ p + max_size < w + n /\ p + max_size - w + 1 = k
    BY <1>2, InsertMoves
  <1>11. ASSUME NEW k \in 1 .. size - l
         PROVE  Contents'[k] = Contents[k + l]
    <2>1. k \in 1 .. size' /\ k + l \in 1 .. size
      <3> HIDE DEF l, n
      <3> QED  BY <1>1, <1>2, <1>4, <1>5
    <2> DEFINE p == Ahead(head, (k + l) - 1)
    <2> HIDE DEF l, w, n
    <2>2. /\ Ahead(head', k - 1) = p /\ p \in 0 .. max_size - 1
          /\ ~(w =< p /\ p < w + n) /\ ~(p + max_size < w + n)
      BY <1>5, <1>6, <1>kept, Zenon
    <2> HIDE DEF p
    <2>3. data'[p] = data[p]
      BY <1>7, <2>2, Zenon
    <2>4. Contents'[k] = data'[p] /\ Contents[k + l] = data[p]
      BY <1>10, <2>1, <2>2, Zenon DEF p
    <2> QED  BY <2>3, <2>4
  <1>12. ASSUME NEW k \in 1 .. n
         PROVE  Contents'[size - l + k] = s[k]
    <2>1. size - l + k \in 1 .. size'
      <3> HIDE DEF l, n
      <3> QED  BY <1>1, <1>2, <1>4, <1>5
    <2> DEFINE p == Ahead(head', (size - l + k) - 1)
    <2> HIDE DEF l, w, n
    <2>2. /\ p \in 0 .. max_size - 1
          /\ \/ w =< p /\ p < w + n /\ p - w + 1 = k
             \/ ~(w =< p) /\ p + max_size < w + n /\ p + max_size - w + 1 = k
      BY <1>5, <1>6, <1>added, Zenon
    <2> HIDE DEF p
    <2>3. data'[p] = s[k]
      <3>1. CASE w =< p /\ p < w + n /\ p - w + 1 = k
        BY <1>7, <2>2, <3>1, Zenon
      <3>2. CASE ~(w =< p) /\ p + max_size < w + n /\ p + max_size - w + 1 = k
        BY <1>7, <2>2, <3>2, Zenon
      <3> QED  BY <2>2, <3>1, <3>2
    <2> QED  BY <1>10, <2>1, <2>3, Zenon DEF p
  <1> QED  BY <1>2, <1>3, <1>4, <1>5, <1>9, <1>11, <1>12

(* A removal returns the first bytes and leaves the others.                         *)
LEMMA RemoveTakes ==
    ASSUME RingTypeOK, NEW n \in 1 .. size, remove_items_cbuffer_t(n)
    PROVE  /\ RingTypeOK' /\ UNCHANGED client
           /\ size' = size - n
           /\ head' = IF head + n > max_size THEN head + n - max_size ELSE head + n
           /\ items' \in Seq(Bytes) /\ Len(items') = n
           /\ \A k \in 1 .. n : items'[k] = Contents[k]
           /\ \A k \in 1 .. size - n : Contents'[k] = Contents[k + n]
  <1> DEFINE split == head + n > max_size
             first == IF split THEN max_size - head ELSE 0
             from == IF split THEN 0 ELSE head
             rest == n - first
             s1 == CopyOut(data, head, first)
             s2 == CopyOut(data, from, rest)
  <1>1. max_size \in Nat \ {0} /\ head \in 0 .. max_size /\ size \in 0 .. max_size
    BY MaxSize DEF RingTypeOK
  <1>2. /\ items' = s1 \o s2 /\ head' = from + rest /\ size' = size - n
        /\ UNCHANGED <<data, client>>
    BY DEF remove_items_cbuffer_t
  <1>3. first \in 0 .. n /\ rest \in 0 .. n /\ from \in 0 .. max_size /\ first + rest = n
    BY <1>1
  <1>4. head' = IF head + n > max_size THEN head + n - max_size ELSE head + n
    BY <1>1, <1>2
  <1>5. head' \in 0 .. max_size /\ size' \in 0 .. max_size
    BY <1>1, <1>2, <1>4
  <1>6. \A k \in 1 .. first : head + k - 1 \in 0 .. max_size - 1 /\ Ahead(head, k - 1) = head + k - 1
    BY <1>1 DEF Ahead, Around
  <1>7. \A k \in 1 .. rest : /\ from + k - 1 \in 0 .. max_size - 1
                             /\ Ahead(head, (first + k) - 1) = from + k - 1
    BY <1>1 DEF Ahead, Around
  <1>8. \A k \in 1 .. size - n : Ahead(head', k - 1) = Ahead(head, (k + n) - 1)
    BY <1>1, <1>4 DEF Ahead, Around
  <1>9. \A k \in 1 .. size : Contents[k] = data[Ahead(head, k - 1)]
    BY ContentsAre
  <1> HIDE DEF first, from, rest
  <1>10. /\ s1 \in Seq(Bytes) /\ Len(s1) = first
         /\ \A k \in 1 .. first : s1[k] = data[head + k - 1]
    <2>1. s1 = [k \in 1 .. first |-> data[head + k - 1]]
      BY DEF CopyOut
    <2>2. \A k \in 1 .. first : data[head + k - 1] \in Bytes
      BY <1>6 DEF RingTypeOK, Bytes
    <2>3. s1 \in [1 .. first -> Bytes]
      BY <2>1, <2>2
    <2> QED  BY <1>3, <2>1, <2>3, SeqDef
  <1>11. /\ s2 \in Seq(Bytes) /\ Len(s2) = rest
         /\ \A k \in 1 .. rest : s2[k] = data[from + k - 1]
    <2>1. s2 = [k \in 1 .. rest |-> data[from + k - 1]]
      BY DEF CopyOut
    <2>2. \A k \in 1 .. rest : data[from + k - 1] \in Bytes
      BY <1>7 DEF RingTypeOK, Bytes
    <2> HIDE DEF s2
    <2>3. s2 \in [1 .. rest -> Bytes]
      BY <2>1, <2>2
    <2>4. rest \in Nat
      BY <1>1, <1>3
    <2> QED  BY <2>1, <2>3, <2>4, SeqDef
  <1> HIDE DEF s1, s2
  <1>12. items' \in Seq(Bytes) /\ Len(items') = n
    BY <1>2, <1>3, <1>10, <1>11, ConcatProperties
  <1>13. ASSUME NEW k \in 1 .. n
         PROVE  items'[k] = Contents[k]
    <2>1. Contents[k] = data[Ahead(head, k - 1)]
      BY <1>1, <1>9
    <2>2. CASE k =< first
      <3>1. k \in 1 .. first /\ items'[k] = s1[k]
        BY <1>2, <1>3, <1>10, <1>11, <2>2, ConcatProperties
      <3> QED  BY <1>6, <1>10, <2>1, <3>1
    <2>3. CASE ~(k =< first)
      <3> DEFINE j == k - first
      <3>1. j \in 1 .. rest /\ k = first + j
        BY <1>3, <2>3
      <3>2. items'[k] = s2[j]
        BY <1>2, <1>3, <1>10, <1>11, <2>3, ConcatProperties
      <3> HIDE DEF j
      <3> QED  BY <1>7, <1>11, <2>1, <3>1, <3>2
    <2> QED  BY <2>2, <2>3
  <1>14. RingTypeOK'
    BY <1>2, <1>5, <1>12 DEF RingTypeOK, Bytes
  <1>15. \A k \in 1 .. size' : Contents'[k] = data'[Ahead(head', k - 1)]
    <2>1. (RingTypeOK => Contents = [k \in 1 .. size |-> data[Ahead(head, k - 1)]])'
      BY ContentsAre, PTL
    <2> QED  BY <1>14, <2>1
  <1>16. ASSUME NEW k \in 1 .. size - n
         PROVE  Contents'[k] = Contents[k + n]
    <2>1. k \in 1 .. size' /\ k + n \in 1 .. size
      BY <1>1, <1>2
    <2> QED  BY <1>2, <1>8, <1>9, <1>15, <2>1
  <1> QED  BY <1>2, <1>4, <1>12, <1>13, <1>14, <1>16

-----------------------------------------------------------------------------------
(* Samples.                                                                         *)

LEMMA Multiples ==
    ASSUME NEW c \in Nat \ {0}, NEW a \in Nat, NEW b \in Nat
    PROVE  /\ c * a \in Nat
           /\ c * (a + b) = c * a + c * b
           /\ c * (a + 1) = c * a + c
           /\ a =< b => c * a =< c * b /\ c * (b - a) = c * b - c * a
           /\ a < b => c * a + c =< c * b
           /\ c * a < c * b => a < b
  <1>1. /\ c * a \in Nat /\ c * b \in Nat
        /\ c * (a + b) = c * a + c * b /\ c * (a + 1) = c * a + c
    OBVIOUS
  <1>2. ASSUME NEW x \in Nat, NEW y \in Nat, x =< y
        PROVE  c * x =< c * y /\ c * (y - x) = c * y - c * x
    <2> DEFINE d == y - x
    <2>1. d \in Nat /\ y = x + d
      BY <1>2
    <2> HIDE DEF d
    <2>2. c * y = c * x + c * d /\ c * d \in Nat /\ c * x \in Nat
      BY <2>1
    <2>3. c * (y - x) = c * d
      BY <2>1 DEF d
    <2> QED  BY <2>2, <2>3
  <1>3. a < b => c * a + c =< c * b
    <2> SUFFICES ASSUME a < b PROVE c * (a + 1) =< c * b
      BY <1>1
    <2> QED  BY <1>2
  <1>4. b =< a => c * b =< c * a
    BY <1>2
  <1>5. c * a < c * b => a < b
    BY <1>1, <1>4
  <1>6. a =< b => c * a =< c * b /\ c * (b - a) = c * b - c * a
    BY <1>2
  <1> QED  BY <1>1, <1>3, <1>5, <1>6

(* The same of the slots of a ring.                                                 *)
LEMMA SlotFits ==
    ASSUME NEW n \in Nat, NEW a \in 0 .. n - 1
    PROVE  Chunk * a \in Nat /\ Chunk * n \in Nat /\ Chunk * a + Chunk =< Chunk * n
  <1>1. a \in Nat /\ a < n /\ Chunk \in Nat \ {0}
    BY MaxSize
  <1> QED  BY <1>1, Multiples

LEMMA SlotsApart ==
    ASSUME NEW n \in Nat, NEW a \in 0 .. n
    PROVE  Chunk * a \in Nat /\ Chunk * n \in Nat /\ Chunk * (n - a) = Chunk * n - Chunk * a
  <1>1. a \in Nat /\ a =< n /\ Chunk \in Nat \ {0}
    BY MaxSize
  <1> QED  BY <1>1, Multiples

(* The bytes s are the samples vs.                                                  *)
Rows(s, vs) ==
    /\ vs \in Seq(Value)
    /\ s \in Seq(Bytes)
    /\ Len(s) = Chunk * Len(vs)
    /\ \A i \in 1 .. Len(vs), b \in 1 .. Chunk : s[Chunk * (i - 1) + b] = <<vs[i], b>>

LEMMA RowPosition ==
    ASSUME NEW n \in Nat, NEW i \in 1 .. n, NEW b \in 1 .. Chunk
    PROVE  /\ Chunk * (i - 1) + b \in 1 .. Chunk * n
           /\ (i - 1) * Chunk + b = Chunk * (i - 1) + b
           /\ Chunk * n \in Nat /\ Chunk * (i - 1) \in Nat
           /\ Chunk * (i - 1) + Chunk = Chunk * i /\ i * Chunk = Chunk * i
  <1>1. i - 1 \in Nat /\ i - 1 < n /\ Chunk \in Nat \ {0} /\ (i - 1) + 1 = i
    BY MaxSize
  <1>2. /\ Chunk * (i - 1) \in Nat /\ Chunk * (i - 1) + Chunk =< Chunk * n
        /\ Chunk * n \in Nat /\ Chunk * ((i - 1) + 1) = Chunk * (i - 1) + Chunk
    BY <1>1, Multiples
  <1>3. (i - 1) * Chunk = Chunk * (i - 1) /\ i * Chunk = Chunk * i
    BY <1>1
  <1> DEFINE x == Chunk * (i - 1)
             y == Chunk * n
  <1>4. x \in Nat /\ y \in Nat /\ x + Chunk =< y
    BY <1>2
  <1> HIDE DEF x, y
  <1>5. x + b \in 1 .. y
    BY <1>1, <1>4
  <1> QED  BY <1>1, <1>2, <1>3, <1>5 DEF x, y

LEMMA RowsAreWhole ==
    ASSUME NEW s, NEW vs, Rows(s, vs)
    PROVE  /\ IsWhole(s) /\ ValuesOf(s) = vs
           /\ Len(s) \div Chunk = Len(vs)
           /\ \A k \in 1 .. Len(vs) : ChunkOf(s, k) = SampleBytes(vs[k])
  <1>1. /\ vs \in Seq(Value) /\ s \in Seq(Bytes) /\ Len(s) = Chunk * Len(vs) /\ Len(vs) \in Nat
        /\ Chunk \in Nat \ {0} /\ 0 \in 0 .. Chunk - 1 /\ Chunk * Len(vs) + 0 = Chunk * Len(vs)
    BY MaxSize, LenProperties DEF Rows
  <1>2. Len(s) \div Chunk = Len(vs) /\ Len(s) % Chunk = 0
    <2>1. (Chunk * Len(vs) + 0) \div Chunk = Len(vs) /\ (Chunk * Len(vs) + 0) % Chunk = 0
      BY <1>1, IsDivided
    <2> QED  BY <1>1, <2>1
  <1>3. ASSUME NEW k \in 1 .. Len(vs)
        PROVE  ChunkOf(s, k) = SampleBytes(vs[k])
    <2> DEFINE p == Chunk * (k - 1)
               q == Chunk * k
    <2>1. /\ p \in Nat /\ p + Chunk = q /\ 1 \in 1 .. Chunk
          /\ (k - 1) * Chunk + 1 = p + 1 /\ k * Chunk = q
      <3>1. 1 \in 1 .. Chunk
        BY <1>1
      <3> QED  BY <1>1, <3>1, RowPosition
    <2>2. \A b \in 1 .. Chunk : p + b \in 1 .. Len(s) /\ s[p + b] = <<vs[k], b>>
      BY <1>1, RowPosition DEF Rows
    <2>3. ChunkOf(s, k) = SubSeq(s, p + 1, q)
      BY <2>1 DEF ChunkOf
    <2> HIDE DEF p, q
    <2>4. q \in 1 .. Len(s)
      BY <1>1, <2>1, <2>2
    <2>5. SubSeq(s, p + 1, q) = [b \in 1 .. Chunk |-> s[p + b]]
      <3>1. /\ SubSeq(s, p + 1, q) \in Seq(Bytes)
            /\ Len(SubSeq(s, p + 1, q)) = Chunk
            /\ \A b \in 1 .. Chunk : SubSeq(s, p + 1, q)[b] = s[p + b]
        <4> DEFINE m == p + 1
        <4>1. m \in Int /\ q \in Int /\ m =< q /\ q - m + 1 = Chunk
          BY <1>1, <2>1
        <4>2. \A i \in m .. q : s[i] \in Bytes
          <5>1. \A i \in m .. q : i \in 1 .. Len(s)
            BY <1>1, <2>1, <2>4
          <5> QED  BY <1>1, <5>1, ElementOfSeq
        <4>3. \A b \in 1 .. Chunk : m + b - 1 = p + b
          BY <2>1
        <4> HIDE DEF m
        <4>4. /\ SubSeq(s, m, q) \in Seq(Bytes)
              /\ Len(SubSeq(s, m, q)) = Chunk
              /\ \A b \in 1 .. Chunk : SubSeq(s, m, q)[b] = s[m + b - 1]
          BY <1>1, <4>1, <4>2, SubSeqProperties
        <4> QED  BY <4>3, <4>4 DEF m
      <3> QED  BY <3>1, LenProperties
    <2>6. [b \in 1 .. Chunk |-> s[p + b]] = SampleBytes(vs[k])
      BY <2>2 DEF SampleBytes
    <2> QED  BY <2>3, <2>5, <2>6
  <1>4. IsWhole(s)
    <2>1. \A k \in 1 .. Len(vs) : vs[k] \in Value
      BY <1>1, ElementOfSeq
    <2> QED  BY <1>2, <1>3, <2>1 DEF IsWhole
  <1>5. ValuesOf(s) = vs
    <2>1. ASSUME NEW k \in 1 .. Len(vs)
          PROVE  s[(k - 1) * Chunk + 1][1] = vs[k]
      <3>1. 1 \in 1 .. Chunk
        BY <1>1
      <3>2. s[Chunk * (k - 1) + 1] = <<vs[k], 1>>
        BY <3>1 DEF Rows
      <3>3. (k - 1) * Chunk + 1 = Chunk * (k - 1) + 1
        BY <1>1, <3>1, RowPosition
      <3> DEFINE byte == s[(k - 1) * Chunk + 1]
      <3>4. byte = <<vs[k], 1>>
        BY <3>2, <3>3, Zenon
      <3> HIDE DEF byte
      <3>5. byte[1] = vs[k]
        BY <3>4
      <3> QED  BY <3>5 DEF byte
    <2>2. ValuesOf(s) = [k \in 1 .. Len(vs) |-> vs[k]]
      BY <1>2, <2>1 DEF ValuesOf
    <2> QED  BY <1>1, <2>2, LenProperties
  <1> QED  BY <1>2, <1>3, <1>4, <1>5

LEMMA NoRows == Rows(<< >>, << >>)
  <1>1. Chunk * 0 = 0
    BY MaxSize
  <1> QED  BY <1>1 DEF Rows

LEMMA RowsTaken ==
    ASSUME NEW s, NEW vs, Rows(s, vs), NEW n \in 0 .. Len(vs), NEW t \in Seq(Bytes),
           Len(t) = Chunk * n, \A k \in 1 .. Chunk * n : t[k] = s[k]
    PROVE  Rows(t, SubSeq(vs, 1, n))
  <1>1. vs \in Seq(Value) /\ Len(vs) \in Nat /\ n \in Nat
    BY LenProperties DEF Rows
  <1>2. /\ SubSeq(vs, 1, n) \in Seq(Value) /\ Len(SubSeq(vs, 1, n)) = n
        /\ \A i \in 1 .. n : SubSeq(vs, 1, n)[i] = vs[i]
    BY <1>1
  <1>3. ASSUME NEW i \in 1 .. n, NEW b \in 1 .. Chunk
        PROVE  t[Chunk * (i - 1) + b] = <<vs[i], b>>
    <2>1. Chunk * (i - 1) + b \in 1 .. Chunk * n
      BY <1>1, RowPosition
    <2>2. i \in 1 .. Len(vs)
      BY <1>1
    <2>3. s[Chunk * (i - 1) + b] = <<vs[i], b>>
      BY <2>2 DEF Rows
    <2> QED  BY <2>1, <2>3, Zenon
  <1> QED  BY <1>2, <1>3 DEF Rows

LEMMA RowsDropped ==
    ASSUME NEW s, NEW vs, Rows(s, vs), NEW n \in 0 .. Len(vs), NEW t \in Seq(Bytes),
           Len(t) = Len(s) - Chunk * n,
           \A k \in 1 .. Len(s) - Chunk * n : t[k] = s[k + Chunk * n]
    PROVE  Rows(t, SubSeq(vs, n + 1, Len(vs)))
  <1> DEFINE m == Len(vs) - n
             us == SubSeq(vs, n + 1, Len(vs))
  <1>1. /\ vs \in Seq(Value) /\ Len(vs) \in Nat /\ n \in Nat /\ m \in Nat /\ n =< Len(vs)
        /\ Len(s) = Chunk * Len(vs) /\ Chunk \in Nat \ {0}
    BY MaxSize, LenProperties DEF Rows
  <1>2. us \in Seq(Value) /\ Len(us) = m /\ \A i \in 1 .. m : us[i] = vs[n + i]
    BY <1>1
  <1>3. Len(s) - Chunk * n = Chunk * m
    <2>1. Chunk * (Len(vs) - n) = Chunk * Len(vs) - Chunk * n
      BY <1>1, Multiples
    <2> QED  BY <1>1, <2>1
  <1>4. ASSUME NEW i \in 1 .. m, NEW b \in 1 .. Chunk
        PROVE  t[Chunk * (i - 1) + b] = <<vs[n + i], b>>
    <2>1. Chunk * (i - 1) + b \in 1 .. Chunk * m /\ Chunk * (i - 1) \in Nat
      BY <1>1, RowPosition
    <2>2. t[Chunk * (i - 1) + b] = s[(Chunk * (i - 1) + b) + Chunk * n]
      BY <1>3, <2>1
    <2>3. (Chunk * (i - 1) + b) + Chunk * n = Chunk * ((n + i) - 1) + b
      <3>1. i - 1 \in Nat /\ (i - 1) + n = (n + i) - 1
        BY <1>1
      <3>2. Chunk * ((i - 1) + n) = Chunk * (i - 1) + Chunk * n /\ Chunk * n \in Nat
        BY <1>1, <3>1, Multiples
      <3> DEFINE x == Chunk * (i - 1)
                 y == Chunk * n
                 z == Chunk * ((n + i) - 1)
      <3>3. z = x + y /\ x \in Nat /\ y \in Nat
        BY <2>1, <3>1, <3>2
      <3> HIDE DEF x, y, z
      <3>4. (x + b) + y = z + b
        BY <1>1, <3>3
      <3> QED  BY <3>4 DEF x, y, z
    <2>4. n + i \in 1 .. Len(vs)
      BY <1>1
    <2>5. s[Chunk * ((n + i) - 1) + b] = <<vs[n + i], b>>
      BY <2>4 DEF Rows
    <2> QED  BY <2>2, <2>3, <2>5, Zenon
  <1> HIDE DEF us, m
  <1>5. Rows(t, us)
    <2>1. Len(t) = Chunk * Len(us)
      BY <1>2, <1>3
    <2>2. ASSUME NEW i \in 1 .. Len(us), NEW b \in 1 .. Chunk
          PROVE  t[Chunk * (i - 1) + b] = <<us[i], b>>
      <3>1. i \in 1 .. m /\ us[i] = vs[n + i]
        BY <1>2
      <3> QED  BY <1>4, <3>1, Zenon
    <2> QED  BY <1>2, <2>1, <2>2, Zenon DEF Rows
  <1> QED  BY <1>5 DEF us

LEMMA RowsAdded ==
    ASSUME NEW s, NEW vs, Rows(s, vs), NEW v \in Value, NEW t \in Seq(Bytes),
           Len(t) = Len(s) + Chunk,
           \A k \in 1 .. Len(s) : t[k] = s[k],
           \A b \in 1 .. Chunk : t[Len(s) + b] = <<v, b>>
    PROVE  Rows(t, Append(vs, v))
  <1> DEFINE m == Len(vs)
             us == Append(vs, v)
  <1>1. vs \in Seq(Value) /\ m \in Nat /\ Len(s) = Chunk * m /\ Chunk \in Nat \ {0}
    BY MaxSize, LenProperties DEF Rows
  <1>2. /\ us \in Seq(Value) /\ Len(us) = m + 1 /\ us[m + 1] = v
        /\ \A i \in 1 .. m : us[i] = vs[i]
    BY <1>1
  <1>3. Chunk * (m + 1) = Len(s) + Chunk
    BY <1>1, Multiples
  <1> HIDE DEF us
  <1>4. ASSUME NEW i \in 1 .. m + 1, NEW b \in 1 .. Chunk
        PROVE  t[Chunk * (i - 1) + b] = <<us[i], b>>
    <2>1. CASE i \in 1 .. m
      <3>1. Chunk * (i - 1) + b \in 1 .. Chunk * m
        BY <1>1, <2>1, RowPosition
      <3>2. t[Chunk * (i - 1) + b] = s[Chunk * (i - 1) + b]
        BY <1>1, <3>1, Zenon
      <3>3. s[Chunk * (i - 1) + b] = <<vs[i], b>>
        BY <2>1 DEF Rows
      <3> QED  BY <1>2, <2>1, <3>2, <3>3, Zenon
    <2>2. CASE i \notin 1 .. m
      <3>1. i = m + 1 /\ i - 1 = m
        BY <1>1, <2>2
      <3> QED  BY <1>1, <1>2, <3>1
    <2> QED  BY <2>1, <2>2
  <1>5. Rows(t, us)
    BY <1>2, <1>3, <1>4 DEF Rows
  <1> QED  BY <1>5 DEF us

-----------------------------------------------------------------------------------
(* The invariant: the ring and what was removed are rows of samples, and the head   *)
(* is where a sample begins; without removals it never leaves the vector.           *)
RingInv ==
    /\ RingTypeOK
    /\ \E vs \in Seq(Value) : Rows(Contents, vs)
    /\ \E us \in Seq(Value) : Rows(items, us)
    /\ \E h \in Nat : head = Chunk * h
    /\ client = "meter" => head < max_size

LEMMA HowMany ==
    ASSUME RingTypeOK, NEW vs, Rows(Contents, vs)
    PROVE  Len(vs) \in 0 .. Capacity /\ size = Chunk * Len(vs) /\ max_size = Chunk * Capacity
  <1>1. /\ size = Chunk * Len(vs) /\ Len(vs) \in Nat /\ size =< max_size
        /\ Capacity \in Nat \ {0} /\ Chunk \in Nat \ {0}
    BY ContentsAre, CBufferAssumption, MaxSize, LenProperties DEF Rows, RingTypeOK
  <1>2. max_size = Chunk * Capacity
    BY <1>1 DEF max_size
  <1>3. Len(vs) > Capacity => Chunk * Capacity + Chunk =< Chunk * Len(vs)
    BY <1>1, Multiples
  <1>4. max_size \in Nat
    BY MaxSize
  <1>5. ~(Len(vs) > Capacity)
    BY <1>1, <1>2, <1>3, <1>4
  <1> QED  BY <1>1, <1>2, <1>5

(* A sample is stored last; a full ring forgets its first one.                      *)
LEMMA SampleInserted ==
    ASSUME RingInv, NEW v \in Value, insert_items_cbuffer_t(SampleBytes(v)),
           NEW vs \in Seq(Value), Rows(Contents, vs)
    PROVE  /\ RingInv'
           /\ Rows(Contents, IF Len(vs) < Capacity THEN Append(vs, v)
                             ELSE Append(Tail(vs), v))'
           /\ items' = items
  <1> DEFINE s == SampleBytes(v)
             l == Lost(Chunk)
             m == Len(vs)
  <1>1. /\ RingTypeOK /\ m \in Nat /\ m =< Capacity /\ size = Chunk * m
        /\ max_size = Chunk * Capacity /\ Capacity \in Nat \ {0}
        /\ max_size \in Nat \ {0} /\ Chunk \in Nat \ {0} /\ Chunk =< max_size
    BY HowMany, MaxSize, CBufferAssumption, LenProperties DEF RingInv
  <1>2. s \in Seq(Bytes) /\ Len(s) = Chunk /\ \A b \in 1 .. Chunk : s[b] = <<v, b>>
    <2>1. \A b \in 1 .. Chunk : <<v, b>> \in Bytes
      BY DEF Bytes, Byte
    <2>2. s = [b \in 1 .. Chunk |-> <<v, b>>]
      BY DEF SampleBytes
    <2> HIDE DEF s
    <2>3. s \in [1 .. Chunk -> Bytes]
      BY <2>1, <2>2
    <2> QED  BY <1>1, <2>2, <2>3, SeqDef
  <1> HIDE DEF s
  <1>3. /\ RingTypeOK' /\ UNCHANGED <<items, client>>
        /\ l \in 0 .. size
        /\ size' = size - l + Chunk
        /\ (l = 0 /\ head' = head) \/ (l # 0 /\ head' = Ahead(head, l))
        /\ \A k \in 1 .. size - l : Contents'[k] = Contents[k + l]
        /\ \A k \in 1 .. Chunk : Contents'[size - l + k] = s[k]
    <2>1. insert_items_cbuffer_t(s) /\ Len(s) > 0
      BY <1>1, <1>2 DEF s
    <2> QED  BY <1>1, <1>2, <2>1, InsertQueues
  <1>4. /\ m < Capacity => l = 0
        /\ ~(m < Capacity) => l = Chunk /\ size = max_size
    <2>1. CASE m < Capacity
      <3>1. Chunk * m + Chunk =< Chunk * Capacity
        BY <1>1, <2>1, Multiples
      <3> QED  BY <1>1, <2>1, <3>1 DEF Lost
    <2>2. CASE ~(m < Capacity)
      <3>1. m = Capacity
        BY <1>1, <2>2
      <3>2. size = max_size
        BY <1>1, <3>1
      <3> QED  BY <1>1, <2>2, <3>2 DEF Lost
    <2> QED  BY <2>1, <2>2
  <1>5. /\ Contents \in Seq(Bytes) /\ Len(Contents) = size
        /\ Contents' \in Seq(Bytes) /\ Len(Contents') = size'
    <2>1. (RingTypeOK => Contents \in Seq(Bytes) /\ Len(Contents) = size)'
      BY ContentsAre, PTL
    <2> QED  BY <1>1, <1>3, <2>1, ContentsAre
  <1> HIDE DEF l, m
  <1>6. Rows(Contents', IF m < Capacity THEN Append(vs, v) ELSE Append(Tail(vs), v))
    <2>1. CASE m < Capacity
      <3>1. /\ Len(Contents') = Len(Contents) + Chunk
            /\ \A k \in 1 .. Len(Contents) : Contents'[k] = Contents[k]
            /\ \A b \in 1 .. Chunk : Contents'[Len(Contents) + b] = <<v, b>>
        <4>1. l = 0 /\ size' = size + Chunk /\ size \in Nat
          BY <1>1, <1>3, <1>4, <2>1 DEF RingTypeOK
        <4>2. ASSUME NEW k \in 1 .. size PROVE Contents'[k] = Contents[k]
          BY <1>3, <4>1
        <4>3. ASSUME NEW b \in 1 .. Chunk PROVE Contents'[size + b] = <<v, b>>
          BY <1>2, <1>3, <4>1
        <4> QED  BY <1>5, <4>1, <4>2, <4>3
      <3> QED  BY <1>5, <2>1, <3>1, RowsAdded
    <2>2. CASE ~(m < Capacity)
      <3> DEFINE t == SubSeq(Contents, Chunk + 1, size)
                 us == SubSeq(vs, 1 + 1, Len(vs))
      <3>1. /\ t \in Seq(Bytes) /\ Len(t) = size - Chunk
            /\ \A k \in 1 .. size - Chunk : t[k] = Contents[k + Chunk]
        <4> DEFINE c == Contents
        <4>1. c \in Seq(Bytes) /\ Len(c) = size /\ size \in Nat /\ Chunk \in 1 .. size
          BY <1>1, <1>4, <1>5, <2>2
        <4> HIDE DEF c
        <4>2. \A i \in Chunk + 1 .. size : c[i] \in Bytes
          BY <4>1
        <4>3. /\ SubSeq(c, Chunk + 1, size) \in Seq(Bytes)
              /\ Len(SubSeq(c, Chunk + 1, size)) = size - Chunk
              /\ \A k \in 1 .. size - Chunk : SubSeq(c, Chunk + 1, size)[k] = c[k + Chunk]
          BY <4>1, <4>2
        <4> QED  BY <4>3 DEF c
      <3>2. 1 \in 0 .. Len(vs) /\ Chunk * 1 = Chunk
        BY <1>1, <2>2 DEF m
      <3>3. Rows(t, us)
        <4> HIDE DEF t
        <4>1. /\ Len(t) = Len(Contents) - Chunk * 1
              /\ \A k \in 1 .. Len(Contents) - Chunk * 1 : t[k] = Contents[k + Chunk * 1]
          BY <1>5, <3>1, <3>2
        <4> QED  BY <3>1, <3>2, <4>1, RowsDropped
      <3>4. us = Tail(vs)
        BY <1>1, <3>2 DEF m
      <3> HIDE DEF t, us
      <3>5. /\ Len(Contents') = Len(t) + Chunk
            /\ \A k \in 1 .. Len(t) : Contents'[k] = t[k]
            /\ \A b \in 1 .. Chunk : Contents'[Len(t) + b] = <<v, b>>
        <4>1. Len(t) = size - Chunk /\ l = Chunk /\ size' = size /\ size \in Nat
          BY <1>1, <1>3, <1>4, <2>2, <3>1
        <4>2. Len(Contents') = Len(t) + Chunk
          BY <1>1, <1>5, <4>1
        <4>3. \A k \in 1 .. Len(t) : Contents'[k] = t[k]
          BY <1>3, <3>1, <4>1
        <4>4. \A b \in 1 .. Chunk : Contents'[Len(t) + b] = <<v, b>>
          BY <1>2, <1>3, <4>1
        <4> QED  BY <4>2, <4>3, <4>4
      <3>6. Rows(Contents', Append(us, v))
        BY <1>5, <3>3, <3>5, RowsAdded
      <3> QED  BY <2>2, <3>4, <3>6
    <2> QED  BY <2>1, <2>2
  <1>7. /\ \E h \in Nat : head' = Chunk * h
        /\ client' = "meter" => head' < max_size
    <2>1. PICK h \in Nat : head = Chunk * h
      BY DEF RingInv
    <2>2. head \in 0 .. max_size
      BY DEF RingInv, RingTypeOK
    <2>3. CASE head' = head
      BY <1>3, <2>1, <2>3 DEF RingInv
    <2>4. CASE l = Chunk /\ head' = Ahead(head, l)
      <3>1. head' < max_size
        BY <1>1, <2>2, <2>4 DEF Ahead, Around
      <3>2. CASE head + Chunk < max_size
        <4>1. head' = head + Chunk
          BY <2>4, <3>2 DEF Ahead, Around
        <4>2. Chunk * (h + 1) = Chunk * h + Chunk /\ h + 1 \in Nat
          BY <1>1, <2>1, Multiples
        <4> QED  BY <2>1, <3>1, <4>1, <4>2
      <3>3. CASE ~(head + Chunk < max_size) /\ head + Chunk < 2 * max_size
        <4>1. head' = head + Chunk - max_size
          BY <1>1, <2>2, <2>4, <3>3 DEF Ahead, Around
        <4>2. Chunk * (h + 1) = head + Chunk /\ h + 1 \in Nat
          BY <1>1, <2>1, Multiples
        <4>3. Capacity =< h + 1
          <5>1. h + 1 < Capacity => Chunk * (h + 1) + Chunk =< Chunk * Capacity
            BY <1>1, <4>2, Multiples
          <5> QED  BY <1>1, <2>2, <3>3, <4>2, <5>1
        <4>4. Chunk * ((h + 1) - Capacity) = head + Chunk - max_size
          <5> DEFINE x == Chunk * (h + 1)
                     y == Chunk * Capacity
                     z == Chunk * ((h + 1) - Capacity)
          <5>1. z = x - y /\ x = head + Chunk /\ y = max_size
            BY <1>1, <4>2, <4>3, Multiples
          <5> HIDE DEF x, y, z
          <5>2. z = head + Chunk - max_size
            BY <1>1, <2>2, <5>1
          <5> QED  BY <5>2 DEF z
        <4>5. (h + 1) - Capacity \in Nat
          BY <1>1, <4>2, <4>3
        <4> QED  BY <3>1, <4>1, <4>4, <4>5
      <3>4. CASE ~(head + Chunk < max_size) /\ ~(head + Chunk < 2 * max_size)
        <4>1. head' = 0 /\ Chunk * 0 = 0
          BY <1>1, <2>4, <3>4 DEF Ahead, Around
        <4> QED  BY <3>1, <4>1
      <3> QED  BY <3>2, <3>3, <3>4
    <2> QED  BY <1>3, <1>4, <2>3, <2>4
  <1>8. /\ Append(vs, v) \in Seq(Value)
        /\ ~(m < Capacity) => Append(Tail(vs), v) \in Seq(Value)
    <2>1. ~(m < Capacity) => vs # << >>
      BY <1>1 DEF m
    <2> QED  BY <2>1
  <1>9. RingInv'
    <2>1. \E us \in Seq(Value) : Rows(Contents', us)
      BY <1>6, <1>8
    <2>2. \E us \in Seq(Value) : Rows(items', us)
      BY <1>3 DEF RingInv
    <2> QED  BY <1>3, <1>7, <2>1, <2>2 DEF RingInv, Rows
  <1> QED  BY <1>3, <1>6, <1>9 DEF m, Rows

(* A batch returns the first samples and leaves the others.                         *)
LEMMA SamplesRemoved ==
    ASSUME RingInv, client = "reader",
           NEW nr \in 1 .. Capacity, remove_cbuffer_t_batch(nr * Chunk),
           NEW vs \in Seq(Value), Rows(Contents, vs)
    PROVE  /\ RingInv'
           /\ \E n \in 0 .. Len(vs) : /\ n =< Capacity
                                     /\ Rows(items', SubSeq(vs, 1, n))
                                     /\ Rows(Contents', SubSeq(vs, n + 1, Len(vs)))
  <1> DEFINE m == Len(vs)
             n == IF nr > m THEN m ELSE nr
             bytes == Chunk * n
  <1>1. /\ RingTypeOK /\ m \in Nat /\ m =< Capacity /\ size = Chunk * m
        /\ max_size = Chunk * Capacity /\ Capacity \in Nat \ {0}
        /\ max_size \in Nat \ {0} /\ Chunk \in Nat \ {0} /\ Len(Contents) = size
    BY HowMany, MaxSize, CBufferAssumption, LenProperties, ContentsAre DEF RingInv
  <1>2. n \in 0 .. m /\ n \in Nat /\ n =< Capacity
    BY <1>1
  <1>3. bytes \in 0 .. size /\ bytes = IF nr * Chunk > size THEN size ELSE nr * Chunk
    <2>1. nr \in Nat /\ nr * Chunk = Chunk * nr
      BY <1>1
    <2>2. CASE nr > m
      <3>1. Chunk * m + Chunk =< Chunk * nr /\ Chunk * nr \in Nat /\ Chunk * m \in Nat
        BY <1>1, <2>1, <2>2, Multiples
      <3>2. bytes = size
        BY <1>1, <2>2
      <3>3. nr * Chunk > size
        BY <1>1, <2>1, <3>1
      <3> HIDE DEF bytes
      <3> QED  BY <1>1, <3>1, <3>2, <3>3
    <2>3. CASE ~(nr > m)
      <3>1. Chunk * nr =< Chunk * m /\ Chunk * nr \in Nat /\ Chunk * m \in Nat
        BY <1>1, <2>1, <2>3, Multiples
      <3>2. bytes = nr * Chunk /\ bytes = Chunk * nr
        BY <2>1, <2>3
      <3>3. ~(nr * Chunk > size) /\ nr * Chunk =< size /\ nr * Chunk \in Nat
        BY <1>1, <2>1, <3>1
      <3> HIDE DEF bytes
      <3> QED  BY <1>1, <3>2, <3>3
    <2> QED  BY <2>2, <2>3
  <1>4. IF bytes # 0 THEN remove_items_cbuffer_t(bytes)
        ELSE items' = << >> /\ UNCHANGED <<data, head, size, client>>
    <2> HIDE DEF bytes
    <2> QED  BY <1>3, Zenon DEF remove_cbuffer_t_batch
  <1> HIDE DEF n, m
  <1>5. CASE bytes = 0
    <2>1. n = 0
      <3>1. 0 < n => Chunk * 0 + Chunk =< Chunk * n
        BY <1>1, <1>2, Multiples
      <3>2. Chunk * 0 = 0
        BY <1>1
      <3> QED  BY <1>1, <1>2, <1>5, <3>1, <3>2
    <2>2. items' = << >> /\ UNCHANGED <<data, head, size, client>>
      BY <1>4, <1>5
    <2>3. SubSeq(vs, 1, 0) = << >> /\ SubSeq(vs, 0 + 1, Len(vs)) = vs
      OBVIOUS
    <2>4. Contents' = Contents
      BY <2>2 DEF Contents
    <2>5. Rows(items', SubSeq(vs, 1, 0)) /\ Rows(Contents', SubSeq(vs, 0 + 1, Len(vs)))
      BY <2>2, <2>3, <2>4, NoRows
    <2>6. RingTypeOK'
      BY <1>1, <2>2 DEF RingTypeOK
    <2>7. RingInv'
      <3>1. << >> \in Seq(Value)
        OBVIOUS
      <3>2. \E us \in Seq(Value) : Rows(items', us)
        BY <2>3, <2>5, <3>1
      <3> QED  BY <2>2, <2>4, <2>6, <3>2 DEF RingInv
    <2> QED  BY <1>1, <2>5, <2>7 DEF m
  <1>6. CASE bytes # 0
    <2>1. bytes \in 1 .. size
      <3> HIDE DEF bytes
      <3> QED  BY <1>1, <1>3, <1>6
    <2>2. /\ RingTypeOK' /\ UNCHANGED client
          /\ size' = size - bytes
          /\ head' = IF head + bytes > max_size THEN head + bytes - max_size ELSE head + bytes
          /\ items' \in Seq(Bytes) /\ Len(items') = bytes
          /\ \A k \in 1 .. bytes : items'[k] = Contents[k]
          /\ \A k \in 1 .. size - bytes : Contents'[k] = Contents[k + bytes]
      <3>1. remove_items_cbuffer_t(bytes)
        BY <1>4, <1>6
      <3> HIDE DEF bytes
      <3> QED  BY <1>1, <2>1, <3>1, RemoveTakes
    <2>3. Rows(items', SubSeq(vs, 1, n))
      BY <1>2, <2>2, RowsTaken DEF m
    <2>4. Rows(Contents', SubSeq(vs, n + 1, Len(vs)))
      <3>1. Contents' \in Seq(Bytes) /\ Len(Contents') = size'
        <4>1. (RingTypeOK => Contents \in Seq(Bytes) /\ Len(Contents) = size)'
          BY ContentsAre, PTL
        <4> QED  BY <2>2, <4>1
      <3> QED  BY <1>1, <1>2, <2>2, <3>1, RowsDropped DEF m
    <2>5. \E h \in Nat : head' = Chunk * h
      <3>1. PICK h \in Nat : head = Chunk * h
        BY DEF RingInv
      <3>2. h + n \in Nat /\ Chunk * (h + n) = head + bytes
        BY <1>1, <1>2, <3>1, Multiples
      <3>3. CASE ~(head + bytes > max_size)
        BY <2>2, <3>2, <3>3
      <3>4. CASE head + bytes > max_size
        <4>1. Capacity < h + n
          BY <1>1, <3>2, <3>4, Multiples
        <4> DEFINE x == Chunk * (h + n)
                   y == Chunk * Capacity
                   z == Chunk * ((h + n) - Capacity)
        <4>2. z = x - y /\ x = head + bytes /\ y = max_size /\ (h + n) - Capacity \in Nat
          <5>1. Capacity \in 0 .. h + n /\ (h + n) - Capacity \in Nat
            BY <1>1, <3>2, <4>1
          <5>2. z = x - y
            BY <3>2, <5>1, SlotsApart
          <5>3. x = head + bytes /\ y = max_size
            <6> HIDE DEF bytes
            <6> QED  BY <1>1, <3>2
          <5> HIDE DEF x, y, z, bytes
          <5> QED  BY <5>1, <5>2, <5>3
        <4>3. head' = x - y
          <5>1. head \in Nat /\ bytes \in Nat
            BY <1>1, <2>1 DEF RingTypeOK
          <5> HIDE DEF x, y, bytes
          <5> QED  BY <1>1, <2>2, <3>4, <4>2, <5>1
        <4> QED  BY <4>2, <4>3
      <3> QED  BY <3>3, <3>4
    <2>6. RingInv'
      <3>1. SubSeq(vs, 1, n) \in Seq(Value) /\ SubSeq(vs, n + 1, Len(vs)) \in Seq(Value)
        BY <2>3, <2>4 DEF Rows
      <3> QED  BY <2>2, <2>3, <2>4, <2>5, <3>1 DEF RingInv
    <2> QED  BY <1>2, <2>3, <2>4, <2>6 DEF m
  <1> QED  BY <1>5, <1>6

LEMMA SamplesCleared ==
    ASSUME RingInv, clear_cbuffer_t
    PROVE  RingInv' /\ Rows(Contents', << >>) /\ items' = items
  <1>1. /\ RingTypeOK /\ max_size \in Nat \ {0}
        /\ size' = 0 /\ head' = 0 /\ UNCHANGED <<data, items, client>>
    BY MaxSize DEF RingInv, clear_cbuffer_t
  <1>2. RingTypeOK'
    BY <1>1 DEF RingTypeOK
  <1>3. Rows(Contents', << >>)
    <2>1. Contents' \in Seq(Bytes) /\ Len(Contents') = 0
      <3>1. (RingTypeOK => Contents \in Seq(Bytes) /\ Len(Contents) = size)'
        BY ContentsAre, PTL
      <3> QED  BY <1>1, <1>2, <3>1
    <2>2. Contents' = << >>
      BY <2>1
    <2> QED  BY <2>2, NoRows
  <1>4. Chunk * 0 = 0
    BY MaxSize
  <1>5. \E vs \in Seq(Value) : Rows(Contents', vs)
    <2>1. << >> \in Seq(Value)
      OBVIOUS
    <2> QED  BY <1>3, <2>1
  <1>6. \E us \in Seq(Value) : Rows(items', us)
    BY <1>1 DEF RingInv
  <1>7. \E h \in Nat : head' = Chunk * h
    BY <1>1, <1>4
  <1>8. RingInv'
    BY <1>1, <1>2, <1>5, <1>6, <1>7 DEF RingInv
  <1> QED  BY <1>1, <1>3, <1>8

LEMMA RingInit ==
    ASSUME create_cbuffer_t
    PROVE  RingInv /\ Rows(Contents, << >>) /\ items = << >>
  <1>1. max_size \in Nat \ {0} /\ Chunk * 0 = 0
    BY MaxSize
  <1>2. RingTypeOK
    BY <1>1 DEF create_cbuffer_t, RingTypeOK
  <1>3. Contents = << >>
    <2>1. Contents \in Seq(Bytes) /\ Len(Contents) = 0
      BY <1>2, ContentsAre DEF create_cbuffer_t
    <2> QED  BY <2>1
  <1>4. << >> \in Seq(Value)
    OBVIOUS
  <1> QED  BY <1>1, <1>2, <1>3, <1>4, NoRows DEF create_cbuffer_t, RingInv

LEMMA RingKeeps ==
    ASSUME RingInv, [RingNext]_ringVars
    PROVE  RingInv'
  <1>1. PICK vs \in Seq(Value) : Rows(Contents, vs)
    BY DEF RingInv
  <1>2. CASE InsertSample
    BY <1>1, <1>2, SampleInserted DEF InsertSample
  <1>3. CASE RemoveBatch
    BY <1>1, <1>3, SamplesRemoved DEF RemoveBatch
  <1>4. CASE ClearSamples
    BY <1>4, SamplesCleared DEF ClearSamples
  <1>5. CASE UNCHANGED ringVars
    BY <1>5 DEF ringVars, RingInv, RingTypeOK, Contents
  <1> QED  BY <1>2, <1>3, <1>4, <1>5 DEF RingNext

(* The ring of bytes implements the queue of samples: what is inserted is the last  *)
(* to be removed, and a full ring forgets its first sample (cbuffer.c).             *)
THEOREM RingImplementsFifo == RingSpec => ImplementsFifo
  <1>1. create_cbuffer_t => RingInv
    BY RingInit
  <1>2. RingInv /\ [RingNext]_ringVars => RingInv'
    BY RingKeeps
  <1>3. create_cbuffer_t => Fifo!FifoInit
    <2> SUFFICES ASSUME create_cbuffer_t PROVE Fifo!FifoInit
      OBVIOUS
    <2>1. ValuesOf(Contents) = << >>
      BY RingInit, RowsAreWhole
    <2>2. ValuesOf(items) = << >>
      BY RingInit, NoRows, RowsAreWhole
    <2> QED  BY <2>1, <2>2 DEF Fifo!FifoInit
  <1>4. RingInv /\ [RingNext]_ringVars => [Fifo!FifoNext]_(Fifo!fifoVars)
    <2> SUFFICES ASSUME RingInv, [RingNext]_ringVars
                 PROVE  Fifo!FifoNext \/ UNCHANGED Fifo!fifoVars
      OBVIOUS
    <2>1. PICK vs \in Seq(Value) : Rows(Contents, vs)
      BY DEF RingInv
    <2>2. ValuesOf(Contents) = vs
      BY <2>1, RowsAreWhole
    <2>3. CASE InsertSample
      <3>1. PICK v \in Value : insert_items_cbuffer_t(SampleBytes(v))
        BY <2>3 DEF InsertSample
      <3>2. Rows(Contents', IF Len(vs) < Capacity THEN Append(vs, v) ELSE Append(Tail(vs), v))
            /\ items' = items
        BY <2>1, <3>1, SampleInserted
      <3>3. ValuesOf(Contents)' = IF Len(vs) < Capacity THEN Append(vs, v)
                                  ELSE Append(Tail(vs), v)
        BY <3>2, RowsAreWhole DEF ValuesOf
      <3>4. ValuesOf(items)' = ValuesOf(items)
        BY <3>2 DEF ValuesOf
      <3>5. Fifo!FifoInsert(v)
        BY <2>2, <3>3, <3>4 DEF Fifo!FifoInsert
      <3> QED  BY <3>5 DEF Fifo!FifoNext
    <2>4. CASE RemoveBatch
      <3>1. PICK n \in 0 .. Len(vs) : /\ n =< Capacity
                                     /\ Rows(items', SubSeq(vs, 1, n))
                                     /\ Rows(Contents', SubSeq(vs, n + 1, Len(vs)))
        BY <2>1, <2>4, SamplesRemoved DEF RemoveBatch
      <3>2. /\ ValuesOf(items)' = SubSeq(vs, 1, n)
            /\ ValuesOf(Contents)' = SubSeq(vs, n + 1, Len(vs))
        BY <3>1, RowsAreWhole DEF ValuesOf
      <3>3. Fifo!FifoTake(n) /\ n \in 0 .. Capacity
        BY <2>2, <3>1, <3>2, CBufferAssumption DEF Fifo!FifoTake
      <3> QED  BY <3>3 DEF Fifo!FifoNext
    <2>5. CASE ClearSamples
      <3>1. Rows(Contents', << >>) /\ items' = items
        BY <2>5, SamplesCleared DEF ClearSamples
      <3>2. ValuesOf(Contents)' = << >> /\ ValuesOf(items)' = ValuesOf(items)
        BY <3>1, RowsAreWhole DEF ValuesOf
      <3>3. Fifo!FifoClear
        BY <3>2 DEF Fifo!FifoClear
      <3> QED  BY <3>3 DEF Fifo!FifoNext
    <2>6. CASE UNCHANGED ringVars
      <3>1. Contents' = Contents /\ items' = items
        BY <2>6 DEF ringVars, Contents
      <3>2. ValuesOf(Contents)' = ValuesOf(Contents) /\ ValuesOf(items)' = ValuesOf(items)
        BY <3>1 DEF ValuesOf
      <3> QED  BY <3>2 DEF Fifo!fifoVars
    <2> QED  BY <2>3, <2>4, <2>5, <2>6 DEF RingNext
  <1> QED  BY <1>1, <1>2, <1>3, <1>4, PTL DEF RingSpec, ImplementsFifo, Fifo!FifoSpec

-----------------------------------------------------------------------------------
(* Induction over the naturals, for the iterator, whose positions are defined by    *)
(* recursion: a set of naturals that is not empty has a least element.              *)

Less == {xy \in Nat \X Nat : xy[1] < xy[2]}

LEMMA Least ==
    ASSUME NEW T \in SUBSET Nat, T # {}
    PROVE  \E x \in T : \A y \in T : x =< y
  <1>1. IsWellFoundedOn(Less, Nat)
    <2>1. OpToRel(<, Nat) = Less
      BY Zenon DEF OpToRel, Less
    <2> QED  BY <2>1, NatLessThanWellFounded, Zenon
  <1>2. PICK x \in T : \A y \in T : ~(<<y, x>> \in Less)
    BY <1>1, WFMin, Zenon
  <1>3. ASSUME NEW y \in T
        PROVE  x =< y
    <2>1. x \in Nat /\ y \in Nat
      OBVIOUS
    <2>2. y < x => <<y, x>> \in Less
      BY <2>1 DEF Less
    <2>3. ~(y < x)
      BY <1>2, <2>2
    <2> QED  BY <2>1, <2>3
  <1> QED  BY <1>3

LEMMA SetInduction ==
    ASSUME NEW T, 0 \in T, \A n \in Nat : n \in T => n + 1 \in T
    PROVE  \A n \in Nat : n \in T
  <1> SUFFICES ASSUME NEW n \in Nat, n \notin T
               PROVE  FALSE
    OBVIOUS
  <1> DEFINE Others == {k \in Nat : k \notin T}
  <1>1. PICK x \in Others : \A y \in Others : x =< y
    <2>1. Others \in SUBSET Nat /\ Others # {}
      OBVIOUS
    <2> HIDE DEF Others
    <2> QED  BY <2>1, Least
  <1>2. x \in Nat /\ x # 0
    OBVIOUS
  <1>3. x - 1 \in Nat /\ (x - 1) + 1 = x
    BY <1>2
  <1>4. x - 1 \in T
    BY <1>1, <1>2, <1>3
  <1> QED  BY <1>3, <1>4

-----------------------------------------------------------------------------------
(* The iterator.                                                                    *)

(* The k-th sample from slot h on is in this slot.                                  *)
Slot(h, k) == IF (h + k) - 1 < Capacity THEN (h + k) - 1 ELSE ((h + k) - 1) - Capacity

LEMMA IteratorPositions ==
    ASSUME RingTypeOK, NEW vs, Rows(Contents, vs),
           NEW h \in 0 .. Capacity - 1, head = Chunk * h
    PROVE  iterator_cbuffer_t = [k \in 1 .. Len(vs) |-> Chunk * Slot(h, k)]
  <1> DEFINE m == (size + Chunk - 1) \div Chunk
             From(f) == [k \in 1 .. m |-> IF k = 1 THEN head ELSE IteratorAdvance(f[k - 1])]
             g == [k \in 1 .. m |-> Chunk * Slot(h, k)]
             cur == CHOOSE f : f = From(f)
  <1>1. /\ m = Len(vs) /\ m \in Nat /\ m =< Capacity /\ max_size = Chunk * Capacity
        /\ Chunk \in Nat \ {0} /\ Capacity \in Nat \ {0} /\ h \in Nat /\ h < Capacity
    <2> DEFINE n == Len(vs)
    <2>1. /\ n \in Nat /\ n =< Capacity /\ size = Chunk * n /\ max_size = Chunk * Capacity
          /\ Chunk \in Nat \ {0} /\ Capacity \in Nat \ {0}
      BY HowMany, MaxSize, CBufferAssumption, LenProperties
    <2> HIDE DEF n
    <2>2. Chunk - 1 \in 0 .. Chunk - 1
      BY <2>1
    <2>3. (Chunk * n + (Chunk - 1)) \div Chunk = n
      BY <2>1, <2>2, IsDivided
    <2>4. size + Chunk - 1 = Chunk * n + (Chunk - 1)
      <3>1. size \in Nat
        BY <2>1
      <3> QED  BY <2>1, <3>1
    <2>5. m = n
      BY <2>3, <2>4
    <2> HIDE DEF m
    <2> QED  BY <2>1, <2>5 DEF n
  <1> HIDE DEF m
  <1>2. iterator_cbuffer_t = [k \in 1 .. m |-> cur[k]]
    BY Zenon DEF iterator_cbuffer_t, m
  <1>3. ASSUME NEW k \in 1 .. m, k # 1
        PROVE  /\ k - 1 \in 1 .. m
               /\ IteratorAdvance(Chunk * Slot(h, k - 1)) = Chunk * Slot(h, k)
    <2> DEFINE i == Slot(h, k - 1)
               x == Chunk * i
               y == Chunk * (i + 1)
    <2>1. k - 1 \in 1 .. m
      BY <1>1, <1>3
    <2>2. /\ i \in 0 .. Capacity - 1
          /\ Slot(h, k) = IF i + 1 < Capacity THEN i + 1 ELSE 0
      BY <1>1, <1>3 DEF Slot
    <2> HIDE DEF i
    <2>3. x \in Nat /\ y \in Nat /\ y = x + Chunk /\ i + 1 \in Nat
      BY <1>1, <2>2, Multiples
    <2>4. i + 1 < Capacity => y < max_size
      BY <1>1, <2>3, Multiples
    <2>5. ~(i + 1 < Capacity) => i + 1 = Capacity /\ y = max_size
      BY <1>1, <2>2
    <2>6. Chunk * 0 = 0 /\ max_size \in Nat
      BY <1>1, MaxSize
    <2>7. CASE i + 1 < Capacity
      <3>1. Chunk * Slot(h, k) = y
        BY <2>2, <2>7
      <3> HIDE DEF x, y
      <3>2. IteratorAdvance(x) = y
        BY <1>1, <2>3, <2>4, <2>6, <2>7 DEF IteratorAdvance
      <3> QED  BY <2>1, <3>1, <3>2 DEF x, i
    <2>8. CASE ~(i + 1 < Capacity)
      <3>1. Chunk * Slot(h, k) = 0
        BY <2>2, <2>6, <2>8
      <3> HIDE DEF x, y
      <3>2. IteratorAdvance(x) = 0
        BY <1>1, <2>3, <2>5, <2>6, <2>8 DEF IteratorAdvance
      <3> QED  BY <2>1, <3>1, <3>2 DEF x, i
    <2> QED  BY <2>7, <2>8
  <1>4. Slot(h, 1) = h
    BY <1>1 DEF Slot
  <1>5. g = From(g)
    <2>1. ASSUME NEW k \in 1 .. m
          PROVE  g[k] = IF k = 1 THEN head ELSE IteratorAdvance(g[k - 1])
      BY <1>3, <1>4
    <2> HIDE DEF g
    <2>2. g = [k \in 1 .. m |-> g[k]]
      BY DEF g
    <2>3. [k \in 1 .. m |-> g[k]] = From(g)
      BY <2>1
    <2> QED  BY <2>2, <2>3
  <1>6. cur = From(cur)
    <2> HIDE DEF From, g
    <2> QED  BY <1>5, Zenon
  <1> HIDE DEF cur
  <1>7. \A k \in Nat : k \in {n \in Nat : n \in 1 .. m => cur[n] = g[n]}
    <2> DEFINE T == {n \in Nat : n \in 1 .. m => cur[n] = g[n]}
    <2>1. 0 \in T
      OBVIOUS
    <2>2. ASSUME NEW n \in Nat, n \in T
          PROVE  n + 1 \in T
      <3> SUFFICES ASSUME n + 1 \in 1 .. m PROVE cur[n + 1] = g[n + 1]
        OBVIOUS
      <3>1. /\ cur[n + 1] = IF n + 1 = 1 THEN head ELSE IteratorAdvance(cur[(n + 1) - 1])
            /\ g[n + 1] = IF n + 1 = 1 THEN head ELSE IteratorAdvance(g[(n + 1) - 1])
        <4>1. cur[n + 1] = From(cur)[n + 1] /\ g[n + 1] = From(g)[n + 1]
          BY <1>5, <1>6
        <4> HIDE DEF g
        <4> QED  BY <4>1
      <3>2. n + 1 # 1 => n \in 1 .. m /\ (n + 1) - 1 = n
        BY <1>1
      <3>3. n + 1 # 1 => cur[n] = g[n]
        BY <2>2, <3>2
      <3> HIDE DEF g
      <3> QED  BY <3>1, <3>2, <3>3
    <2> HIDE DEF T
    <2>3. \A k \in Nat : k \in T
      BY <2>1, <2>2, SetInduction
    <2> QED  BY <2>3 DEF T
  <1>8. \A k \in 1 .. m : cur[k] = g[k]
    <2> HIDE DEF g
    <2> QED  BY <1>1, <1>7
  <1> QED  BY <1>1, <1>2, <1>8

LEMMA IteratorYields ==
    ASSUME RingInv, client = "meter"
    PROVE  \A k \in DOMAIN iterator_cbuffer_t :
             /\ iterator_cbuffer_t[k] + Chunk <= max_size
             /\ CopyOut(data, iterator_cbuffer_t[k], Chunk) = ChunkOf(Contents, k)
  <1>1. PICK vs \in Seq(Value) : Rows(Contents, vs)
    BY DEF RingInv
  <1>2. PICK h \in Nat : head = Chunk * h
    BY DEF RingInv
  <1>3. /\ RingTypeOK /\ Len(vs) \in Nat /\ Len(vs) =< Capacity
        /\ size = Chunk * Len(vs) /\ max_size = Chunk * Capacity
        /\ Chunk \in Nat \ {0} /\ Capacity \in Nat \ {0} /\ max_size \in Nat
        /\ head \in Nat /\ head < max_size /\ size \in Nat /\ size =< max_size
    BY <1>1, HowMany, MaxSize, CBufferAssumption, LenProperties DEF RingInv, RingTypeOK
  <1>4. h \in 0 .. Capacity - 1
    BY <1>2, <1>3, Multiples
  <1>5. iterator_cbuffer_t = [k \in 1 .. Len(vs) |-> Chunk * Slot(h, k)]
    BY <1>1, <1>2, <1>3, <1>4, IteratorPositions
  <1>6. ASSUME NEW k \in 1 .. Len(vs)
        PROVE  /\ Chunk * Slot(h, k) + Chunk <= max_size
               /\ CopyOut(data, Chunk * Slot(h, k), Chunk) = ChunkOf(Contents, k)
    <2> DEFINE p == Chunk * Slot(h, k)
               d == Chunk * (k - 1)
    <2>1. Slot(h, k) \in 0 .. Capacity - 1 /\ k - 1 \in Nat
      BY <1>3, <1>4 DEF Slot
    <2>2. p \in Nat /\ p + Chunk =< max_size /\ d \in Nat
      <3>1. p \in Nat /\ p + Chunk =< Chunk * Capacity
        BY <1>3, <2>1, SlotFits
      <3>2. d \in Nat
        BY <1>3, <2>1, SlotFits
      <3> HIDE DEF p, d
      <3> QED  BY <1>3, <3>1, <3>2
    <2>3. p = head + d \/ p = head + d - max_size
      <3>1. Chunk * (h + (k - 1)) = head + d /\ h + (k - 1) = (h + k) - 1
        BY <1>2, <1>3, <2>1, Multiples
      <3>2. CASE (h + k) - 1 < Capacity
        BY <3>1, <3>2 DEF Slot
      <3>3. CASE ~((h + k) - 1 < Capacity)
        <4>1. Capacity =< (h + k) - 1 /\ (h + k) - 1 \in Nat
          BY <1>3, <3>3
        <4>2. Chunk * (((h + k) - 1) - Capacity) = Chunk * ((h + k) - 1) - Chunk * Capacity
          <5>1. Capacity \in 0 .. (h + k) - 1
            BY <1>3, <4>1
          <5> QED  BY <4>1, <5>1, SlotsApart
        <4>3. Slot(h, k) = ((h + k) - 1) - Capacity
          BY <3>3 DEF Slot
        <4>4. p = Chunk * ((h + k) - 1) - Chunk * Capacity
          BY <4>2, <4>3
        <4>5. Chunk * ((h + k) - 1) = head + d /\ Chunk * Capacity = max_size
          BY <1>3, <3>1
        <4> DEFINE x == Chunk * ((h + k) - 1)
                   y == Chunk * Capacity
        <4>6. p = x - y /\ x = head + d /\ y = max_size
          BY <4>4, <4>5
        <4> HIDE DEF p, d, x, y
        <4>7. p = head + d - max_size
          BY <1>3, <2>2, <4>6
        <4> QED  BY <4>7
      <3> QED  BY <3>2, <3>3
    <2>4. ASSUME NEW b \in 1 .. Chunk
          PROVE  data[p + b - 1] = <<vs[k], b>>
      <3>1. d + b \in 1 .. size
        BY <1>3, RowPosition
      <3>2. Contents[d + b] = <<vs[k], b>>
        BY <1>1 DEF Rows
      <3>3. Contents[d + b] = data[Ahead(head, (d + b) - 1)]
        <4> HIDE DEF d
        <4> QED  BY <1>3, <3>1, ContentsAre
      <3>4. Ahead(head, (d + b) - 1) = p + b - 1
        <4> HIDE DEF d, p
        <4> QED  BY <1>3, <2>2, <2>3, <3>1 DEF Ahead, Around
      <3> QED  BY <3>2, <3>3, <3>4, Zenon
    <2>5. CopyOut(data, p, Chunk) = SampleBytes(vs[k])
      <3> HIDE DEF p
      <3> QED  BY <2>4 DEF CopyOut, SampleBytes
    <2> QED  BY <1>1, <2>2, <2>5, RowsAreWhole
  <1> QED  BY <1>5, <1>6

(* No sample is torn, whatever is stored over what, and however many are removed at *)
(* a time; and an iterator hands out exactly the stored samples (cbuffer.c).        *)
THEOREM SamplesAreAlwaysWhole == RingSpec => []SamplesAreWhole
  <1>1. create_cbuffer_t => RingInv
    BY RingInit
  <1>2. RingInv /\ [RingNext]_ringVars => RingInv'
    BY RingKeeps
  <1>3. RingInv => SamplesAreWhole
    <2> SUFFICES ASSUME RingInv PROVE SamplesAreWhole
      OBVIOUS
    <2>1. NoTornSample
      BY RowsAreWhole DEF RingInv, NoTornSample
    <2>2. IteratorYieldsContents
      BY IteratorYields DEF IteratorYieldsContents
    <2> QED  BY <2>1, <2>2 DEF RingInv, SamplesAreWhole
  <1> QED  BY <1>1, <1>2, <1>3, PTL DEF RingSpec

-----------------------------------------------------------------------------------
(* The pool of RMIDs: lists without repetition.                                     *)

LEMMA RemoveAtOfInjective ==
    ASSUME NEW S, NEW s \in Seq(S), IsInjective(s), NEW i \in 1 .. Len(s)
    PROVE  /\ RemoveAt(s, i) \in Seq(S)
           /\ Len(RemoveAt(s, i)) = Len(s) - 1
           /\ IsInjective(RemoveAt(s, i))
           /\ ToSet(RemoveAt(s, i)) = ToSet(s) \ {s[i]}
  <1> DEFINE front == SubSeq(s, 1, i - 1)
             back  == SubSeq(s, i + 1, Len(s))
             rest  == RemoveAt(s, i)
  <1>0. Len(s) \in Nat /\ DOMAIN s = 1 .. Len(s) /\ \A j \in 1 .. Len(s) : s[j] \in S
    BY LenProperties, ElementOfSeq
  <1>i. i \in Int /\ Len(s) \in Int
    BY LenProperties
  <1>1. /\ front \in Seq(S) /\ Len(front) = i - 1
        /\ \A j \in 1 .. i - 1 : front[j] = s[j]
    <2>1. \A j \in 1 .. i - 1 : s[j] \in S
      BY <1>0
    <2> QED  BY <1>0, <2>1, SubSeqProperties
  <1>2. /\ back \in Seq(S) /\ Len(back) = Len(s) - i
        /\ \A j \in 1 .. Len(s) - i : back[j] = s[i + j]
    <2> DEFINE m == i + 1
    <2>1. m \in Int /\ \A j \in m .. Len(s) : s[j] \in S
      BY <1>0, <1>i
    <2>2. back = SubSeq(s, m, Len(s))
      OBVIOUS
    <2> HIDE DEF m, back
    <2>3. /\ back \in Seq(S)
          /\ Len(back) = IF m <= Len(s) THEN Len(s) - m + 1 ELSE 0
          /\ \A j \in 1 .. Len(s) - m + 1 : back[j] = s[m + j - 1]
      BY <1>i, <2>1, <2>2, SubSeqProperties
    <2> QED  BY <1>i, <2>3 DEF m
  <1> HIDE DEF front, back
  <1>3. /\ rest \in Seq(S) /\ Len(rest) = Len(s) - 1
        /\ \A j \in 1 .. Len(s) - 1 : rest[j] = IF j < i THEN s[j] ELSE s[j + 1]
    <2>1. rest = front \o back
      BY DEF rest, RemoveAt, front, back
    <2>2. /\ front \o back \in Seq(S)
          /\ Len(front \o back) = Len(s) - 1
          /\ \A j \in 1 .. Len(s) - 1 :
               (front \o back)[j] = IF j <= i - 1 THEN front[j] ELSE back[j - (i - 1)]
      <3>1. /\ front \o back \in Seq(S)
            /\ Len(front \o back) = Len(front) + Len(back)
            /\ \A j \in 1 .. Len(front) + Len(back) :
                 (front \o back)[j] = IF j <= Len(front) THEN front[j] ELSE back[j - Len(front)]
        BY <1>1, <1>2, ConcatProperties, Zenon
      <3>2. Len(front) + Len(back) = Len(s) - 1
        BY <1>0, <1>1, <1>2
      <3> QED  BY <1>1, <3>1, <3>2
    <2>3. ASSUME NEW j \in 1 .. Len(s) - 1
          PROVE  rest[j] = IF j < i THEN s[j] ELSE s[j + 1]
      <3>1. CASE j < i
        BY <1>0, <1>1, <2>1, <2>2, <3>1
      <3>2. CASE ~(j < i)
        <4>1. j - (i - 1) \in 1 .. Len(s) - i /\ i + (j - (i - 1)) = j + 1
          BY <1>0, <3>2
        <4> QED  BY <1>0, <1>2, <2>1, <2>2, <3>2, <4>1
      <3> QED  BY <3>1, <3>2
    <2> QED  BY <2>1, <2>2, <2>3
  <1>4. DOMAIN rest = 1 .. Len(s) - 1
    BY <1>3, LenProperties
  <1> HIDE DEF rest
  <1>5. IsInjective(rest)
    <2> SUFFICES ASSUME NEW j \in 1 .. Len(s) - 1, NEW k \in 1 .. Len(s) - 1, rest[j] = rest[k]
                 PROVE  j = k
      BY <1>4, Zenon DEF IsInjective
    <2> DEFINE from(x) == IF x < i THEN x ELSE x + 1
    <2>1. /\ from(j) \in 1 .. Len(s) /\ from(k) \in 1 .. Len(s)
          /\ s[from(j)] = s[from(k)]
      BY <1>0, <1>3
    <2>2. from(j) = from(k)
      <3> HIDE DEF from
      <3>1. \A x, y \in 1 .. Len(s) : s[x] = s[y] => x = y
        BY <1>0 DEF IsInjective
      <3> QED  BY <2>1, <3>1
    <2> QED  BY <1>0, <2>2
  <1>6. ToSet(rest) = ToSet(s) \ {s[i]}
    <2>1. ASSUME NEW x \in ToSet(rest) PROVE x \in ToSet(s) \ {s[i]}
      <3>1. PICK j \in 1 .. Len(s) - 1 : x = rest[j]
        BY <1>4, <2>1 DEF ToSet
      <3>2. PICK k \in 1 .. Len(s) : k # i /\ x = s[k]
        <4>1. CASE j < i
          BY <1>0, <1>3, <3>1, <4>1
        <4>2. CASE ~(j < i)
          <5>1. j + 1 \in 1 .. Len(s) /\ j + 1 # i
            BY <1>0, <3>1, <4>2
          <5> QED  BY <1>3, <3>1, <4>2, <5>1
        <4> QED  BY <4>1, <4>2
      <3>3. x # s[i]
        BY <1>0, <3>2 DEF IsInjective
      <3>4. x \in ToSet(s)
        BY <1>0, <3>2 DEF ToSet
      <3> QED  BY <3>3, <3>4
    <2>2. ASSUME NEW x \in ToSet(s), x # s[i] PROVE x \in ToSet(rest)
      <3>1. PICK j \in 1 .. Len(s) : x = s[j]
        BY <1>0, <2>2 DEF ToSet
      <3>2. CASE j < i
        <4>1. j \in 1 .. Len(s) - 1 /\ rest[j] = x
          BY <1>0, <1>3, <3>1, <3>2
        <4> QED  BY <1>4, <4>1 DEF ToSet
      <3>3. CASE j > i
        <4>1. j - 1 \in 1 .. Len(s) - 1 /\ ~(j - 1 < i) /\ j - 1 + 1 = j
          BY <1>0, <3>1, <3>3
        <4>2. rest[j - 1] = x
          BY <1>3, <3>1, <4>1
        <4> QED  BY <1>4, <4>1, <4>2 DEF ToSet
      <3> QED  BY <1>0, <2>2, <3>1, <3>2, <3>3
    <2> QED  BY <2>1, <2>2
  <1> QED  BY <1>3, <1>5, <1>6 DEF rest

\* The first occurrence is the only one.
LEMMA RemoveFirstOfInjective ==
    ASSUME NEW S, NEW s \in Seq(S), IsInjective(s), NEW e \in ToSet(s)
    PROVE  /\ Contains(s, e)
           /\ RemoveFirst(s, e) \in Seq(S)
           /\ IsInjective(RemoveFirst(s, e))
           /\ ToSet(RemoveFirst(s, e)) = ToSet(s) \ {e}
  <1>0. Len(s) \in Nat /\ DOMAIN s = 1 .. Len(s)
    BY LenProperties
  <1>1. PICK i \in 1 .. Len(s) : s[i] = e
    BY <1>0 DEF ToSet
  <1>2. {j \in 1 .. Len(s) : s[j] = e} = {i}
    BY <1>0, <1>1 DEF IsInjective
  <1>3. Min({i}) = i
    BY <1>0, <1>1 DEF Min
  <1>4. SelectInSeq(s, LAMBDA v : v = e) = i
    BY <1>2, <1>3 DEF SelectInSeq
  <1>5. RemoveFirst(s, e) = RemoveAt(s, i)
    BY <1>1, <1>4 DEF RemoveFirst
  <1> QED  BY <1>1, <1>5, RemoveAtOfInjective DEF Contains

LEMMA AppendToInjective ==
    ASSUME NEW S, NEW s \in Seq(S), IsInjective(s), NEW e \in S, e \notin ToSet(s)
    PROVE  /\ Append(s, e) \in Seq(S)
           /\ Len(Append(s, e)) = Len(s) + 1
           /\ IsInjective(Append(s, e))
           /\ ToSet(Append(s, e)) = ToSet(s) \cup {e}
  <1>0. Len(s) \in Nat /\ DOMAIN s = 1 .. Len(s)
    BY LenProperties
  <1>1. /\ Append(s, e) \in Seq(S) /\ Len(Append(s, e)) = Len(s) + 1
        /\ \A j \in 1 .. Len(s) : Append(s, e)[j] = s[j]
        /\ Append(s, e)[Len(s) + 1] = e
    BY AppendProperties
  <1>2. DOMAIN Append(s, e) = 1 .. Len(s) + 1
    BY <1>1, LenProperties
  <1>3. IsInjective(Append(s, e))
    BY <1>0, <1>1, <1>2 DEF IsInjective, ToSet
  <1>4. ToSet(Append(s, e)) = ToSet(s) \cup {e}
    BY <1>0, <1>1, <1>2 DEF ToSet
  <1> QED  BY <1>1, <1>3, <1>4

LEMMA JoinOfInjective ==
    ASSUME NEW S, NEW s \in Seq(S), NEW u \in Seq(S), IsInjective(s), IsInjective(u),
           ToSet(s) \cap ToSet(u) = {}
    PROVE  IsInjective(s \o u)
  <1>0. /\ Len(s) \in Nat /\ DOMAIN s = 1 .. Len(s)
        /\ Len(u) \in Nat /\ DOMAIN u = 1 .. Len(u)
    BY LenProperties
  <1>1. /\ DOMAIN (s \o u) = 1 .. Len(s) + Len(u)
        /\ \A j \in 1 .. Len(s) + Len(u) :
             (s \o u)[j] = IF j <= Len(s) THEN s[j] ELSE u[j - Len(s)]
    BY ConcatProperties, LenProperties
  <1>2. \A j \in 1 .. Len(s) + Len(u) : j <= Len(s) => j \in DOMAIN s
    BY <1>0
  <1>3. \A j \in 1 .. Len(s) + Len(u) : ~(j <= Len(s)) => j - Len(s) \in DOMAIN u
    BY <1>0
  <1> SUFFICES ASSUME NEW j \in 1 .. Len(s) + Len(u), NEW k \in 1 .. Len(s) + Len(u),
                      (s \o u)[j] = (s \o u)[k]
               PROVE  j = k
    BY <1>1 DEF IsInjective
  <1>4. CASE j <= Len(s) /\ k <= Len(s)
    BY <1>1, <1>2, <1>4 DEF IsInjective
  <1>5. CASE ~(j <= Len(s)) /\ ~(k <= Len(s))
    <2>1. j - Len(s) = k - Len(s)
      BY <1>1, <1>3, <1>5 DEF IsInjective
    <2> QED  BY <1>0, <2>1
  <1>6. CASE j <= Len(s) /\ ~(k <= Len(s))
    BY <1>1, <1>2, <1>3, <1>6 DEF ToSet
  <1>7. CASE ~(j <= Len(s)) /\ k <= Len(s)
    BY <1>1, <1>2, <1>3, <1>7 DEF ToSet
  <1> QED  BY <1>4, <1>5, <1>6, <1>7

LEMMA InjectiveIsShort ==
    ASSUME NEW n \in Nat, NEW s \in Seq(1 .. n), IsInjective(s)
    PROVE  Len(s) <= n /\ s \in BoundedSeq(1 .. n, n)
  <1>0. Len(s) \in Nat /\ DOMAIN s = 1 .. Len(s) /\ s \in [1 .. Len(s) -> 1 .. n]
    BY LenProperties
  <1>1. IsFiniteSet(1 .. n) /\ Cardinality(1 .. n) = n
    BY FS_Interval
  <1>2. Cardinality(1 .. Len(s)) = Len(s)
    <2>1. \A k \in Nat : Cardinality(1 .. k) = k
      BY FS_Interval
    <2> QED  BY <1>0, <2>1
  <1>3. s \in Injection(1 .. Len(s), 1 .. n)
    BY <1>0 DEF Injection
  <1>4. Len(s) <= n
    BY <1>1, <1>2, <1>3, FS_Injection
  <1> QED  BY <1>0, <1>4 DEF BoundedSeq, SeqOf

LEMMA ModSmall == ASSUME NEW n \in Nat \ {0}, NEW x \in 0 .. n - 1 PROVE x % n = x
  OBVIOUS

LEMMA ModWraps == ASSUME NEW n \in Nat \ {0}, NEW x \in n .. 2 * n - 1 PROVE x % n = x - n
  OBVIOUS

LEMMA Rotation ==
    ASSUME NEW n \in Nat \ {0}, NEW start \in 0 .. n - 1, NEW s,
           s = [i \in 1 .. n |-> IF start + i <= n THEN start + i ELSE start + i - n]
    PROVE  s \in Seq(1 .. n) /\ Len(s) = n /\ IsInjective(s) /\ ToSet(s) = 1 .. n
  <1>1. s \in [1 .. n -> 1 .. n]
    OBVIOUS
  <1>2. s \in Seq(1 .. n) /\ Len(s) = n /\ DOMAIN s = 1 .. n
    BY <1>1, IsASeq, LenProperties
  <1>3. IsInjective(s)
    <2> SUFFICES ASSUME NEW i \in 1 .. n, NEW j \in 1 .. n, s[i] = s[j] PROVE i = j
      BY <1>2 DEF IsInjective
    <2> QED  OBVIOUS
  <1>4. ASSUME NEW r \in 1 .. n PROVE \E i \in 1 .. n : s[i] = r
    <2>1. CASE r > start
      <3>1. r - start \in 1 .. n /\ s[r - start] = r
        BY <2>1
      <3> QED  BY <3>1
    <2>2. CASE ~(r > start)
      <3>1. r - start + n \in 1 .. n /\ s[r - start + n] = r
        BY <2>2
      <3> QED  BY <3>1
    <2> QED  BY <2>1, <2>2
  <1>5. ToSet(s) = {s[i] : i \in 1 .. n}
    BY <1>2, Zenon DEF ToSet
  <1>6. \A i \in 1 .. n : s[i] \in 1 .. n
    BY <1>1
  <1>7. ToSet(s) = 1 .. n
    BY <1>4, <1>5, <1>6, Zenon
  <1> QED  BY <1>2, <1>3, <1>7, Zenon

\* The list of a new pool starts anywhere and wraps around: it has every RMID once.
LEMMA NewListIsWhole ==
    ASSUME NEW start \in 0 .. NrRmids - 1
    PROVE  LET s == [i \in Rmid |-> 1 + ((start + i - 1) % NrRmids)]
           IN  s \in Seq(Rmid) /\ Len(s) = NrRmids /\ IsInjective(s) /\ ToSet(s) = Rmid
  <1> DEFINE s == [i \in Rmid |-> 1 + ((start + i - 1) % NrRmids)]
             u == [i \in Rmid |-> IF start + i <= NrRmids THEN start + i
                                                          ELSE start + i - NrRmids]
  <1>1. ASSUME NEW i \in Rmid
        PROVE  1 + ((start + i - 1) % NrRmids)
                 = IF start + i <= NrRmids THEN start + i ELSE start + i - NrRmids
    <2>0. start \in Nat /\ i \in Nat /\ NrRmids \in Nat \ {0} /\ i <= NrRmids /\ i >= 1
          /\ start < NrRmids
      BY RmidAssumption DEF Rmid
    <2> DEFINE x == start + i - 1
    <2>1. x \in Int /\ (start + i <= NrRmids <=> x \in 0 .. NrRmids - 1)
          /\ (~(start + i <= NrRmids) <=> x \in NrRmids .. 2 * NrRmids - 1)
          /\ 1 + x = start + i /\ 1 + (x - NrRmids) = start + i - NrRmids
      BY <2>0
    <2> HIDE DEF x
    <2>2. x \in 0 .. NrRmids - 1 => x % NrRmids = x
      BY <2>0, ModSmall
    <2>3. x \in NrRmids .. 2 * NrRmids - 1 => x % NrRmids = x - NrRmids
      BY <2>0, ModWraps
    <2>4. 1 + (x % NrRmids)
            = IF start + i <= NrRmids THEN start + i ELSE start + i - NrRmids
      BY <2>1, <2>2, <2>3
    <2> QED  BY <2>4 DEF x
  <1>2. s = u
    BY <1>1
  <1>3. u \in Seq(Rmid) /\ Len(u) = NrRmids /\ IsInjective(u) /\ ToSet(u) = Rmid
    BY RmidAssumption, Rotation DEF Rmid
  <1> HIDE DEF s, u
  <1>4. s \in Seq(Rmid) /\ Len(s) = NrRmids /\ IsInjective(s) /\ ToSet(s) = Rmid
    BY <1>2, <1>3
  <1> QED  BY <1>4 DEF s

-----------------------------------------------------------------------------------
(* The invariant.                                                                   *)

\* The type invariant without the bounds, which follow from the rest.
Types ==
    /\ available_rmids \in Seq(Rmid) /\ assigned_rmids \in Seq(Rmid)
    /\ nr_available_rmids \in Nat
    /\ ref_counter \in [Rmid -> Nat]
    /\ free_rmid \in [Rmid -> BOOLEAN]
    /\ enabled \in BOOLEAN /\ activations \in 0 .. MaxActivations
    /\ state \in [Thread -> {"none", "alive", "putting", "gone"}]
    /\ first_time \in [Thread -> BOOLEAN]
    /\ rmid \in [Thread -> 0 .. NrRmids]
    /\ process \in [Thread -> Thread]

\* There is no thread, and an empty pool, before the module is enabled.
Fresh ==
    activations = 0 => /\ ~enabled /\ available_rmids = <<>> /\ assigned_rmids = <<>>
                       /\ nr_available_rmids = 0 /\ \A r \in Rmid : ref_counter[r] = 0
                       /\ \A t \in Thread : state[t] = "none"

\* The two lists divide the RMIDs, and the marks say which list has which.
Divided ==
    activations # 0 => /\ IsInjective(available_rmids) /\ IsInjective(assigned_rmids)
                       /\ ToSet(available_rmids) \cap ToSet(assigned_rmids) = {}
                       /\ ToSet(available_rmids) \cup ToSet(assigned_rmids) = Rmid
                       /\ nr_available_rmids = Len(available_rmids)
                       /\ \A r \in Rmid : free_rmid[r] <=> r \in ToSet(available_rmids)

\* A thread has no RMID before it is switched in; one that has an RMID has one that is
\* not free; the one that returns an RMID to the pool is the only one to do so, after
\* everybody who used it.
Users ==
    /\ \A t \in Thread :
         /\ state[t] = "none" \/ (state[t] = "alive" /\ first_time[t]) => rmid[t] = 0
         /\ state[t] = "alive" /\ rmid[t] # 0 => ~free_rmid[rmid[t]]
         /\ state[t] = "putting" => /\ enabled /\ rmid[t] \in Rmid
                                    /\ ~free_rmid[rmid[t]] /\ ref_counter[rmid[t]] = 0
    /\ \A t, u \in Thread :
         state[t] = "putting" /\ state[u] = "putting" /\ rmid[t] = rmid[u] => t = u

Counted == \A r \in Rmid : ref_counter[r] =< Cardinality(Thread)

Inv == Types /\ Fresh /\ Divided /\ Users /\ Counted /\ RefsAreHolders /\ RmidIsOfOneProcess

LEMMA HoldersAreFinite ==
    ASSUME NEW r PROVE IsFiniteSet(Holders(r)) /\ Cardinality(Holders(r)) =< Cardinality(Thread)
  <1>1. Holders(r) \in SUBSET Thread
    BY DEF Holders
  <1> QED  BY <1>1, RmidAssumption, FS_Subset

\* Cardinalities of the holders when a thread becomes one, or is no longer one.
LEMMA HolderComes ==
    ASSUME NEW t \in Thread, NEW r, t \notin Holders(r), Holders(r)' = Holders(r) \cup {t}
    PROVE  Cardinality(Holders(r)') = Cardinality(Holders(r)) + 1
  BY HoldersAreFinite, FS_AddElement

LEMMA HolderGoes ==
    ASSUME NEW t \in Thread, NEW r, t \in Holders(r), Holders(r)' = Holders(r) \ {t}
    PROVE  Cardinality(Holders(r)') = Cardinality(Holders(r)) - 1
  BY HoldersAreFinite, FS_RemoveElement

LEMMA HolderCounts ==
    ASSUME NEW t \in Thread, NEW r, t \in Holders(r)
    PROVE  Cardinality(Holders(r)) >= 1
  <1>1. Cardinality(Holders(r)) \in Nat /\ Cardinality(Holders(r)) # 0
    BY HoldersAreFinite, FS_CardinalityType, FS_EmptySet
  <1> QED  BY <1>1

-----------------------------------------------------------------------------------
(* The module.                                                                      *)

LEMMA EnableKeeps ==
    ASSUME Inv, activations = 0, intel_cmt_enable_module PROVE Inv'
  <1>1. PICK start \in 0 .. NrRmids - 1 :
          available_rmids' = [i \in Rmid |-> 1 + ((start + i - 1) % NrRmids)]
    BY DEF intel_cmt_enable_module, initialize_rmid_pool
  <1>2. /\ available_rmids' \in Seq(Rmid) /\ Len(available_rmids') = NrRmids
        /\ IsInjective(available_rmids') /\ ToSet(available_rmids') = Rmid
    BY <1>1, NewListIsWhole
  <1>3. /\ assigned_rmids' = <<>> /\ <<>> \in Seq(Rmid) /\ IsInjective(<<>>)
        /\ ToSet(<<>>) = {}
    BY DEF intel_cmt_enable_module, initialize_rmid_pool, IsInjective, ToSet
  <1>4. /\ nr_available_rmids' = NrRmids /\ enabled' = TRUE /\ activations' = 1
        /\ ref_counter' = [r \in Rmid |-> 0] /\ free_rmid' = [r \in Rmid |-> TRUE]
        /\ UNCHANGED <<state, first_time, rmid, process>>
    BY DEF intel_cmt_enable_module, initialize_rmid_pool, threads
  <1>5. \A t \in Thread : state[t] = "none"
    BY DEF Inv, Fresh
  <1>6. Types' /\ Fresh'
    BY <1>2, <1>3, <1>4, RmidAssumption DEF Inv, Types, Fresh
  <1>7. Divided'
    BY <1>2, <1>3, <1>4 DEF Divided
  <1>8. Users' /\ RmidIsOfOneProcess'
    BY <1>4, <1>5 DEF Inv, Users, RmidIsOfOneProcess
  <1>9. RefsAreHolders' /\ Counted'
    <2> SUFFICES ASSUME NEW r \in Rmid
                 PROVE  ref_counter'[r] = Cardinality(Holders(r)')
                        /\ ref_counter'[r] =< Cardinality(Thread)
      BY DEF RefsAreHolders, Counted
    <2>1. Holders(r)' = {}
      BY <1>4, <1>5 DEF Holders
    <2>2. Cardinality({}) = 0 /\ Cardinality(Thread) \in Nat
      BY FS_EmptySet, FS_CardinalityType, RmidAssumption
    <2> QED  BY <1>4, <2>1, <2>2
  <1> QED  BY <1>6, <1>7, <1>8, <1>9 DEF Inv

\* No put is under way, so nobody will return an RMID to a pool that has been freed.
LEMMA DisableKeeps == ASSUME Inv, intel_cmt_disable_module PROVE Inv'
  <1>1. /\ enabled /\ enabled' = FALSE /\ activations' = activations
        /\ UNCHANGED <<available_rmids, nr_available_rmids, ref_counter, free_rmid,
                       assigned_rmids, state, first_time, rmid, process>>
        /\ \A t \in Thread : state[t] # "putting"
    BY DEF intel_cmt_disable_module, pool, threads
  <1>2. Types' /\ Fresh' /\ Divided' /\ Counted'
    BY <1>1 DEF Inv, Types, Fresh, Divided, Counted
  <1>3. Users' /\ RmidIsOfOneProcess'
    BY <1>1 DEF Inv, Users, RmidIsOfOneProcess
  <1>4. RefsAreHolders'
    BY <1>1 DEF Inv, RefsAreHolders, Holders
  <1> QED  BY <1>2, <1>3, <1>4 DEF Inv

-----------------------------------------------------------------------------------
(* The threads.                                                                     *)

LEMMA ForkProcessKeeps ==
    ASSUME Inv, NEW t \in Thread, intel_cmt_on_fork_process(t) PROVE Inv'
  <1>1. /\ enabled /\ state[t] = "none" /\ rmid[t] = 0 /\ activations # 0
        /\ UNCHANGED <<available_rmids, nr_available_rmids, ref_counter, free_rmid,
                       assigned_rmids, enabled, activations, rmid, process>>
    BY DEF Inv, Users, Fresh, intel_cmt_on_fork_process, pool, module
  <1>2. /\ state' \in [Thread -> {"none", "alive", "putting", "gone"}]
        /\ first_time' \in [Thread -> BOOLEAN]
        /\ state'[t] = "alive" /\ \A u \in Thread \ {t} : state'[u] = state[u]
        /\ \A u \in Thread \ {t} : first_time'[u] = first_time[u]
    BY DEF Inv, Types, intel_cmt_on_fork_process
  <1>3. Types' /\ Fresh' /\ Divided' /\ Counted'
    BY <1>1, <1>2 DEF Inv, Types, Fresh, Divided, Counted
  <1>4. Users'
    BY <1>1, <1>2 DEF Inv, Users
  <1>5. RefsAreHolders'
    <2> SUFFICES ASSUME NEW r \in Rmid PROVE Holders(r)' = Holders(r)
      BY <1>1 DEF Inv, RefsAreHolders
    <2>1. r # 0
      BY RmidAssumption DEF Rmid
    <2> QED  BY <1>1, <1>2, <2>1 DEF Holders
  <1>6. RmidIsOfOneProcess'
    BY <1>1, <1>2 DEF Inv, RmidIsOfOneProcess
  <1> QED  BY <1>3, <1>4, <1>5, <1>6 DEF Inv

\* The new thread shares the RMID, and the process, of the one that creates it.
LEMMA ForkThreadKeeps ==
    ASSUME Inv, NEW t \in Thread, NEW p \in Thread, intel_cmt_on_fork_thread(t, p)
    PROVE  Inv'
  <1>1. /\ enabled /\ state[t] = "none" /\ state[p] = "alive" /\ activations # 0
        /\ UNCHANGED <<available_rmids, nr_available_rmids, free_rmid, assigned_rmids,
                       enabled, activations>>
    BY DEF Inv, Fresh, intel_cmt_on_fork_thread, use_rmid, module
  <1>2. /\ state' \in [Thread -> {"none", "alive", "putting", "gone"}]
        /\ first_time' \in [Thread -> BOOLEAN]
        /\ rmid' \in [Thread -> 0 .. NrRmids] /\ process' \in [Thread -> Thread]
        /\ state'[t] = "alive" /\ first_time'[t] = FALSE
        /\ rmid'[t] = rmid[p] /\ process'[t] = process[p]
        /\ \A u \in Thread \ {t} :
             /\ state'[u] = state[u] /\ first_time'[u] = first_time[u]
             /\ rmid'[u] = rmid[u] /\ process'[u] = process[u]
    BY DEF Inv, Types, intel_cmt_on_fork_thread
  <1>3. \A r \in Rmid : ref_counter'[r] = IF r = rmid[p] THEN ref_counter[r] + 1
                                                         ELSE ref_counter[r]
    <2>1. rmid[p] \in Rmid => ~free_rmid[rmid[p]]
      BY <1>1, RmidAssumption DEF Inv, Users, Rmid
    <2> QED  BY <2>1 DEF intel_cmt_on_fork_thread, use_rmid
  <1>4. ref_counter' \in [Rmid -> Nat]
    <2>1. ref_counter' = [q \in Rmid |-> ref_counter'[q]]
      BY DEF intel_cmt_on_fork_thread, use_rmid
    <2>2. ASSUME NEW q \in Rmid PROVE ref_counter'[q] \in Nat
      <3>1. ref_counter[q] \in Nat
        BY DEF Inv, Types
      <3> QED  BY <1>3, <3>1
    <2> QED  BY <2>1, <2>2
  <1>5. Types' /\ Fresh' /\ Divided'
    BY <1>1, <1>2, <1>4 DEF Inv, Types, Fresh, Divided
  <1>6. ASSUME NEW r \in Rmid
        PROVE  /\ ref_counter'[r] = Cardinality(Holders(r)')
               /\ ref_counter'[r] =< Cardinality(Thread)
    <2>0. ref_counter[r] = Cardinality(Holders(r)) /\ t \notin Holders(r)
      BY <1>1 DEF Inv, RefsAreHolders, Holders
    <2>1. CASE r = rmid[p]
      <3>1. Holders(r)' = Holders(r) \cup {t}
        BY <1>1, <1>2, <2>1 DEF Holders
      <3>2. ref_counter'[r] = Cardinality(Holders(r)')
        BY <1>3, <2>0, <2>1, <3>1, HolderComes
      <3>3. Holders(r)' \in SUBSET Thread
        BY DEF Holders
      <3>4. Cardinality(Holders(r)') =< Cardinality(Thread)
        BY <3>3, RmidAssumption, FS_Subset
      <3> QED  BY <3>2, <3>4
    <2>2. CASE r # rmid[p]
      <3>1. Holders(r)' = Holders(r)
        BY <1>1, <1>2, <2>2 DEF Holders
      <3> QED  BY <1>3, <2>0, <2>2, <3>1 DEF Inv, Counted
    <2> QED  BY <2>1, <2>2
  <1>7. Users'
    <2>1. \A u \in Thread : state[u] = "putting" => rmid[u] # rmid[p]
      <3> SUFFICES ASSUME NEW u \in Thread, state[u] = "putting", rmid[u] = rmid[p]
                   PROVE  FALSE
        OBVIOUS
      <3>1. rmid[u] \in Rmid /\ ref_counter[rmid[u]] = 0
        BY DEF Inv, Users
      <3>2. p \in Holders(rmid[u])
        BY <1>1 DEF Holders
      <3>3. Cardinality(Holders(rmid[u])) >= 1
        BY <3>2, HolderCounts
      <3> QED  BY <1>1, <3>1, <3>3 DEF Inv, RefsAreHolders
    <2>2. rmid[p] # 0 => ~free_rmid[rmid[p]]
      BY <1>1 DEF Inv, Users
    <2>3. \A u \in Thread :
            state'[u] = "putting" => /\ state[u] = "putting" /\ rmid'[u] = rmid[u] /\ enabled'
                                     /\ rmid[u] \in Rmid /\ ~free_rmid'[rmid[u]]
                                     /\ ref_counter'[rmid[u]] = 0
      BY <1>1, <1>2, <1>3, <2>1 DEF Inv, Users
    <2>4. \A u \in Thread :
            /\ state'[u] = "none" \/ (state'[u] = "alive" /\ first_time'[u]) => rmid'[u] = 0
            /\ state'[u] = "alive" /\ rmid'[u] # 0 => ~free_rmid'[rmid'[u]]
      BY <1>1, <1>2, <2>2 DEF Inv, Users
    <2> QED  BY <2>3, <2>4 DEF Inv, Users
  <1>8. RmidIsOfOneProcess'
    BY <1>1, <1>2 DEF Inv, RmidIsOfOneProcess
  <1> QED  BY <1>5, <1>6, <1>7, <1>8 DEF Inv, RefsAreHolders, Counted

\* A thread that is switched in takes an RMID that nobody uses, or stays without one.
LEMMA SwitchInKeeps ==
    ASSUME Inv, NEW t \in Thread, intel_cmt_on_switch_in(t) PROVE Inv'
  <1>1. /\ enabled /\ state[t] = "alive" /\ first_time[t] /\ rmid[t] = 0
        /\ activations # 0 /\ UNCHANGED <<enabled, activations, state, process>>
        /\ first_time' = [first_time EXCEPT ![t] = FALSE]
    BY DEF Inv, Users, Fresh, intel_cmt_on_switch_in, module
  <1>2. /\ first_time' \in [Thread -> BOOLEAN] /\ first_time'[t] = FALSE
        /\ \A u \in Thread \ {t} : first_time'[u] = first_time[u]
    BY <1>1 DEF Inv, Types
  <1>3. CASE available_rmids = <<>>
    <2>1. rmid' = rmid /\ UNCHANGED pool
      BY <1>1, <1>3, ZenonT(30) DEF intel_cmt_on_switch_in, get_rmid, Inv, Types
    <2>2. Types' /\ Fresh' /\ Divided' /\ Counted'
      BY <1>1, <1>2, <2>1 DEF pool, Inv, Types, Fresh, Divided, Counted
    <2>3. Users' /\ RmidIsOfOneProcess'
      BY <1>1, <1>2, <2>1 DEF pool, Inv, Users, RmidIsOfOneProcess
    <2>4. RefsAreHolders'
      BY <1>1, <2>1 DEF pool, Inv, RefsAreHolders, Holders
    <2> QED  BY <2>2, <2>3, <2>4 DEF Inv
  <1>4. CASE available_rmids # <<>>
    <2> DEFINE a == available_rmids
    <2>0. PICK policy \in Policy : \E i \in Pick(policy) :
            /\ rmid' = [rmid EXCEPT ![t] = a[i]]
            /\ available_rmids' = RemoveAt(a, i)
            /\ free_rmid' = [free_rmid EXCEPT ![a[i]] = FALSE]
            /\ nr_available_rmids' = nr_available_rmids - 1
            /\ ref_counter' = [ref_counter EXCEPT ![a[i]] = @ + 1]
            /\ assigned_rmids' = Append(assigned_rmids, a[i])
      BY <1>4 DEF intel_cmt_on_switch_in, get_rmid
    <2>1. PICK i \in Pick(policy) :
            /\ rmid' = [rmid EXCEPT ![t] = a[i]]
            /\ available_rmids' = RemoveAt(a, i)
            /\ free_rmid' = [free_rmid EXCEPT ![a[i]] = FALSE]
            /\ nr_available_rmids' = nr_available_rmids - 1
            /\ ref_counter' = [ref_counter EXCEPT ![a[i]] = @ + 1]
            /\ assigned_rmids' = Append(assigned_rmids, a[i])
      BY <2>0
    <2> DEFINE r == a[i]
    <2>2. a \in Seq(Rmid) /\ Len(a) \in Nat \ {0} /\ nr_available_rmids = Len(a)
      BY <1>1, <1>4, LenProperties, EmptySeq DEF Inv, Types, Divided
    <2>3. i \in 1 .. Len(a)
      BY <2>2, RmidAssumption DEF Pick
    <2>4. r \in Rmid /\ r \in ToSet(a)
      BY <2>2, <2>3, ElementOfSeq DEF ToSet
    <2>5. /\ IsInjective(a) /\ assigned_rmids \in Seq(Rmid) /\ IsInjective(assigned_rmids)
          /\ ToSet(a) \cap ToSet(assigned_rmids) = {}
          /\ ToSet(a) \cup ToSet(assigned_rmids) = Rmid
          /\ \A q \in Rmid : free_rmid[q] <=> q \in ToSet(a)
      BY <1>1 DEF Inv, Types, Divided
    <2>6. /\ available_rmids' \in Seq(Rmid) /\ Len(available_rmids') = Len(a) - 1
          /\ IsInjective(available_rmids') /\ ToSet(available_rmids') = ToSet(a) \ {r}
      BY <2>1, <2>2, <2>3, <2>5, RemoveAtOfInjective
    <2>7. /\ assigned_rmids' \in Seq(Rmid) /\ IsInjective(assigned_rmids')
          /\ ToSet(assigned_rmids') = ToSet(assigned_rmids) \cup {r}
      BY <2>1, <2>4, <2>5, AppendToInjective
    <2> HIDE DEF a
    <2>8. /\ rmid' = [rmid EXCEPT ![t] = r]
          /\ free_rmid' = [free_rmid EXCEPT ![r] = FALSE]
          /\ ref_counter' = [ref_counter EXCEPT ![r] = ref_counter[r] + 1]
          /\ nr_available_rmids' = Len(a) - 1
      BY <2>1, <2>2
    <2> HIDE DEF r
    <2>9. /\ rmid' \in [Thread -> 0 .. NrRmids]
          /\ rmid'[t] = r /\ \A u \in Thread \ {t} : rmid'[u] = rmid[u]
      <3>1. r \in 0 .. NrRmids
        BY <2>4, RmidAssumption DEF Rmid
      <3> QED  BY <2>8, <3>1 DEF Inv, Types
    <2>10. /\ free_rmid' \in [Rmid -> BOOLEAN]
           /\ free_rmid'[r] = FALSE /\ \A q \in Rmid \ {r} : free_rmid'[q] = free_rmid[q]
      BY <2>4, <2>8 DEF Inv, Types
    <2>11. /\ ref_counter' \in [Rmid -> Nat]
           /\ ref_counter'[r] = ref_counter[r] + 1
           /\ \A q \in Rmid \ {r} : ref_counter'[q] = ref_counter[q]
      BY <2>4, <2>8 DEF Inv, Types
    <2>12. Types' /\ Fresh'
      <3>1. nr_available_rmids' \in Nat
        BY <2>2, <2>8
      <3> QED  BY <1>1, <1>2, <2>6, <2>7, <2>9, <2>10, <2>11, <3>1 DEF Inv, Types, Fresh
    <2>13. Divided'
      BY <1>1, <2>4, <2>5, <2>6, <2>7, <2>8, <2>10 DEF Divided
    <2>14. \A u \in Thread : state[u] \in {"alive", "putting"} => rmid[u] # r
      <3>1. free_rmid[r]
        BY <2>4, <2>5 DEF a
      <3>2. r # 0
        BY <2>4, RmidAssumption DEF Rmid
      <3> QED  BY <3>1, <3>2 DEF Inv, Users
    <2>15. ASSUME NEW q \in Rmid
           PROVE  /\ ref_counter'[q] = Cardinality(Holders(q)')
                  /\ ref_counter'[q] =< Cardinality(Thread)
      <3>0. ref_counter[q] = Cardinality(Holders(q)) /\ q # 0
        BY <1>1, RmidAssumption DEF Inv, RefsAreHolders, Rmid
      <3>1. CASE q = r
        <4>1. t \notin Holders(q) /\ Holders(q)' = Holders(q) \cup {t}
          BY <1>1, <2>9, <2>14, <3>0, <3>1 DEF Holders
        <4>2. ref_counter'[q] = Cardinality(Holders(q)')
          BY <2>11, <3>0, <3>1, <4>1, HolderComes
        <4>3. Holders(q)' \in SUBSET Thread
          BY DEF Holders
        <4> QED  BY <4>2, <4>3, RmidAssumption, FS_Subset
      <3>2. CASE q # r
        <4>1. Holders(q)' = Holders(q)
          BY <1>1, <2>9, <3>0, <3>2 DEF Holders
        <4> QED  BY <2>11, <3>0, <3>2, <4>1 DEF Inv, Counted
      <3> QED  BY <3>1, <3>2
    <2>16. Users'
      <3>1. \A u \in Thread :
              state'[u] = "putting" => /\ state[u] = "putting" /\ rmid'[u] = rmid[u] /\ enabled'
                                       /\ rmid[u] \in Rmid /\ ~free_rmid'[rmid[u]]
                                       /\ ref_counter'[rmid[u]] = 0
        BY <1>1, <2>9, <2>10, <2>11, <2>14 DEF Inv, Users
      <3>2. ASSUME NEW u \in Thread
            PROVE  /\ state'[u] = "none" \/ (state'[u] = "alive" /\ first_time'[u])
                        => rmid'[u] = 0
                   /\ state'[u] = "alive" /\ rmid'[u] # 0 => ~free_rmid'[rmid'[u]]
        <4>1. CASE u = t
          BY <1>1, <1>2, <2>9, <2>10, <4>1
        <4>2. CASE u # t
          <5>1. rmid[u] # 0 => rmid[u] \in Rmid
            BY RmidAssumption DEF Inv, Types, Rmid
          <5> QED  BY <1>1, <1>2, <2>9, <2>10, <2>14, <4>2, <5>1 DEF Inv, Users
        <4> QED  BY <4>1, <4>2
      <3> QED  BY <3>1, <3>2 DEF Inv, Users
    <2>17. RmidIsOfOneProcess'
      BY <1>1, <2>9, <2>14 DEF Inv, RmidIsOfOneProcess
    <2> QED  BY <2>12, <2>13, <2>15, <2>16, <2>17 DEF Inv, RefsAreHolders, Counted
  <1> QED  BY <1>3, <1>4

\* An exit drops a reference, and the last one leads to the return of the RMID.
LEMMA ExitKeeps ==
    ASSUME Inv, NEW t \in Thread, intel_cmt_on_exit(t) PROVE Inv'
  <1>1. /\ state[t] = "alive" /\ activations # 0
        /\ UNCHANGED <<available_rmids, nr_available_rmids, free_rmid, assigned_rmids,
                       enabled, activations, first_time, rmid, process>>
    BY DEF Inv, Fresh, intel_cmt_on_exit, put_rmid, module, pool
  <1>2. /\ state' \in [Thread -> {"none", "alive", "putting", "gone"}]
        /\ state'[t] \in {"putting", "gone"}
        /\ \A u \in Thread \ {t} : state'[u] = state[u]
    BY DEF Inv, Types, intel_cmt_on_exit, put_rmid
  <1>3. RmidIsOfOneProcess'
    BY <1>1, <1>2 DEF Inv, RmidIsOfOneProcess
  <1>4. Divided'
    BY <1>1 DEF Inv, Divided
  <1>5. CASE ~enabled
    <2>1. ref_counter' = ref_counter /\ state'[t] = "gone"
      BY <1>5 DEF intel_cmt_on_exit, pool, Inv, Types
    <2>2. Types' /\ Fresh' /\ Counted' /\ RefsAreHolders'
      BY <1>1, <1>2, <1>5, <2>1 DEF Inv, Types, Fresh, Counted, RefsAreHolders
    <2>3. Users'
      BY <1>1, <1>2, <2>1 DEF Inv, Users
    <2> QED  BY <1>3, <1>4, <2>2, <2>3 DEF Inv
  <1>6. CASE enabled
    <2>1. rmid[t] \in Rmid \/ rmid[t] = 0
      BY RmidAssumption DEF Inv, Types, Rmid
    <2>2. rmid[t] \in Rmid => /\ ~free_rmid[rmid[t]]
                              /\ ref_counter[rmid[t]] = Cardinality(Holders(rmid[t]))
                              /\ ref_counter[rmid[t]] >= 1
      <3> SUFFICES ASSUME rmid[t] \in Rmid
                   PROVE  /\ ~free_rmid[rmid[t]]
                          /\ ref_counter[rmid[t]] = Cardinality(Holders(rmid[t]))
                          /\ ref_counter[rmid[t]] >= 1
        OBVIOUS
      <3>1. rmid[t] # 0
        BY RmidAssumption DEF Rmid
      <3>2. t \in Holders(rmid[t])
        BY <1>1 DEF Holders
      <3>3. Cardinality(Holders(rmid[t])) >= 1
        BY <3>2, HolderCounts
      <3> QED  BY <1>1, <1>6, <3>1, <3>3 DEF Inv, Users, RefsAreHolders
    <2> DEFINE counted == {r \in Rmid : r = rmid[t] /\ ~free_rmid[r]}
    <2>3. \A r \in Rmid : r \in counted <=> r = rmid[t]
      BY <2>2
    <2>4. /\ ref_counter' = [r \in Rmid |-> IF r \in counted THEN ref_counter[r] - 1
                                            ELSE ref_counter[r]]
          /\ state' = [state EXCEPT ![t] = IF \E r \in counted : ref_counter[r] = 1
                                           THEN "putting" ELSE "gone"]
      BY <1>6 DEF intel_cmt_on_exit, put_rmid
    <2>5. counted \subseteq Rmid
      OBVIOUS
    <2> HIDE DEF counted
    <2>6. \A r \in Rmid : ref_counter'[r] = IF r = rmid[t] THEN ref_counter[r] - 1
                                            ELSE ref_counter[r]
      BY <2>3, <2>4
    <2>7. state'[t] = "putting" <=> rmid[t] \in Rmid /\ ref_counter[rmid[t]] = 1
      <3>1. state'[t] = IF \E r \in counted : ref_counter[r] = 1 THEN "putting" ELSE "gone"
        BY <2>4 DEF Inv, Types
      <3> QED  BY <2>3, <2>5, <3>1
    <2>8. ref_counter' \in [Rmid -> Nat]
      <3>1. ref_counter' = [r \in Rmid |-> ref_counter'[r]]
        BY <2>4
      <3>2. ASSUME NEW r \in Rmid PROVE ref_counter'[r] \in Nat
        <4>1. ref_counter[r] \in Nat
          BY DEF Inv, Types
        <4> QED  BY <2>2, <2>6, <4>1
      <3> QED  BY <3>1, <3>2
    <2>9. Types' /\ Fresh'
      BY <1>1, <1>2, <2>8 DEF Inv, Types, Fresh
    <2>10. ASSUME NEW r \in Rmid
           PROVE  /\ ref_counter'[r] = Cardinality(Holders(r)')
                  /\ ref_counter'[r] =< Cardinality(Thread)
      <3>0. ref_counter[r] = Cardinality(Holders(r)) /\ ref_counter[r] \in Nat
        BY <1>6 DEF Inv, RefsAreHolders, Types
      <3>1. CASE r = rmid[t]
        <4>1. t \in Holders(r) /\ Holders(r)' = Holders(r) \ {t}
          BY <1>1, <1>2, <3>1 DEF Holders
        <4>2. ref_counter'[r] = Cardinality(Holders(r)')
          BY <2>6, <3>0, <3>1, <4>1, HolderGoes
        <4>3. Holders(r)' \in SUBSET Thread
          BY DEF Holders
        <4> QED  BY <4>2, <4>3, RmidAssumption, FS_Subset
      <3>2. CASE r # rmid[t]
        <4>1. Holders(r)' = Holders(r)
          BY <1>1, <1>2, <3>2 DEF Holders
        <4> QED  BY <2>6, <3>0, <3>2, <4>1 DEF Inv, Counted
      <3> QED  BY <3>1, <3>2
    <2>11. \A u \in Thread : state[u] = "putting" => rmid[u] # rmid[t]
      BY <2>2 DEF Inv, Users
    <2>12. Users'
      <3>1. ASSUME NEW u \in Thread, state'[u] = "putting"
            PROVE  /\ enabled' /\ rmid'[u] \in Rmid
                   /\ ~free_rmid'[rmid'[u]] /\ ref_counter'[rmid'[u]] = 0
        <4>1. CASE u = t
          BY <1>1, <1>6, <2>2, <2>6, <2>7, <3>1, <4>1
        <4>2. CASE u # t
          BY <1>1, <1>2, <2>6, <2>11, <3>1, <4>2 DEF Inv, Users
        <4> QED  BY <4>1, <4>2
      <3>2. \A u \in Thread :
              /\ state'[u] = "none" \/ (state'[u] = "alive" /\ first_time'[u])
                   => rmid'[u] = 0
              /\ state'[u] = "alive" /\ rmid'[u] # 0 => ~free_rmid'[rmid'[u]]
        BY <1>1, <1>2 DEF Inv, Users
      <3>3. \A u, v \in Thread :
              state'[u] = "putting" /\ state'[v] = "putting" /\ rmid'[u] = rmid'[v] => u = v
        BY <1>1, <1>2, <2>11 DEF Inv, Users
      <3> QED  BY <3>1, <3>2, <3>3 DEF Users
    <2> QED  BY <1>3, <1>4, <2>9, <2>10, <2>12 DEF Inv, RefsAreHolders, Counted
  <1> QED  BY <1>5, <1>6

\* The RMID leaves the array of the assigned ones and is the last of the free ones.
LEMMA PutKeeps ==
    ASSUME Inv, NEW t \in Thread, put_rmid_last(t) PROVE Inv'
  <1> DEFINE r == rmid[t]
  <1>1. /\ state[t] = "putting" /\ activations # 0
        /\ r \in Rmid /\ ~free_rmid[r] /\ ref_counter[r] = 0 /\ enabled
        /\ UNCHANGED <<ref_counter, enabled, activations, first_time, rmid, process>>
    BY DEF Inv, Fresh, Users, put_rmid_last, module
  <1>2. /\ state' \in [Thread -> {"none", "alive", "putting", "gone"}]
        /\ state'[t] = "gone" /\ \A u \in Thread \ {t} : state'[u] = state[u]
    BY DEF Inv, Types, put_rmid_last
  <1>3. /\ available_rmids \in Seq(Rmid) /\ IsInjective(available_rmids)
        /\ assigned_rmids \in Seq(Rmid) /\ IsInjective(assigned_rmids)
        /\ ToSet(available_rmids) \cap ToSet(assigned_rmids) = {}
        /\ ToSet(available_rmids) \cup ToSet(assigned_rmids) = Rmid
        /\ nr_available_rmids = Len(available_rmids)
        /\ \A q \in Rmid : free_rmid[q] <=> q \in ToSet(available_rmids)
    BY <1>1 DEF Inv, Types, Divided
  <1>4. r \notin ToSet(available_rmids) /\ r \in ToSet(assigned_rmids)
    BY <1>1, <1>3
  <1>5. /\ available_rmids' = Append(available_rmids, r)
        /\ assigned_rmids' = Compact(assigned_rmids, r)
        /\ nr_available_rmids' = nr_available_rmids + 1
        /\ free_rmid' = [free_rmid EXCEPT ![r] = TRUE]
    BY DEF put_rmid_last
  <1> HIDE DEF r
  <1>6. /\ available_rmids' \in Seq(Rmid) /\ IsInjective(available_rmids')
        /\ Len(available_rmids') = Len(available_rmids) + 1
        /\ ToSet(available_rmids') = ToSet(available_rmids) \cup {r}
    BY <1>1, <1>3, <1>4, <1>5, AppendToInjective
  <1>7. /\ assigned_rmids' \in Seq(Rmid) /\ IsInjective(assigned_rmids')
        /\ ToSet(assigned_rmids') = ToSet(assigned_rmids) \ {r}
    BY <1>3, <1>4, <1>5, RemoveFirstOfInjective DEF Compact
  <1>8. /\ free_rmid' \in [Rmid -> BOOLEAN] /\ free_rmid'[r] = TRUE
        /\ \A q \in Rmid \ {r} : free_rmid'[q] = free_rmid[q]
    BY <1>1, <1>5 DEF Inv, Types
  <1>9. Types' /\ Fresh' /\ Counted'
    <2>1. nr_available_rmids' \in Nat
      BY <1>5 DEF Inv, Types
    <2> QED  BY <1>1, <1>2, <1>6, <1>7, <1>8, <2>1 DEF Inv, Types, Fresh, Counted
  <1>10. Divided'
    BY <1>1, <1>3, <1>4, <1>5, <1>6, <1>7, <1>8 DEF Divided
  <1>11. Users'
    <2>1. \A u \in Thread : state[u] = "alive" => rmid[u] # r
      <3> SUFFICES ASSUME NEW u \in Thread, state[u] = "alive", rmid[u] = r PROVE FALSE
        OBVIOUS
      <3>1. u \in Holders(r)
        BY DEF Holders
      <3>2. Cardinality(Holders(r)) >= 1
        BY <3>1, HolderCounts
      <3> QED  BY <1>1, <3>2 DEF Inv, RefsAreHolders
    <2>2. \A u \in Thread \ {t} : state[u] = "putting" => rmid[u] # r
      BY <1>1 DEF Inv, Users, r
    <2>3. \A u \in Thread : rmid[u] # 0 => rmid[u] \in Rmid
      BY RmidAssumption DEF Inv, Types, Rmid
    <2> QED  BY <1>1, <1>2, <1>8, <2>1, <2>2, <2>3 DEF Inv, Users
  <1>12. RefsAreHolders'
    <2> SUFFICES ASSUME NEW q \in Rmid PROVE Holders(q)' = Holders(q)
      BY <1>1 DEF Inv, RefsAreHolders
    <2> QED  BY <1>1, <1>2 DEF Holders
  <1>13. RmidIsOfOneProcess'
    BY <1>1, <1>2 DEF Inv, RmidIsOfOneProcess
  <1> QED  BY <1>9, <1>10, <1>11, <1>12, <1>13 DEF Inv

-----------------------------------------------------------------------------------
LEMMA InitInv == Init => Inv
  <1> SUFFICES ASSUME Init PROVE Inv
    OBVIOUS
  <1>1. Types /\ Fresh
    <2>1. <<>> \in Seq(Rmid) /\ 0 \in 0 .. NrRmids /\ 0 \in 0 .. MaxActivations
      BY RmidAssumption
    <2>2. Types
      BY <2>1 DEF Init, Types
    <2>3. Fresh
      BY DEF Init, Fresh
    <2> QED  BY <2>2, <2>3
  <1>2. Divided /\ Users /\ RefsAreHolders /\ RmidIsOfOneProcess
    BY DEF Init, Divided, Users, RefsAreHolders, RmidIsOfOneProcess
  <1>3. Counted
    <2>1. Cardinality(Thread) \in Nat
      BY RmidAssumption, FS_CardinalityType
    <2> QED  BY <2>1 DEF Init, Counted
  <1> QED  BY <1>1, <1>2, <1>3 DEF Inv

IInv == activations \in Nat /\ (activations =< 1 => Inv)

LEMMA NextIInv == IInv /\ [Next]_vars => IInv'
  <1> SUFFICES ASSUME IInv, [Next]_vars PROVE IInv'
    OBVIOUS
  <1>1. CASE UNCHANGED vars
    <2>0. UNCHANGED <<pool, module, threads>>
      BY <1>1 DEF vars
    <2>1. (Types /\ Fresh)' <=> (Types /\ Fresh)
      BY <2>0 DEF pool, module, threads, Types, Fresh
    <2>2. (Divided /\ Users /\ Counted)' <=> (Divided /\ Users /\ Counted)
      BY <2>0 DEF pool, module, threads, Divided, Users, Counted
    <2>3. (RefsAreHolders /\ RmidIsOfOneProcess)' <=> (RefsAreHolders /\ RmidIsOfOneProcess)
      BY <2>0 DEF pool, module, threads, RefsAreHolders, Holders, RmidIsOfOneProcess
    <2>4. activations' = activations
      BY <2>0 DEF module
    <2> QED  BY <2>1, <2>2, <2>3, <2>4 DEF IInv, Inv
  <1>2. CASE intel_cmt_enable_module
    <2>1. activations' = activations + 1 /\ activations \in Nat
      BY <1>2 DEF IInv, intel_cmt_enable_module
    <2>2. activations' =< 1 => Inv'
      BY <1>2, <2>1, EnableKeeps DEF IInv
    <2> QED  BY <2>1, <2>2 DEF IInv
  <1>3. CASE Next /\ ~intel_cmt_enable_module
    <2>1. activations' = activations
      BY <1>3 DEF Next, intel_cmt_disable_module, intel_cmt_on_fork_process,
                  intel_cmt_on_fork_thread, intel_cmt_on_switch_in, intel_cmt_on_exit,
                  put_rmid_last, module
    <2>2. Inv => Inv'
      BY <1>3, DisableKeeps, ForkProcessKeeps, ForkThreadKeeps, SwitchInKeeps,
         ExitKeeps, PutKeeps DEF Next
    <2> QED  BY <2>1, <2>2 DEF IInv
  <1> QED  BY <1>1, <1>2, <1>3

LEMMA IInvHolds == Spec => []IInv
  <1>1. Init => IInv
    BY InitInv DEF Init, IInv
  <1> QED  BY <1>1, NextIInv, PTL DEF Spec

\* Until the module is enabled for the second time, whatever the policy: the references
\* to an RMID are the threads that use it, so that it returns to the pool with the last
\* of them; every RMID is in the list or in the array, once; no two processes share one.
THEOREM RmidsAreAlwaysSound == Spec => [](activations =< 1 => RmidsAreSound)
  <1>1. IInv => (activations =< 1 => RmidsAreSound)
    <2> SUFFICES ASSUME Inv, activations =< 1 PROVE RmidsAreSound
      BY DEF IInv
    <2>0. Types /\ Fresh /\ Divided /\ Counted /\ RefsAreHolders /\ RmidIsOfOneProcess
      BY DEF Inv
    <2>1. CASE activations = 0
      <3>1. <<>> \in BoundedSeq(Rmid, NrRmids)
        <4>1. <<>> \in Seq(1 .. NrRmids) /\ IsInjective(<<>>)
          BY DEF IsInjective
        <4> QED  BY <4>1, InjectiveIsShort, RmidAssumption DEF Rmid
      <3> QED
        BY <2>0, <2>1, <3>1, RmidAssumption, FS_CardinalityType
        DEF RmidsAreSound, TypeOK, Types, Fresh, PoolIsPartitioned
    <2>2. CASE activations # 0
      <3>1. /\ available_rmids \in Seq(Rmid) /\ IsInjective(available_rmids)
            /\ assigned_rmids \in Seq(Rmid) /\ IsInjective(assigned_rmids)
            /\ ToSet(available_rmids) \cap ToSet(assigned_rmids) = {}
            /\ nr_available_rmids = Len(available_rmids)
        BY <2>0, <2>2 DEF Types, Divided
      <3>2. /\ available_rmids \in BoundedSeq(Rmid, NrRmids)
            /\ Len(available_rmids) <= NrRmids
            /\ assigned_rmids \in BoundedSeq(Rmid, NrRmids)
        BY <3>1, InjectiveIsShort, RmidAssumption DEF Rmid
      <3>3. IsInjective(available_rmids \o assigned_rmids)
        BY <3>1, JoinOfInjective
      <3>4. PoolIsPartitioned
        BY <2>0, <2>2, <3>1, <3>3 DEF Divided, PoolIsPartitioned
      <3>5. nr_available_rmids \in 0 .. NrRmids
        BY <2>0, <3>1, <3>2, RmidAssumption DEF Types
      <3>6. ref_counter \in [Rmid -> 0 .. Cardinality(Thread)]
        <4>1. Cardinality(Thread) \in Nat
          BY RmidAssumption, FS_CardinalityType
        <4> QED  BY <2>0, <4>1 DEF Types, Counted
      <3>7. TypeOK
        BY <2>0, <3>2, <3>5, <3>6 DEF Types, TypeOK
      <3> QED  BY <2>0, <3>4, <3>7 DEF RmidsAreSound
    <2> QED  BY <2>1, <2>2
  <1> QED  BY <1>1, IInvHolds, PTL
====================================================================================
