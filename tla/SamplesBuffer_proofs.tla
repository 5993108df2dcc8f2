------------------------ MODULE SamplesBuffer_proofs ------------------------
(***************************************************************************)
(* Proofs about SamplesBuffer for any set of threads and any capacity.     *)
(***************************************************************************)
EXTENDS SamplesBuffer, FiniteSetTheorems, TLAPS

(* How many wake-ups the semaphore and the flag may stand for, together,   *)
(* at each point of the reader: one outside of the wait, and one more only *)
(* between raising the flag and consuming the wake-up of an older read.    *)
SemaphoreBudget ==
  /\ reader = "down" => sem_queue + (IF monitor_waiting THEN 1 ELSE 0) <= 2
  /\ reader # "down" => sem_queue + (IF monitor_waiting THEN 1 ELSE 0) <= 1

(* A thread under creation has one creator, who is alive; and one whose    *)
(* creator has only tested the buffer can count on it, unless a detach came*)
(* in between.                                                             *)
ForksAreOwned ==
  /\ \A t \in Task : forking[t] # t =>
       /\ task[t] \in {"monitored", "free"}
       /\ task[forking[t]] \in {"tested", "got", "forked", "wild"}
       /\ \A s \in Task : s # t /\ forking[s] # s => forking[s] # forking[t]
  /\ "overtaken" \notin accidents =>
       \A t \in Task : Overtakes(t) => task[t] = "monitored"

IInv ==
  /\ TypeOK
  /\ RefsAreHolders
  /\ ForksAreOwned
  /\ EofIsFinal
  /\ WakeupPending
  /\ SemaphoreBudget

-----------------------------------------------------------------------------
(* The set of holders is finite, so that its cardinality makes sense.      *)
LEMMA HoldersFinite ==
  IsFiniteSet(Holders) /\ Cardinality(Holders) \in Nat
<1>1. Holders \subseteq Task
  BY DEF Holders
<1> QED
  BY <1>1, FS_Subset, FS_CardinalityType, SamplesBufferAssumption

(* A thread that starts to hold the buffer adds one to the holders.        *)
HolderState == {"got", "forked", "monitored", "exiting", "kept"}

LEMMA HoldersGrow ==
  ASSUME NEW t \in Task, NEW s \in HolderState, TypeOK, task[t] \notin HolderState,
         task' = [task EXCEPT ![t] = s]
  PROVE  Cardinality(Holders') = Cardinality(Holders) + 1
<1>1. t \notin Holders /\ Holders' = Holders \cup {t}
  BY DEF Holders, HolderState, TypeOK
<1> QED
  BY <1>1, HoldersFinite, FS_AddElement

(* A thread that stops holding it takes one away.                          *)
LEMMA HoldersShrink ==
  ASSUME NEW t \in Task, NEW s \in {"free", "gone"}, TypeOK, t \in Holders,
         task' = [task EXCEPT ![t] = s]
  PROVE  /\ Cardinality(Holders') = Cardinality(Holders) - 1
         /\ Cardinality(Holders) # 0
         /\ Holders' \subseteq Holders
<1>1. Holders' = Holders \ {t}
  BY DEF Holders, TypeOK
<1>2. Cardinality(Holders) # 0
  BY HoldersFinite, FS_EmptySet
<1> QED
  BY <1>1, <1>2, HoldersFinite, FS_RemoveElement

(* Any other change of a thread leaves the holders alone.                  *)
LEMMA HoldersStay ==
  ASSUME NEW t \in Task, NEW s, TypeOK, task[t] \in HolderState <=> s \in HolderState,
         task' = [task EXCEPT ![t] = s]
  PROVE  Holders' = Holders
BY DEF Holders, HolderState, TypeOK

(* The references add up again when holders and counter move together.     *)
LEMMA RefsMove ==
  ASSUME NEW d \in {-1, 0, 1}, TypeOK, RefsAddUp, reader' = reader, leaked' = leaked,
         Cardinality(Holders') = Cardinality(Holders) + d, ref_counter' = ref_counter + d
  PROVE  RefsAddUp'
BY HoldersFinite DEF RefsAddUp, TypeOK

(* No loss comes of a thread that gets into an ordinary state.             *)
LEMMA LossesStay ==
  ASSUME NEW t \in Task, NEW s, TypeOK, LossesAreAccidents, leaked' = leaked,
         accidents \subseteq accidents', s \notin {"bare", "kept", "wild"},
         task' = [task EXCEPT ![t] = s]
  PROVE  LossesAreAccidents'
BY DEF LossesAreAccidents, TypeOK

(* A thread that is not being created may come and go without disturbing   *)
(* the creation of others, as long as it creates nobody itself.            *)
LEMMA ForksUndisturbed ==
  ASSUME NEW t \in Task, NEW s, TypeOK, ForksAreOwned,
         task[t] \notin {"tested", "got", "forked", "wild"},
         forking[t] = t \/ s = "monitored",
         task' = [task EXCEPT ![t] = s], forking' = forking,
         accidents \subseteq accidents'
  PROVE  ForksAreOwned'
<1>1. \A r \in Task : forking[r] # r => forking[r] # t
  BY DEF ForksAreOwned
<1>2. \A r \in Task : forking[r] # r =>
        /\ task'[forking[r]] = task[forking[r]]
        /\ task'[r] = task[r] \/ task'[r] = "monitored"
  BY <1>1 DEF TypeOK
<1> QED
  BY <1>2 DEF ForksAreOwned, Overtakes, TypeOK

(* The end of a creation releases the creator.                             *)
LEMMA ForkReleased ==
  ASSUME NEW t \in Task, NEW s, NEW r, TypeOK, ForksAreOwned, forking[t] # t,
         task' = [task EXCEPT ![forking[t]] = s, ![t] = r],
         forking' = [forking EXCEPT ![t] = t], accidents' = accidents,
         task[forking[t]] # "forked" => r = task[t] \/ r = "gone",
         task[forking[t]] = "forked" => r = task[t]
  PROVE  ForksAreOwned'
<1>1. \A q \in Task : forking'[q] # q =>
        /\ q # t /\ forking'[q] = forking[q] /\ forking[q] # q
        /\ forking[q] # forking[t]
  BY DEF ForksAreOwned, TypeOK
<1>2. \A q \in Task : forking[q] # q => forking[q] # t /\ q # forking[t]
  BY DEF ForksAreOwned
<1>3. \A q \in Task : forking'[q] # q =>
        task'[q] = task[q] /\ task'[forking'[q]] = task[forking[q]]
  BY <1>1, <1>2 DEF TypeOK
<1> QED
  BY <1>1, <1>3 DEF ForksAreOwned, Overtakes, TypeOK

(* Storing a sample keeps the queue a sequence of samples, not empty.      *)
LEMMA InsertType ==
  ASSUME NEW s \in Sample, queue \in Seq(Sample), Pmcs!FifoInsert(s)
  PROVE  queue' \in Seq(Sample) /\ queue' # << >> /\ got' = got
<1>1. CASE Len(queue) < Capacity
  BY <1>1 DEF Pmcs!FifoInsert
<1>2. CASE ~(Len(queue) < Capacity)
  <2>1. Len(queue) # 0
    BY <1>2, SamplesBufferAssumption
  <2>2. Tail(queue) \in Seq(Sample)
    BY <2>1
  <2> QED
    BY <1>2, <2>2 DEF Pmcs!FifoInsert
<1> QED
  BY <1>1, <1>2

(* Removing a batch keeps both parts sequences of samples.                 *)
LEMMA TakeType ==
  ASSUME NEW n \in Nat, queue \in Seq(Sample), Pmcs!FifoTake(n)
  PROVE  queue' \in Seq(Sample) /\ got' \in Seq(Sample)
<1>1. n <= Len(queue)
  BY DEF Pmcs!FifoTake
<1>2. \A i \in 1 .. Len(queue) : queue[i] \in Sample
  OBVIOUS
<1>3. SubSeq(queue, 1, n) \in Seq(Sample)
  BY <1>1, <1>2
<1>4. SubSeq(queue, n + 1, Len(queue)) \in Seq(Sample)
  BY <1>1, <1>2
<1> QED
  BY <1>3, <1>4 DEF Pmcs!FifoTake

-----------------------------------------------------------------------------
LEMMA InitIInv == Init => IInv
<1> SUFFICES ASSUME Init PROVE IInv
  OBVIOUS
<1>1. TypeOK
  <2>1. queue \in Seq(Sample) /\ got \in Seq(Sample)
    BY DEF Init, Pmcs!FifoInit
  <2>2. monitor_waiting \in BOOLEAN
    BY Zenon DEF Init
  <2> QED
    BY <2>1, <2>2 DEF Init, TypeOK
<1>2. Holders = {}
  BY DEF Init, Holders
<1>3. RefsAreHolders
  BY <1>2, FS_EmptySet DEF Init, RefsAreHolders, RefsAddUp, LossesAreAccidents
<1>4. ForksAreOwned
  BY DEF Init, ForksAreOwned, Overtakes
<1> QED
  BY <1>1, <1>3, <1>4 DEF Init, IInv, EofIsFinal, WakeupPending, SemaphoreBudget

(* The wake-up protocol needs nothing of the references, so its three      *)
(* kinds of steps are treated apart from the counting.                     *)
LEMMA PushKeeps ==
  ASSUME NEW s \in Sample, IInv, Pmcs!FifoInsert(s), WakeUp, reader' = reader
  PROVE  /\ queue' \in Seq(Sample) /\ got' \in Seq(Sample)
         /\ monitor_waiting' \in BOOLEAN /\ sem_queue' \in Nat
         /\ WakeupPending' /\ SemaphoreBudget'
<1>1. queue' \in Seq(Sample) /\ queue' # << >> /\ got' \in Seq(Sample)
  BY InsertType DEF IInv, TypeOK
<1>2. monitor_waiting' \in BOOLEAN
  BY Zenon DEF WakeUp
<1>3. sem_queue' \in Nat
  BY DEF IInv, TypeOK, WakeUp
<1>4. WakeupPending'
  BY <1>1, <1>3 DEF IInv, TypeOK, WakeUp, WakeupPending
<1>5. SemaphoreBudget'
  BY DEF IInv, TypeOK, WakeUp, SemaphoreBudget
<1> QED
  BY <1>1, <1>2, <1>3, <1>4, <1>5

LEMMA NextIInv == IInv /\ [Next]_vars => IInv'
<1> SUFFICES ASSUME IInv, [Next]_vars PROVE IInv'
  OBVIOUS
<1> USE HoldersFinite
<1>1. ASSUME NEW t \in Task, Attach(t) PROVE IInv'
  <2>1. TypeOK'
    BY <1>1 DEF Attach, Get, IInv, TypeOK, forkVars
  <2>2. RefsAreHolders'
    <3>1. Cardinality(Holders') = Cardinality(Holders) + 1
      BY <1>1, HoldersGrow DEF Attach, IInv, HolderState
    <3> QED
      BY <1>1, <3>1, RefsMove, LossesStay
      DEF Attach, Get, IInv, RefsAreHolders, forkVars
  <2>3. ForksAreOwned'
    BY <1>1, ForksUndisturbed DEF Attach, IInv, forkVars
  <2> QED
    BY <1>1, <2>1, <2>2, <2>3
    DEF Attach, IInv, EofIsFinal, WakeupPending, SemaphoreBudget
<1>2. ASSUME NEW t \in Task, Detach(t) PROVE IInv'
  <2>1. t \in Holders
    BY <1>2 DEF Detach, Holders
  <2>2. Cardinality(Holders') = Cardinality(Holders) - 1 /\ Cardinality(Holders) # 0
    BY <1>2, <2>1, HoldersShrink DEF Detach, IInv
  <2>3. ref_counter' \in Nat
    BY <1>2, <2>2
    DEF Detach, Put, IInv, TypeOK, RefsAreHolders, RefsAddUp, LossesAreAccidents
  <2>4. TypeOK'
    BY <1>2, <2>3 DEF Detach, IInv, TypeOK
  <2>5. RefsAreHolders'
    BY <1>2, <2>2
    DEF Detach, Put, IInv, TypeOK, RefsAreHolders, RefsAddUp, LossesAreAccidents
  <2>6. ForksAreOwned'
    <3>1. \A r \in Task : forking[r] # r => forking[r] # t
      BY <1>2 DEF Detach, IInv, ForksAreOwned
    <3>2. \A r \in Task : forking[r] # r =>
            /\ task'[forking[r]] = task[forking[r]]
            /\ task'[r] = IF r = t THEN "free" ELSE task[r]
      BY <1>2, <3>1 DEF Detach, IInv, TypeOK
    <3> QED
      BY <1>2, <3>2 DEF Detach, IInv, TypeOK, ForksAreOwned, Overtakes
  <2> QED
    BY <1>2, <2>4, <2>5, <2>6
    DEF Detach, IInv, EofIsFinal, WakeupPending, SemaphoreBudget
<1>3. ASSUME NEW t \in Task, TakeSample(t) PROVE IInv'
  <2>1. <<t, "TICK">> \in Sample
    BY DEF Sample
  <2>2. /\ queue' \in Seq(Sample) /\ got' \in Seq(Sample)
        /\ monitor_waiting' \in BOOLEAN /\ sem_queue' \in Nat
        /\ WakeupPending' /\ SemaphoreBudget'
    BY <1>3, <2>1, PushKeeps DEF TakeSample, Push
  <2>3. TypeOK' /\ ForksAreOwned'
    BY <1>3, <2>2 DEF TakeSample, IInv, TypeOK, ForksAreOwned, Overtakes, forkVars
  <2>4. EofIsFinal'
    BY <1>3 DEF TakeSample, IInv, EofIsFinal, Holders, forkVars
  <2>5. RefsAreHolders'
    BY <1>3
    DEF TakeSample, IInv, RefsAreHolders, RefsAddUp, LossesAreAccidents, Holders,
        forkVars
  <2> QED
    BY <2>2, <2>3, <2>4, <2>5 DEF IInv
<1>4. ASSUME NEW t \in Task, AnnounceExit(t) PROVE IInv'
  <2>1. Holders' = Holders
    BY <1>4, HoldersStay DEF AnnounceExit, IInv, HolderState
  <2>2. RefsAreHolders'
    BY <1>4, <2>1
    DEF AnnounceExit, IInv, TypeOK, RefsAreHolders, RefsAddUp, LossesAreAccidents,
        forkVars
  <2>3. EofIsFinal'
    BY <1>4 DEF AnnounceExit, IInv, EofIsFinal, Holders, forkVars
  <2>4. task' \in [Task -> {"free", "tested", "got", "forked", "monitored", "bare",
                            "exiting", "gone", "kept", "wild"}]
    BY <1>4 DEF AnnounceExit, IInv, TypeOK
  <2>5. ForksAreOwned'
    BY <1>4, ForksUndisturbed DEF AnnounceExit, IInv, forkVars
  <2>6. CASE t \in EbsTask
    <3>1. monitor_waiting' \in BOOLEAN
      BY <1>4, <2>6, Zenon DEF AnnounceExit, WakeUp
    <3>2. TypeOK'
      BY <1>4, <2>4, <2>6, <3>1 DEF AnnounceExit, WakeUp, IInv, TypeOK, forkVars
    <3>3. WakeupPending' /\ SemaphoreBudget'
      BY <1>4, <2>6
      DEF AnnounceExit, WakeUp, IInv, TypeOK, WakeupPending, SemaphoreBudget
    <3> QED
      BY <2>2, <2>3, <2>5, <3>2, <3>3 DEF IInv
  <2>7. CASE t \notin EbsTask
    <3>1. <<t, "EXIT">> \in Sample
      BY DEF Sample
    <3>2. /\ queue' \in Seq(Sample) /\ got' \in Seq(Sample)
          /\ monitor_waiting' \in BOOLEAN /\ sem_queue' \in Nat
          /\ WakeupPending' /\ SemaphoreBudget'
      BY <1>4, <2>7, <3>1, PushKeeps DEF AnnounceExit, Push
    <3>3. TypeOK'
      BY <1>4, <2>4, <3>2 DEF AnnounceExit, IInv, TypeOK, forkVars
    <3> QED
      BY <2>2, <2>3, <2>5, <3>2, <3>3 DEF IInv
  <2> QED
    BY <2>6, <2>7
<1>5. ASSUME NEW t \in Task, DropReference(t) PROVE IInv'
  <2>1. t \in Holders
    BY <1>5 DEF DropReference, Holders
  <2>2. /\ Cardinality(Holders') = Cardinality(Holders) - 1
        /\ Cardinality(Holders) # 0
        /\ Holders' \subseteq Holders
    BY <1>5, <2>1, HoldersShrink DEF DropReference, IInv
  <2>3. RefsAreHolders' /\ ref_counter' \in Nat
    <3>1. RefsAddUp'
      BY <1>5, <2>2, RefsMove DEF DropReference, Put, IInv, RefsAreHolders, forkVars
    <3>2. LossesAreAccidents'
      BY <1>5, LossesStay DEF DropReference, IInv, RefsAreHolders, forkVars
    <3>3. ref_counter' \in Nat
      BY <1>5, <2>2 DEF DropReference, Put, IInv, TypeOK, RefsAreHolders, RefsAddUp
    <3> QED
      BY <3>1, <3>2, <3>3 DEF RefsAreHolders
  <2>4. TypeOK'
    BY <1>5, <2>3 DEF DropReference, IInv, TypeOK, forkVars
  <2>5. ForksAreOwned'
    <3>1. forking[t] = t
      BY <1>5 DEF DropReference, IInv, ForksAreOwned
    <3> QED
      BY <1>5, <3>1, ForksUndisturbed DEF DropReference, IInv, forkVars
  <2>6. EofIsFinal'
    BY <1>5, <2>2 DEF DropReference, IInv, EofIsFinal, forkVars
  <2> QED
    BY <1>5, <2>3, <2>4, <2>5, <2>6
    DEF DropReference, IInv, WakeupPending, SemaphoreBudget
<1>6. ASSUME NEW t \in Task, ExitUnmonitored(t) PROVE IInv'
  <2>1. Holders' = Holders
    BY <1>6, HoldersStay DEF ExitUnmonitored, IInv, HolderState
  <2>2. ForksAreOwned'
    BY <1>6, ForksUndisturbed DEF ExitUnmonitored, IInv, forkVars
  <2>3. TypeOK' /\ RefsAreHolders'
    BY <1>6, <2>1
    DEF ExitUnmonitored, IInv, TypeOK, RefsAreHolders, RefsAddUp,
        LossesAreAccidents, forkVars
  <2> QED
    BY <1>6, <2>1, <2>2, <2>3
    DEF ExitUnmonitored, IInv, EofIsFinal, WakeupPending, SemaphoreBudget, forkVars
<1>7. ASSUME NEW t \in Task, AttachExited(t) \/ Reaped(t) \/ DetachOther(t) PROVE IInv'
  <2>1. forking[t] = t
    BY <1>7 DEF AttachExited, Reaped, DetachOther, IInv, ForksAreOwned
  <2>2. CASE AttachExited(t)
    <3>1. Cardinality(Holders') = Cardinality(Holders) + 1
      BY <2>2, HoldersGrow DEF AttachExited, IInv, HolderState
    <3>2. TypeOK' /\ RefsAreHolders'
      <4>1. RefsAddUp'
        BY <2>2, <3>1, RefsMove DEF AttachExited, Get, IInv, RefsAreHolders
      <4>2. LossesAreAccidents'
        BY <2>2 DEF AttachExited, LossesAreAccidents
      <4> QED
        BY <2>2, <4>1, <4>2 DEF AttachExited, Get, IInv, TypeOK, RefsAreHolders
    <3>3. ForksAreOwned'
      BY <2>1, <2>2, ForksUndisturbed DEF AttachExited, IInv
    <3> QED
      BY <2>2, <3>2, <3>3
      DEF AttachExited, IInv, EofIsFinal, WakeupPending, SemaphoreBudget
  <2>3. CASE Reaped(t)
    <3>1. t \in Holders
      BY <2>3 DEF Reaped, Holders
    <3>2. /\ Cardinality(Holders') = Cardinality(Holders) - 1
          /\ Holders' \subseteq Holders
      BY <2>3, <3>1, HoldersShrink DEF Reaped, IInv
    <3>3. accidents # {}
      BY <2>3 DEF Reaped, IInv, RefsAreHolders, RefsAddUp, LossesAreAccidents
    <3>4. TypeOK' /\ RefsAreHolders'
      <4>1. RefsAddUp'
        BY <2>3, <3>2 DEF Reaped, IInv, TypeOK, RefsAreHolders, RefsAddUp
      <4>2. LossesAreAccidents'
        BY <2>3, <3>3 DEF Reaped, LossesAreAccidents
      <4> QED
        BY <2>3, <4>1, <4>2 DEF Reaped, IInv, TypeOK, RefsAreHolders
    <3>5. ForksAreOwned'
      BY <2>1, <2>3, ForksUndisturbed DEF Reaped, IInv
    <3> QED
      BY <2>3, <3>2, <3>4, <3>5
      DEF Reaped, IInv, EofIsFinal, WakeupPending, SemaphoreBudget
  <2>4. CASE DetachOther(t) /\ task[t] = "bare"
    <3>1. Holders' = Holders
      BY <2>4, HoldersStay DEF DetachOther, IInv, HolderState
    <3>2. TypeOK' /\ RefsAreHolders'
      BY <2>4, <3>1
      DEF DetachOther, IInv, TypeOK, RefsAreHolders, RefsAddUp, LossesAreAccidents,
          forkVars
    <3>3. ForksAreOwned'
      BY <2>1, <2>4, ForksUndisturbed DEF DetachOther, IInv, forkVars
    <3> QED
      BY <2>4, <3>2, <3>3
      DEF DetachOther, IInv, EofIsFinal, WakeupPending, SemaphoreBudget
  <2>5. CASE DetachOther(t) /\ task[t] = "kept"
    <3>1. t \in Holders
      BY <2>5 DEF Holders
    <3>2. Cardinality(Holders') = Cardinality(Holders) - 1 /\ Cardinality(Holders) # 0
      BY <2>5, <3>1, HoldersShrink DEF DetachOther, IInv
    <3>3. TypeOK' /\ RefsAreHolders'
      BY <2>5, <3>2
      DEF DetachOther, Put, IInv, TypeOK, RefsAreHolders, RefsAddUp,
          LossesAreAccidents, forkVars
    <3>4. ForksAreOwned'
      BY <2>1, <2>5, ForksUndisturbed DEF DetachOther, IInv, forkVars
    <3> QED
      BY <2>5, <3>3, <3>4
      DEF DetachOther, IInv, EofIsFinal, WakeupPending, SemaphoreBudget
  <2> QED
    BY <1>7, <2>2, <2>3, <2>4, <2>5 DEF DetachOther
<1>8. ASSUME NEW t \in Task, NEW u \in Task, ForkTests(t, u) PROVE IInv'
  <2>1. Holders' = Holders
    BY <1>8, HoldersStay DEF ForkTests, IInv, HolderState
  <2>2. TypeOK' /\ RefsAreHolders'
    BY <1>8, <2>1
    DEF ForkTests, IInv, TypeOK, RefsAreHolders, RefsAddUp, LossesAreAccidents
  <2>3. ForksAreOwned'
    <3>1. t # u /\ \A r \in Task : forking[r] # r => forking[r] # u /\ r # u
      BY <1>8 DEF ForkTests, IInv, ForksAreOwned
    <3>2. \A r \in Task : r # t /\ forking[r] # r =>
            /\ forking'[r] = forking[r] /\ task'[r] = task[r]
            /\ task'[forking[r]] = task[forking[r]]
      BY <1>8, <3>1 DEF ForkTests, IInv, TypeOK
    <3>3. /\ forking'[t] = u /\ task'[u] = "tested" /\ task'[t] = "monitored"
          /\ \A r \in Task : r # t => forking'[r] = forking[r]
      BY <1>8, <3>1 DEF ForkTests, IInv, TypeOK
    <3> QED
      BY <1>8, <3>1, <3>2, <3>3
      DEF ForkTests, IInv, TypeOK, ForksAreOwned, Overtakes
  <2> QED
    BY <1>8, <2>1, <2>2, <2>3
    DEF ForkTests, IInv, EofIsFinal, WakeupPending, SemaphoreBudget
<1>9. ASSUME NEW t \in Task, ForkGets(t) PROVE IInv'
  <2> DEFINE u == forking[t]
  <2>1. /\ u \in Task /\ u # t /\ task[u] = "tested" /\ u \notin Holders
        /\ queue' = queue /\ got' = got /\ monitor_waiting' = monitor_waiting
        /\ sem_queue' = sem_queue /\ reader' = reader /\ leaked' = leaked
        /\ accidents' = accidents
    BY <1>9 DEF ForkGets, IInv, TypeOK, Holders
  <2>2. EofIsFinal'
    <3>1. CASE "overtaken" \notin accidents
      <4>1. t \in Holders
        BY <2>1, <3>1 DEF IInv, ForksAreOwned, Overtakes, Holders
      <4> QED
        BY <2>1, <3>1, <4>1 DEF IInv, EofIsFinal
    <3>2. CASE "overtaken" \in accidents
      BY <2>1, <3>2 DEF EofIsFinal
    <3> QED
      BY <3>1, <3>2
  <2>3. WakeupPending' /\ SemaphoreBudget'
    BY <2>1 DEF IInv, WakeupPending, SemaphoreBudget
  <2>4. ASSUME NEW s \in {"got", "wild"}, task' = [task EXCEPT ![u] = s], forking' = forking
        PROVE  ForksAreOwned'
    <3>1. \A r \in Task : forking[r] # r => r # u
      BY <2>1 DEF IInv, ForksAreOwned
    <3>2. \A r \in Task : forking[r] # r =>
            /\ task'[r] = task[r]
            /\ task'[forking[r]] \in {task[forking[r]], "got", "wild"}
            /\ task'[forking[r]] \in {"tested", "got"} => Overtakes(r)
      BY <2>1, <2>4, <3>1 DEF IInv, TypeOK, ForksAreOwned, Overtakes
    <3> QED
      BY <2>1, <2>4, <3>2 DEF IInv, ForksAreOwned, Overtakes
  <2>5. CASE ref_counter > 0 /\ Get /\ task' = [task EXCEPT ![u] = "got"] /\ forking' = forking
    <3>1. Cardinality(Holders') = Cardinality(Holders) + 1
      BY <2>1, <2>5, HoldersGrow DEF IInv, HolderState
    <3>2. TypeOK' /\ RefsAreHolders'
      <4>1. RefsAddUp'
        BY <2>1, <2>5, <3>1, RefsMove DEF Get, IInv, RefsAreHolders
      <4>2. LossesAreAccidents'
        BY <2>1, <2>5, LossesStay DEF IInv, RefsAreHolders
      <4> QED
        BY <2>1, <2>5, <4>1, <4>2 DEF Get, IInv, TypeOK, RefsAreHolders
    <3> QED
      BY <2>2, <2>3, <2>4, <2>5, <3>2 DEF IInv
  <2>6. CASE /\ ~(ref_counter > 0) /\ task' = [task EXCEPT ![u] = "wild"]
             /\ UNCHANGED <<ref_counter, forking>>
    <3>1. Holders' = Holders
      BY <2>1, <2>6, HoldersStay DEF IInv, HolderState
    <3>2. accidents # {}
      <4>1. CASE t \in Holders
        <5>1. Cardinality(Holders) # 0
          BY <4>1, FS_EmptySet
        <5> QED
          BY <2>6, <5>1
          DEF IInv, TypeOK, RefsAreHolders, RefsAddUp, LossesAreAccidents
      <4>2. CASE t \notin Holders
        BY <2>1, <4>2 DEF IInv, ForksAreOwned, Overtakes, Holders
      <4> QED
        BY <4>1, <4>2
    <3>3. TypeOK' /\ RefsAreHolders'
      BY <2>1, <2>6, <3>1, <3>2
      DEF IInv, TypeOK, RefsAreHolders, RefsAddUp, LossesAreAccidents
    <3> QED
      BY <2>2, <2>3, <2>4, <2>6, <3>3 DEF IInv
  <2>7. CASE /\ task[t] = "free" /\ task' = [task EXCEPT ![u] = "gone", ![t] = "gone"]
             /\ forking' = [forking EXCEPT ![t] = t] /\ UNCHANGED ref_counter
    <3>1. Holders' = Holders
      BY <2>1, <2>7 DEF IInv, TypeOK, Holders
    <3>2. TypeOK' /\ RefsAreHolders'
      BY <2>1, <2>7, <3>1
      DEF IInv, TypeOK, RefsAreHolders, RefsAddUp, LossesAreAccidents
    <3>3. ForksAreOwned'
      BY <2>1, <2>7, ForkReleased DEF IInv
    <3> QED
      BY <2>2, <2>3, <3>2, <3>3 DEF IInv
  <2> QED
    BY <1>9, <2>5, <2>6, <2>7 DEF ForkGets
<1>10. ASSUME NEW t \in Task, ForkAssigns(t) PROVE IInv'
  <2> DEFINE u == forking[t]
  <2>1. /\ u \in Task /\ u # t /\ task[u] = "got" /\ u \in Holders
        /\ queue' = queue /\ got' = got /\ ref_counter' = ref_counter
        /\ monitor_waiting' = monitor_waiting /\ sem_queue' = sem_queue
        /\ reader' = reader /\ accidents' = accidents
    BY <1>10 DEF ForkAssigns, IInv, TypeOK, Holders
  <2>2. EofIsFinal' /\ WakeupPending' /\ SemaphoreBudget'
    BY <2>1 DEF IInv, EofIsFinal, WakeupPending, SemaphoreBudget
  <2>3. CASE task' = [task EXCEPT ![u] = "forked"] /\ UNCHANGED <<forking, leaked>>
    <3>1. Holders' = Holders
      BY <2>1, <2>3, HoldersStay DEF IInv, HolderState
    <3>2. TypeOK' /\ RefsAreHolders'
      BY <2>1, <2>3, <3>1
      DEF IInv, TypeOK, RefsAreHolders, RefsAddUp, LossesAreAccidents
    <3>3. \A r \in Task : forking[r] # r => r # u
      BY <2>1 DEF IInv, ForksAreOwned
    <3>4. \A r \in Task : forking[r] # r =>
            /\ task'[r] = task[r]
            /\ task'[forking[r]] \in {task[forking[r]], "forked"}
            /\ task'[forking[r]] \in {"tested", "got"} => Overtakes(r)
      BY <2>1, <2>3, <3>3 DEF IInv, TypeOK, ForksAreOwned, Overtakes
    <3>5. ForksAreOwned'
      BY <2>1, <2>3, <3>4 DEF IInv, ForksAreOwned, Overtakes
    <3> QED
      BY <2>2, <3>2, <3>5 DEF IInv
  <2>4. CASE /\ task[t] = "free" /\ leaked' = leaked + 1
             /\ task' = [task EXCEPT ![u] = "bare"] /\ forking' = [forking EXCEPT ![t] = t]
    <3>1. Holders' = Holders \ {u}
      BY <2>1, <2>4 DEF IInv, TypeOK, Holders
    <3>2. Cardinality(Holders') = Cardinality(Holders) - 1
      BY <2>1, <3>1, FS_RemoveElement
    <3>3. accidents # {}
      BY <2>1, <2>4 DEF IInv, ForksAreOwned, Overtakes
    <3>4. TypeOK' /\ RefsAreHolders'
      <4>1. RefsAddUp'
        <5>1. ref_counter' = ref_counter /\ reader' = reader /\ leaked' = leaked + 1
          BY <2>1, <2>4
        <5>2. ref_counter \in Nat /\ leaked \in Nat /\ RefsAddUp
          BY DEF IInv, TypeOK, RefsAreHolders
        <5> QED
          BY <3>2, <5>1, <5>2 DEF RefsAddUp
      <4>2. LossesAreAccidents'
        BY <2>1, <3>3 DEF LossesAreAccidents
      <4> QED
        BY <2>1, <2>4, <4>1, <4>2 DEF IInv, TypeOK, RefsAreHolders
    <3>5. task' = [task EXCEPT ![u] = "bare", ![t] = task[t]]
      BY <2>1, <2>4 DEF IInv, TypeOK
    <3>6. ForksAreOwned'
      BY <2>1, <2>4, <3>5, ForkReleased DEF IInv
    <3> QED
      BY <2>2, <3>4, <3>6 DEF IInv
  <2> QED
    BY <1>10, <2>3, <2>4 DEF ForkAssigns
<1>11. ASSUME NEW t \in Task, ForkEnds(t) PROVE IInv'
  <2> DEFINE u == forking[t]
  <2>1. /\ u \in Task /\ u # t /\ task[u] = "forked" /\ u \in Holders
        /\ queue' = queue /\ got' = got /\ leaked' = leaked
        /\ monitor_waiting' = monitor_waiting /\ sem_queue' = sem_queue
        /\ reader' = reader /\ accidents' = accidents
        /\ forking' = [forking EXCEPT ![t] = t]
    BY <1>11 DEF ForkEnds, IInv, TypeOK, Holders
  <2>2. EofIsFinal' /\ WakeupPending' /\ SemaphoreBudget'
    BY <2>1 DEF IInv, EofIsFinal, WakeupPending, SemaphoreBudget
  <2>3. ASSUME NEW s, task' = [task EXCEPT ![u] = s] PROVE ForksAreOwned'
    <3>1. task' = [task EXCEPT ![u] = s, ![t] = task[t]]
      BY <2>1, <2>3 DEF IInv, TypeOK
    <3> QED
      BY <2>1, <3>1, ForkReleased DEF IInv
  <2>4. CASE task' = [task EXCEPT ![u] = "monitored"] /\ UNCHANGED ref_counter
    <3>1. Holders' = Holders
      BY <2>1, <2>4, HoldersStay DEF IInv, HolderState
    <3>2. TypeOK' /\ RefsAreHolders'
      BY <2>1, <2>4, <3>1
      DEF IInv, TypeOK, RefsAreHolders, RefsAddUp, LossesAreAccidents
    <3> QED
      BY <2>2, <2>3, <2>4, <3>2 DEF IInv
  <2>5. CASE task' = [task EXCEPT ![u] = "free"] /\ Put
    <3>1. Cardinality(Holders') = Cardinality(Holders) - 1 /\ Cardinality(Holders) # 0
      BY <2>1, <2>5, HoldersShrink DEF IInv
    <3>2. TypeOK' /\ RefsAreHolders'
      <4>1. RefsAddUp'
        BY <2>1, <2>5, <3>1, RefsMove DEF Put, IInv, RefsAreHolders
      <4>2. LossesAreAccidents'
        BY <2>1, <2>5, LossesStay DEF IInv, RefsAreHolders
      <4>3. ref_counter' \in Nat
        BY <2>5, <3>1 DEF Put, IInv, TypeOK, RefsAreHolders, RefsAddUp
      <4> QED
        BY <2>1, <2>5, <4>1, <4>2, <4>3 DEF IInv, TypeOK, RefsAreHolders
    <3> QED
      BY <2>2, <2>3, <2>5, <3>2 DEF IInv
  <2> QED
    BY <1>11, <2>4, <2>5 DEF ForkEnds
<1>12. ASSUME UNCHANGED <<task, forkVars>> 
       PROVE Holders' = Holders /\ ForksAreOwned' /\ LossesAreAccidents'
  BY <1>12
  DEF IInv, Holders, ForksAreOwned, Overtakes, RefsAreHolders, LossesAreAccidents,
              forkVars
<1>13. ASSUME ReadEof PROVE IInv'
  <2>1. Cardinality(Holders) = 0
    BY <1>13 DEF ReadEof, Reading, AtEof, IInv, TypeOK, RefsAreHolders, RefsAddUp
  <2>2. Holders = {}
    BY <2>1, FS_EmptySet
  <2>3. Holders' = Holders /\ ForksAreOwned' /\ LossesAreAccidents'
    BY <1>12, <1>13 DEF ReadEof
  <2>4. TypeOK' /\ RefsAreHolders'
    BY <1>13, <2>3
    DEF ReadEof, Reading, IInv, TypeOK, RefsAreHolders, RefsAddUp, forkVars
  <2>5. EofIsFinal'
    BY <1>13, <2>2, <2>3 DEF ReadEof, AtEof, EofIsFinal
  <2> QED
    BY <1>13, <2>3, <2>4, <2>5
    DEF ReadEof, Reading, IInv, WakeupPending, SemaphoreBudget
<1>14. ASSUME ReadWait PROVE IInv'
  <2>1. Holders' = Holders /\ ForksAreOwned' /\ LossesAreAccidents'
    BY <1>12, <1>14 DEF ReadWait
  <2> QED
    BY <1>14, <2>1
    DEF ReadWait, FlagWaiting, Reading, IInv, TypeOK, RefsAreHolders, RefsAddUp,
                       EofIsFinal, WakeupPending, SemaphoreBudget, forkVars
<1>15. ASSUME NEW n \in 1 .. Capacity, ReadBatch(n) PROVE IInv'
  <2>1. Holders' = Holders /\ ForksAreOwned' /\ LossesAreAccidents'
    BY <1>12, <1>15 DEF ReadBatch
  <2>2. queue' \in Seq(Sample) /\ got' \in Seq(Sample)
    <3>1. (IF n > Len(queue) THEN Len(queue) ELSE n) \in Nat
      BY DEF IInv, TypeOK
    <3> QED
      BY <1>15, <3>1, TakeType DEF ReadBatch, IInv, TypeOK
  <2> QED
    BY <1>15, <2>1, <2>2
    DEF ReadBatch, Reading, IInv, TypeOK, RefsAreHolders, RefsAddUp,
                             EofIsFinal, WakeupPending, SemaphoreBudget, forkVars
<1>16. ASSUME Down \/ Signal \/ ReadInterrupted \/ ReturnToUser PROVE IInv'
  <2>1. Holders' = Holders /\ ForksAreOwned' /\ LossesAreAccidents'
    BY <1>12, <1>16 DEF Down, Signal, ReadInterrupted, ReturnToUser
  <2>2. CASE Down \/ Signal \/ ReturnToUser
    <3>1. /\ UNCHANGED <<queue, got, ref_counter, monitor_waiting, task>>
          /\ UNCHANGED <<forking, leaked, accidents>>
          /\ reader' # "eof" /\ (reader = "gone" <=> reader' = "gone")
      BY <2>2 DEF Down, Signal, ReturnToUser, forkVars
    <3>2. TypeOK'
      BY <2>2, <3>1 DEF Down, Signal, ReturnToUser, IInv, TypeOK
    <3>3. RefsAddUp'
      BY <2>1, <3>1 DEF IInv, RefsAreHolders, RefsAddUp
    <3>4. WakeupPending' /\ SemaphoreBudget'
      BY <2>2, <3>1 DEF Down, Signal, ReturnToUser, IInv, TypeOK, WakeupPending,
                        SemaphoreBudget
    <3> QED
      BY <2>1, <3>1, <3>2, <3>3, <3>4 DEF IInv, RefsAreHolders, EofIsFinal
  <2>3. CASE ReadInterrupted
    <3>1. monitor_waiting' \in BOOLEAN
      BY <2>3, Zenon DEF ReadInterrupted
    <3> QED
      BY <2>1, <2>3, <3>1
      DEF ReadInterrupted, IInv, TypeOK, RefsAreHolders, RefsAddUp,
                              EofIsFinal, WakeupPending, SemaphoreBudget, forkVars
  <2> QED
    BY <1>16, <2>2, <2>3
<1>17. ASSUME MonitorExit PROVE IInv'
  <2>1. Holders' = Holders /\ ForksAreOwned' /\ LossesAreAccidents'
    BY <1>12, <1>17 DEF MonitorExit
  <2>2. TypeOK' /\ RefsAreHolders'
    BY <1>17, <2>1
    DEF MonitorExit, Put, IInv, TypeOK, RefsAreHolders, RefsAddUp, forkVars
  <2> QED
    BY <1>17, <2>1, <2>2
    DEF MonitorExit, IInv, EofIsFinal, WakeupPending, SemaphoreBudget
<1>18. ASSUME UNCHANGED vars PROVE IInv'
  <2>1. Holders' = Holders /\ ForksAreOwned' /\ LossesAreAccidents'
    BY <1>12, <1>18 DEF vars
  <2> QED
    BY <1>18, <2>1 DEF vars, IInv, TypeOK, RefsAreHolders, RefsAddUp, EofIsFinal,
                       WakeupPending, SemaphoreBudget, forkVars
<1> QED
  BY <1>1, <1>2, <1>3, <1>4, <1>5, <1>6, <1>7, <1>8, <1>9, <1>10, <1>11, <1>13,
     <1>14, <1>15, <1>16, <1>17, <1>18 DEF Next, MonitorStep, TaskStep

-----------------------------------------------------------------------------
(* The strengthened invariant holds throughout.                            *)
THEOREM BufferInvariance == Spec => []IInv
BY InitIInv, NextIInv, PTL DEF Spec

(* Every variable keeps its type; in particular the reference counter of   *)
(* the buffer never goes below 0, whatever the order of exits and detaches.*)
THEOREM BufferTypeCorrect == Spec => []TypeOK
<1>1. IInv => TypeOK
  BY DEF IInv
<1> QED
  BY <1>1, BufferInvariance, PTL

(* put_pmc_samples_buffer frees the buffer when, and only when, neither    *)
(* the monitor nor any monitored thread can reach it, and no reference has *)
(* been lost; and a reference is lost, or a freed buffer used, only after a*)
(* detach overtook a fork or an exited thread was attached.                *)
THEOREM BufferOutlivesHolders == Spec => []RefsAreHolders
<1>1. IInv => RefsAreHolders
  BY DEF IInv
<1> QED
  BY <1>1, BufferInvariance, PTL

(* An end of file is never premature: no sample is left in the buffer and  *)
(* no thread can store one, unless a detach overtook a fork.               *)
THEOREM EofNeverPremature == Spec => []EofIsFinal
<1>1. IInv => EofIsFinal
  BY DEF IInv
<1> QED
  BY <1>1, BufferInvariance, PTL

(* A reader that waits while the buffer has samples has a wake-up pending, *)
(* even after reads that signals interrupted half way.                     *)
THEOREM NoLostWakeup == Spec => []WakeupPending
<1>1. IInv => WakeupPending
  BY DEF IInv
<1> QED
  BY <1>1, BufferInvariance, PTL

(* The semaphore of the buffer never counts more than two wake-ups, for    *)
(* any number of interrupted reads.                                        *)
THEOREM SemaphoreNeverPilesUp == Spec => []SemaphoreBounded
<1>1. IInv => SemaphoreBounded
  BY DEF IInv, TypeOK, SemaphoreBudget, SemaphoreBounded
<1> QED
  BY <1>1, BufferInvariance, PTL
=============================================================================
