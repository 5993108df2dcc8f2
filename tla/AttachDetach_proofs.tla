---------------------------- MODULE AttachDetach_proofs ----------------------------
(***********************************************************************************)
(* Whatever the number of monitors and however their calls overlap, the target     *)
(* never holds a buffer that has been freed, and never mixes the experiments of    *)
(* one monitor with the buffer of another.                                         *)
(* The first needs a stronger fact: the references cover the holders (there may be *)
(* more, since a reference can leak, but never fewer).  While calls do not overlap  *)
(* the references are exactly the holders and the one that a target attached after *)
(* its exit takes along, and no monitor that lives loses its target.               *)
(***********************************************************************************)
EXTENDS AttachDetach, FiniteSetTheorems, TLAPS

\* Every holder of a buffer, its monitor and the target, has a reference to it.
RefsCover ==
    \A m \in Monitor :
        /\ m \in living => refs[m] >= 1
        /\ buffer = m => refs[m] >= 1
        /\ m \in living /\ buffer = m => refs[m] >= 2

IInv ==
    /\ AttachTypeOK
    /\ RefsCover
    /\ SessionIsConsistent

\* The type invariant and the rest of IInv hold initially.
LEMMA InitIInv == AttachInit => IInv
  <1> SUFFICES ASSUME AttachInit PROVE IInv
    OBVIOUS
  <1> USE AttachAssumption
  <1>1. enabled \in BOOLEAN /\ armed \in BOOLEAN
    BY DEF AttachInit
  <1>0. overlap \in BOOLEAN /\ late \in BOOLEAN
    BY DEF AttachInit
  <1>2. AttachTypeOK
    BY <1>0, <1>1 DEF AttachInit, AttachTypeOK
  <1>3. RefsCover
    BY DEF AttachInit, RefsCover
  <1>4. SessionIsConsistent
    BY DEF AttachInit, SessionIsConsistent
  <1> QED  BY <1>2, <1>3, <1>4 DEF IInv

\* Giving up the buffer of the target: the reference it had is put.
LEMMA PutKeepsCover ==
    ASSUME IInv, refs' = put_pmc_samples_buffer(refs, buffer),
           buffer' = None, living' = living
    PROVE  refs' \in [Monitor -> Nat] /\ RefsCover'
  <1> USE AttachAssumption
  <1>1. CASE buffer = None
    BY <1>1 DEF IInv, AttachTypeOK, RefsCover, put_pmc_samples_buffer
  <1>2. CASE buffer # None
    <2>1. buffer \in Monitor /\ refs[buffer] >= 1 /\ refs \in [Monitor -> Nat]
      BY <1>2 DEF IInv, AttachTypeOK, RefsCover
    <2>2. refs' = [refs EXCEPT ![buffer] = refs[buffer] - 1]
      BY <1>2 DEF put_pmc_samples_buffer
    <2>3. \A m \in Monitor : refs'[m] = IF m = buffer THEN refs[m] - 1 ELSE refs[m]
      BY <2>1, <2>2
    <2>4. refs' \in [Monitor -> Nat]
      BY <2>1, <2>2
    <2>5. RefsCover'
      <3> SUFFICES ASSUME NEW m \in Monitor, m \in living
                   PROVE  refs'[m] >= 1
        BY DEF RefsCover
      <3>1. refs[m] \in Nat /\ refs[m] >= 1 /\ (buffer = m => refs[m] >= 2)
        BY <2>1 DEF IInv, RefsCover
      <3> QED  BY <2>3, <3>1
    <2> QED  BY <2>4, <2>5
  <1> QED  BY <1>1, <1>2

\* Detaching, by the monitor or by force, keeps the invariant.
LEMMA DisableKeeps ==
    ASSUME IInv, TargetDisabled, target' = target, living' = living,
           armed' \in BOOLEAN, overlap' \in BOOLEAN, late' \in BOOLEAN,
           pc' \in [Monitor -> {"idle", "setup", "force", "force_disable", "disable"}]
    PROVE  IInv'
  <1>1. refs' \in [Monitor -> Nat] /\ RefsCover'
    BY PutKeepsCover DEF TargetDisabled
  <1>2. AttachTypeOK'
    BY <1>1 DEF AttachTypeOK, IInv, TargetDisabled
  <1>3. SessionIsConsistent'
    BY DEF SessionIsConsistent, TargetDisabled
  <1> QED  BY <1>1, <1>2, <1>3 DEF IInv

LEMMA NextIInv == IInv /\ [AttachNext]_attachVars => IInv'
  <1> SUFFICES ASSUME IInv, [AttachNext]_attachVars PROVE IInv'
    OBVIOUS
  <1> USE AttachAssumption
  <1>0. overlap' \in BOOLEAN /\ late' \in BOOLEAN
    <2>1. overlap' = overlap
      BY DEF AttachNext, attachVars, TargetExits, mod_free_per_thread_data, tbs_mode_fire_timer,
             AttachCheck, ForceCheck, ForceDisable, SetUp, DetachCheck, Disable,
             CallFails, MonitorExits
    <2>2. late' = late \/ late' = (late \/ target = "exited")
      BY DEF AttachNext, attachVars, TargetExits, mod_free_per_thread_data, tbs_mode_fire_timer,
             AttachCheck, ForceCheck, ForceDisable, SetUp, DetachCheck, Disable,
             CallFails, MonitorExits
    <2>3. (late \/ target = "exited") \in BOOLEAN /\ late \in BOOLEAN
      BY DEF IInv, AttachTypeOK
    <2> QED  BY <2>1, <2>2, <2>3, Zenon DEF IInv, AttachTypeOK
  <1>1. CASE UNCHANGED attachVars
    BY <1>0, <1>1 DEF attachVars, IInv, AttachTypeOK, RefsCover, SessionIsConsistent
  <1>2. CASE TargetExits
    <2>1. refs' \in [Monitor -> Nat] /\ RefsCover'
      BY <1>2, PutKeepsCover DEF TargetExits
    <2>2. armed' \in BOOLEAN /\ target' = "exited" /\ buffer' = None
      BY <1>2 DEF TargetExits
    <2>3. UNCHANGED <<enabled, pid_monitor, config, living, pc>>
      BY <1>2 DEF TargetExits
    <2> QED
      BY <1>0, <2>1, <2>2, <2>3
      DEF IInv, AttachTypeOK, SessionIsConsistent
  <1>3. CASE mod_free_per_thread_data
    BY <1>0, <1>3
    DEF mod_free_per_thread_data, IInv, AttachTypeOK, RefsCover, SessionIsConsistent
  <1>4. CASE tbs_mode_fire_timer
    <2>1. armed' \in BOOLEAN
      BY <1>4 DEF tbs_mode_fire_timer
    <2> QED
      BY <1>0, <1>4, <2>1
      DEF tbs_mode_fire_timer, IInv, AttachTypeOK, RefsCover,
          SessionIsConsistent
  <1>5. ASSUME NEW m \in Monitor,
               \/ AttachCheck(m) \/ ForceCheck(m) \/ ForceDisable(m) \/ SetUp(m)
               \/ DetachCheck(m) \/ Disable(m) \/ CallFails(m) \/ MonitorExits(m)
        PROVE  IInv'
    <2>1. CASE AttachCheck(m) \/ ForceCheck(m) \/ DetachCheck(m) \/ CallFails(m)
      <3>1. UNCHANGED <<target, enabled, pid_monitor, buffer, config, armed, refs, living>>
        BY <2>1 DEF AttachCheck, ForceCheck, DetachCheck, CallFails, profile
      <3>2. PICK l \in {"idle", "setup", "force", "force_disable", "disable"} : Goto(m, l)
        BY <2>1 DEF AttachCheck, ForceCheck, DetachCheck, CallFails
      <3>3. pc' \in [Monitor -> {"idle", "setup", "force", "force_disable", "disable"}]
        BY <3>2 DEF Goto, IInv, AttachTypeOK
      <3> QED
        BY <1>0, <3>1, <3>3
        DEF IInv, AttachTypeOK, RefsCover, SessionIsConsistent
    <2>2. CASE ForceDisable(m)
      <3>1. /\ pc' \in [Monitor -> {"idle", "setup", "force", "force_disable", "disable"}]
            /\ armed' \in BOOLEAN
        BY <2>2 DEF ForceDisable, Goto, IInv, AttachTypeOK
      <3> QED  BY <1>0, <2>2, <3>1, DisableKeeps DEF ForceDisable
    <2>3. CASE Disable(m)
      <3>1. pc' \in [Monitor -> {"idle", "setup", "force", "force_disable", "disable"}]
        BY <2>3 DEF Disable, Goto, IInv, AttachTypeOK
      <3>2. armed' \in BOOLEAN
        BY <2>3 DEF Disable
      <3> QED  BY <1>0, <2>3, <3>1, <3>2, DisableKeeps DEF Disable
    <2>4. CASE SetUp(m)
      <3>1. refs' = [refs EXCEPT ![m] = refs[m] + 1] /\ refs \in [Monitor -> Nat]
        BY <2>4 DEF SetUp, TargetSetUp, get_pmc_samples_buffer, IInv, AttachTypeOK
      <3>2. \A q \in Monitor : refs'[q] = IF q = m THEN refs[q] + 1 ELSE refs[q]
        BY <3>1
      <3>3. refs' \in [Monitor -> Nat]
        BY <3>1
      <3>4. buffer' = m /\ config' = m /\ pid_monitor' = m /\ living' = living
            /\ target' = target
        BY <2>4 DEF SetUp, TargetSetUp
      <3>5. enabled' \in BOOLEAN /\ armed' \in BOOLEAN
        BY <2>4 DEF SetUp, TargetSetUp
      <3>6. pc' \in [Monitor -> {"idle", "setup", "force", "force_disable", "disable"}]
        BY <2>4 DEF SetUp, Goto, IInv, AttachTypeOK
      <3>7. AttachTypeOK'
        BY <1>0, <3>3, <3>4, <3>5, <3>6 DEF AttachTypeOK, IInv
      <3>8. RefsCover'
        <4> SUFFICES ASSUME NEW q \in Monitor
                     PROVE  /\ q \in living => refs'[q] >= 1
                            /\ q = m => refs'[q] >= 1
                            /\ q \in living /\ q = m => refs'[q] >= 2
          BY <3>4 DEF RefsCover
        <4>1. refs[q] \in Nat /\ (q \in living => refs[q] >= 1)
          BY <3>1 DEF IInv, RefsCover
        <4> QED  BY <3>2, <4>1
      <3>9. SessionIsConsistent'
        BY <3>4 DEF SessionIsConsistent
      <3> QED  BY <3>7, <3>8, <3>9 DEF IInv
    <2>5. CASE MonitorExits(m)
      <3>1. refs' = [refs EXCEPT ![m] = refs[m] - 1] /\ refs \in [Monitor -> Nat]
            /\ refs[m] >= 1
        BY <2>5
        DEF MonitorExits, put_pmc_samples_buffer, IInv, AttachTypeOK, RefsCover
      <3>2. \A q \in Monitor : refs'[q] = IF q = m THEN refs[q] - 1 ELSE refs[q]
        BY <3>1
      <3>3. refs' \in [Monitor -> Nat]
        BY <3>1
      <3>4. living' = living \ {m} /\ m \in living
            /\ UNCHANGED <<target, enabled, pid_monitor, buffer, config, armed, pc>>
        BY <2>5 DEF MonitorExits
      <3>5. AttachTypeOK'
        BY <1>0, <3>3, <3>4 DEF AttachTypeOK, IInv
      <3>6. RefsCover'
        <4> SUFFICES ASSUME NEW q \in Monitor
                     PROVE  /\ q \in living' => refs'[q] >= 1
                            /\ buffer = q => refs'[q] >= 1
                            /\ q \in living' /\ buffer = q => refs'[q] >= 2
          BY <3>4 DEF RefsCover
        <4>1. /\ refs[q] \in Nat
              /\ q \in living => refs[q] >= 1
              /\ buffer = q => refs[q] >= 1
              /\ q \in living /\ buffer = q => refs[q] >= 2
          BY <3>1 DEF IInv, RefsCover
        <4>2. CASE q = m
          BY <3>2, <3>4, <4>1, <4>2
        <4>3. CASE q # m
          BY <3>2, <3>4, <4>1, <4>3
        <4> QED  BY <4>2, <4>3
      <3>7. SessionIsConsistent'
        BY <3>4 DEF IInv, SessionIsConsistent
      <3> QED  BY <3>5, <3>6, <3>7 DEF IInv
    <2> QED  BY <1>5, <2>1, <2>2, <2>3, <2>4, <2>5
  <1> QED  BY <1>1, <1>2, <1>3, <1>4, <1>5 DEF AttachNext

LEMMA IInvHolds == AttachSpec => []IInv
  <1>1. AttachInit => IInv
    BY InitIInv
  <1>2. IInv /\ [AttachNext]_attachVars => IInv'
    BY NextIInv
  <1> QED  BY <1>1, <1>2, PTL DEF AttachSpec

\* The buffer the target holds exists, whatever calls overlap: every push of a sample
\* and every put in TargetExits and TargetDisabled is of a live object.
THEOREM BufferAlwaysExists == AttachSpec => []BufferExists
  <1>1. IInv => BufferExists
    BY AttachAssumption DEF IInv, AttachTypeOK, RefsCover, BufferExists
  <1> QED  BY <1>1, IInvHolds, PTL

\* The experiments, the buffer and the monitor of a live target are of one session.
THEOREM SessionAlwaysConsistent == AttachSpec => []SessionIsConsistent
  <1>1. IInv => SessionIsConsistent
    BY DEF IInv
  <1> QED  BY <1>1, IInvHolds, PTL

-----------------------------------------------------------------------------------
(* Calls that do not overlap.  At most one monitor is in a call, on a target that  *)
(* is not freed,                                                                   *)
(* and what it read when it checked the target is still so when it acts on it: then *)
(* no reference is lost, and nobody takes the target of a monitor that exists.     *)

\* The references to a buffer: one of its monitor, one of the target, which may be lost.
Count(m) == (IF m \in living THEN 1 ELSE 0) + (IF buffer = m THEN 1 ELSE 0)

OneCall ==
    /\ \A m, n \in Monitor : pc[m] # "idle" /\ pc[n] # "idle" => m = n
    /\ \A m \in Monitor : pc[m] # "idle" => m \in living /\ target # "freed"

ChecksHold ==
    \A m \in Monitor :
        /\ pc[m] = "setup" => buffer = None /\ pid_monitor = None
        /\ pc[m] = "force" => pid_monitor # None
        /\ pc[m] = "force_disable" => pid_monitor \notin living
        /\ pc[m] = "disable" => pid_monitor = m

RefsAreExact == \A m \in Monitor : refs[m] = Count(m)

\* A target that has exited has no buffer, unless it was attached after that.
NoBufferAfterExit == target # "alive" /\ ~late => buffer = None

Serial == OneCall /\ ChecksHold /\ RefsAreExact /\ NoBufferAfterExit

\* The number of holders, which Holders collects in a set, is the sum of two bits.
LEMMA HoldersCount ==
    ASSUME NEW m \in Monitor, NoBufferAfterExit
    PROVE  Cardinality(Holders(m)) + Lost(m) = Count(m)
  <1>1. m # None
    BY AttachAssumption
  <1>2. Cardinality({}) = 0 /\ Cardinality({m}) = 1 /\ Cardinality({None}) = 1
    BY FS_EmptySet, FS_Singleton
  <1>3. Cardinality({m} \cup {None}) = 2
    <2>1. IsFiniteSet({m}) /\ None \notin {m}
      BY <1>1, FS_Singleton
    <2> QED  BY <1>2, <2>1, FS_AddElement
  <1>4. {m} \cup {} = {m} /\ {} \cup {None} = {None} /\ {} \cup {} = {}
    OBVIOUS
  <1>5. CASE buffer = m /\ target = "freed"
    <2>1. Holders(m) = IF m \in living THEN {m} ELSE {}
      BY <1>5 DEF Holders
    <2>2. Lost(m) = 1
      BY <1>1, <1>5 DEF Lost, NoBufferAfterExit
    <2> QED  BY <1>2, <1>5, <2>1, <2>2 DEF Count
  <1>6. CASE ~(buffer = m /\ target = "freed")
    <2>1. Lost(m) = 0
      BY <1>6 DEF Lost
    <2>2. Cardinality(Holders(m)) = Count(m)
      BY <1>2, <1>3, <1>4, <1>6 DEF Holders, Count
    <2> QED  BY <1>2, <1>3, <2>1, <2>2 DEF Count
  <1> QED  BY <1>5, <1>6

\* The step that puts the reference of the target to its buffer.
LEMMA PutIsExact ==
    ASSUME AttachTypeOK, RefsAreExact, refs' = put_pmc_samples_buffer(refs, buffer),
           buffer' = None, living' = living
    PROVE  RefsAreExact'
  <1> SUFFICES ASSUME NEW m \in Monitor PROVE refs'[m] = Count(m)'
    BY DEF RefsAreExact
  <1> USE AttachAssumption
  <1>1. refs[m] = Count(m)
    BY DEF RefsAreExact
  <1>2. Count(m)' = IF m \in living THEN 1 ELSE 0
    BY DEF Count
  <1>3. refs'[m] = IF buffer = m THEN refs[m] - 1 ELSE refs[m]
    BY DEF put_pmc_samples_buffer, AttachTypeOK
  <1> QED  BY <1>1, <1>2, <1>3 DEF Count

LEMMA NextSerial == IInv /\ ~overlap /\ Serial /\ [AttachNext]_attachVars => Serial'
  <1> SUFFICES ASSUME IInv, ~overlap, Serial, [AttachNext]_attachVars PROVE Serial'
    OBVIOUS
  <1> USE AttachAssumption
  <1>0. AttachTypeOK /\ SessionIsConsistent /\ OneCall /\ ChecksHold /\ RefsAreExact
        /\ NoBufferAfterExit
    BY DEF IInv, Serial
  <1>1. CASE UNCHANGED attachVars
    BY <1>1 DEF attachVars, Serial, OneCall, ChecksHold, RefsAreExact, Count,
                   NoBufferAfterExit
  <1>2. CASE TargetExits
    <2>1. RefsAreExact'
      BY <1>0, <1>2, PutIsExact DEF TargetExits
    <2>2. Idle /\ pc' = pc
      BY <1>2 DEF TargetExits
    <2>3. buffer' = None
      BY <1>2 DEF TargetExits
    <2> QED
      BY <1>0, <2>1, <2>2, <2>3 DEF Idle, Serial, OneCall, ChecksHold, NoBufferAfterExit
  <1>3. CASE mod_free_per_thread_data
    BY <1>0, <1>3 DEF mod_free_per_thread_data, Idle, Serial, OneCall, ChecksHold,
                      RefsAreExact, Count, NoBufferAfterExit
  <1>4. CASE tbs_mode_fire_timer
    BY <1>0, <1>4 DEF tbs_mode_fire_timer, Serial, OneCall, ChecksHold, RefsAreExact,
                      Count, NoBufferAfterExit
  <1>5. ASSUME NEW m \in Monitor,
               \/ AttachCheck(m) \/ ForceCheck(m) \/ ForceDisable(m) \/ SetUp(m)
               \/ DetachCheck(m) \/ Disable(m) \/ CallFails(m) \/ MonitorExits(m)
        PROVE  Serial'
    <2>1. CASE AttachCheck(m) \/ DetachCheck(m)
      <3>1. /\ m \in living /\ Idle /\ target # "freed" /\ late' = late
            /\ UNCHANGED <<target, pid_monitor, buffer, refs, living>>
        BY <2>1 DEF AttachCheck, DetachCheck, Callable, profile
      <3>2. \A n \in Monitor \ {m} : pc'[n] = "idle"
        BY <1>0, <2>1, <3>1 DEF AttachCheck, DetachCheck, Goto, AttachTypeOK, Idle
      <3>3. /\ pc'[m] \in {"idle", "setup", "force", "disable"}
            /\ pc'[m] = "setup" => buffer = None /\ pid_monitor = None
            /\ pc'[m] = "force" => pid_monitor # None
            /\ pc'[m] = "disable" => pid_monitor = m
        BY <1>0, <2>1 DEF AttachCheck, DetachCheck, Goto, AttachTypeOK
      <3> QED
        BY <1>0, <3>1, <3>2, <3>3 DEF Serial, OneCall, ChecksHold, RefsAreExact, Count,
                   NoBufferAfterExit
    <2>2. CASE ForceCheck(m)
      <3>1. pc[m] = "force" /\ UNCHANGED <<target, pid_monitor, buffer, refs, living, late>>
        BY <2>2 DEF ForceCheck, profile
      <3>2. \A n \in Monitor \ {m} : pc[n] = "idle" /\ pc'[n] = pc[n]
        BY <1>0, <2>2, <3>1 DEF ForceCheck, Goto, AttachTypeOK, OneCall
      <3>3. /\ pc'[m] \in {"idle", "force_disable"}
            /\ pc'[m] = "force_disable" => pid_monitor \notin living
        BY <1>0, <2>2, <3>1 DEF ForceCheck, Goto, AttachTypeOK, ChecksHold
      <3> QED
        BY <1>0, <3>1, <3>2, <3>3 DEF Serial, OneCall, ChecksHold, RefsAreExact, Count,
                   NoBufferAfterExit
    <2>3. CASE ForceDisable(m) \/ Disable(m)
      <3>1. RefsAreExact'
        BY <1>0, <2>3, PutIsExact DEF ForceDisable, Disable, TargetDisabled
      <3>2. /\ pc[m] # "idle" /\ pc'[m] \in {"idle", "setup"}
            /\ buffer' = None /\ pid_monitor' = None /\ UNCHANGED <<target, living>>
        BY <1>0, <2>3
        DEF ForceDisable, Disable, TargetDisabled, Goto, AttachTypeOK
      <3>3. \A n \in Monitor \ {m} : pc[n] = "idle" /\ pc'[n] = pc[n]
        BY <1>0, <2>3, <3>2 DEF ForceDisable, Disable, Goto, AttachTypeOK, OneCall
      <3>4. late' = late
        BY <2>3 DEF ForceDisable, Disable
      <3> QED
        BY <1>0, <3>1, <3>2, <3>3, <3>4 DEF Serial, OneCall, ChecksHold, NoBufferAfterExit
    <2>4. CASE SetUp(m)
      <3>1. /\ pc[m] = "setup" /\ pc'[m] = "idle" /\ buffer = None
            /\ UNCHANGED <<target, living>> /\ buffer' = m
        BY <1>0, <2>4 DEF SetUp, TargetSetUp, Goto, AttachTypeOK, ChecksHold
      <3>2. \A n \in Monitor \ {m} : pc[n] = "idle" /\ pc'[n] = pc[n]
        BY <1>0, <2>4, <3>1 DEF SetUp, Goto, AttachTypeOK, OneCall
      <3>3. \A n \in Monitor : refs'[n] = IF n = m THEN refs[n] + 1 ELSE refs[n]
        BY <1>0, <2>4 DEF SetUp, TargetSetUp, get_pmc_samples_buffer, AttachTypeOK
      <3>4. RefsAreExact'
        BY <1>0, <3>1, <3>3 DEF RefsAreExact, Count
      <3>5. target = "alive" \/ late'
        BY <1>0, <2>4, <3>1 DEF SetUp, OneCall, AttachTypeOK
      <3> QED
        BY <3>1, <3>2, <3>4, <3>5 DEF Serial, OneCall, ChecksHold, NoBufferAfterExit
    <2>5. CASE CallFails(m)
      <3>1. /\ UNCHANGED <<target, pid_monitor, buffer, refs, living, late>>
            /\ pc'[m] = "idle" /\ \A n \in Monitor \ {m} : pc'[n] = pc[n]
        BY <1>0, <2>5 DEF CallFails, profile, Goto, AttachTypeOK
      <3> QED  BY <1>0, <3>1 DEF Serial, OneCall, ChecksHold, RefsAreExact, Count,
                   NoBufferAfterExit
    <2>6. CASE MonitorExits(m)
      <3>1. /\ m \in living /\ pc[m] = "idle" /\ living' = living \ {m}
            /\ UNCHANGED <<target, pid_monitor, buffer, pc, late>>
        BY <2>6 DEF MonitorExits
      <3>2. \A n \in Monitor : refs'[n] = IF n = m THEN refs[n] - 1 ELSE refs[n]
        BY <1>0, <2>6 DEF MonitorExits, put_pmc_samples_buffer, AttachTypeOK
      <3>3. RefsAreExact'
        BY <1>0, <3>1, <3>2 DEF RefsAreExact, Count
      <3> QED
        BY <1>0, <3>1, <3>3 DEF Serial, OneCall, ChecksHold, NoBufferAfterExit
    <2> QED  BY <1>5, <2>1, <2>2, <2>3, <2>4, <2>5, <2>6
  <1> QED  BY <1>1, <1>2, <1>3, <1>4, <1>5 DEF AttachNext

\* Whether calls overlap is decided at the start.
LEMMA SerialHolds == AttachSpec => [](~overlap => Serial)
  <1>1. AttachInit => (~overlap => Serial)
    BY AttachAssumption DEF AttachInit, Serial, OneCall, ChecksHold, RefsAreExact, Count,
                   NoBufferAfterExit
  <1>2. [AttachNext]_attachVars => overlap' = overlap
    BY DEF AttachNext, attachVars, TargetExits, mod_free_per_thread_data, tbs_mode_fire_timer,
           AttachCheck, ForceCheck, ForceDisable, SetUp, DetachCheck, Disable,
           CallFails, MonitorExits
  <1>3. IInv /\ (~overlap => Serial) /\ [AttachNext]_attachVars => (~overlap => Serial)'
    BY <1>2, NextSerial
  <1> QED  BY <1>1, <1>3, IInvHolds, PTL DEF AttachSpec

\* When calls do not overlap, the counter of references of a buffer is the number of
\* its holders, and of the reference lost with a target that was attached after its exit:
\* no other path through a call forgets a get or a put.
THEOREM SerialRefsAreAlwaysHolders == AttachSpec => []SerialRefsAreHolders
  <1>1. (~overlap => Serial) => SerialRefsAreHolders
    BY HoldersCount DEF Serial, RefsAreExact, SerialRefsAreHolders
  <1> QED  BY <1>1, SerialHolds, PTL

\* When calls do not overlap, only its own detachment takes the target from a monitor
\* that exists: pmctrack_task_detach_force looked the monitor up, and nobody brings a
\* monitor back to life between that and the detachment.
THEOREM LiveMonitorAlwaysKeepsTarget == AttachSpec => LiveMonitorKeepsTarget
  <1> DEFINE Keeps == ~overlap => \A m \in living :
                        pid_monitor = m /\ pid_monitor' # m => pc[m] = "disable"
  <1>1. IInv /\ (~overlap => Serial) /\ [AttachNext]_attachVars => [Keeps]_attachVars
    <2> SUFFICES ASSUME AttachTypeOK, ~overlap, ChecksHold, AttachNext, NEW n \in living,
                        pid_monitor = n, pid_monitor' # n
                 PROVE  pc[n] = "disable"
      BY DEF IInv, Serial, attachVars
    <2> USE AttachAssumption
    <2>0. n \in Monitor
      BY DEF AttachTypeOK
    <2>1. ~(TargetExits \/ mod_free_per_thread_data \/ tbs_mode_fire_timer)
      BY DEF TargetExits, mod_free_per_thread_data, tbs_mode_fire_timer
    <2>2. PICK m \in Monitor : ForceDisable(m) \/ SetUp(m) \/ Disable(m)
      BY <2>1 DEF AttachNext, AttachCheck, ForceCheck, DetachCheck, CallFails, MonitorExits,
                  profile
    <2>3. CASE ForceDisable(m)
      BY <2>3 DEF ForceDisable, ChecksHold
    <2>4. CASE SetUp(m)
      BY <2>0, <2>4 DEF SetUp, ChecksHold
    <2>5. CASE Disable(m)
      BY <2>5 DEF Disable, ChecksHold
    <2> QED  BY <2>2, <2>3, <2>4, <2>5
  <1>2. AttachSpec => [][Keeps]_attachVars
    <2> HIDE DEF Keeps
    <2> QED  BY <1>1, IInvHolds, SerialHolds, PTL DEF AttachSpec
  <1> QED  BY <1>2 DEF LiveMonitorKeepsTarget
================================================================================
