--------------------------- MODULE Syswide_proofs ---------------------------
(***************************************************************************)
(* Proofs about Syswide for any number of processes and CPUs, with starts  *)
(* that fail and stops from processes that are not the monitor.            *)
(***************************************************************************)
EXTENDS Syswide, TLAPS

(* Where the session of a process stands, given what the process does.     *)
SessionInv ==
  /\ \A p \in Proc : pc[p] = "starting" =>
       syswide_monitor = STARTING /\ pmc_samples_buffer = p
  /\ \A p \in Proc : pc[p] \in {"stopping", "quiescing"} =>
       syswide_monitor = STOPPING /\ pmc_samples_buffer = p
  /\ syswide_monitor \in Proc =>
       pmc_samples_buffer = syswide_monitor /\ pc[syswide_monitor] = "user"
  /\ pmc_samples_buffer \in Proc =>
       syswide_monitor = pmc_samples_buffer \/ InCall(pmc_samples_buffer)

(* The session is served, or its stop has not cancelled the timer yet.     *)
Served ==
  \/ syswide_monitor \in Proc
  \/ pmc_samples_buffer \in Proc /\ pc[pmc_samples_buffer] = "stopping"

TimerInv == timer # "idle" => Served

(* A switch-out that passed its test is over before the stop has visited   *)
(* its CPU.                                                                *)
RefreshInv ==
  \A c \in CPU : refreshing[c] =>
    \/ Served
    \/ /\ pmc_samples_buffer \in Proc
       /\ pc[pmc_samples_buffer] = "quiescing"
       /\ c \in toVisit[pmc_samples_buffer]

RefsInv ==
  \A p \in Proc :
    refs[p] = (IF pc[p] = "gone" THEN 0 ELSE 1)
              + (IF pmc_samples_buffer = p THEN 1 ELSE 0)

IInv == TypeOK /\ SessionInv /\ TimerInv /\ RefreshInv /\ RefsInv

-----------------------------------------------------------------------------
(* Steps that leave the session, the timer and the processes alone keep    *)
(* the parts of the invariant that speak only of them.                     *)
LEMMA SessionUntouched ==
  ASSUME SessionInv, TimerInv, RefsInv,
         UNCHANGED <<sessionState, timer, pc>>
  PROVE  SessionInv' /\ TimerInv' /\ RefsInv' /\ (Served' <=> Served)
BY DEF SessionInv, TimerInv, RefsInv, Served, InCall, sessionState

(* When the mode is off, no buffer is shared and no CPU reads counters.    *)
LEMMA OffIsQuiet ==
  ASSUME IInv, syswide_monitor = DISABLED
  PROVE  /\ pmc_samples_buffer = Nobody
         /\ timer = "idle"
         /\ \A c \in CPU : ~refreshing[c]
<1> USE SyswideAssumption
<1>1. syswide_monitor \notin Proc
  OBVIOUS
<1>2. pmc_samples_buffer \notin Proc
  BY <1>1 DEF IInv, TypeOK, SessionInv, InCall
<1>3. ~Served
  BY <1>1, <1>2 DEF Served
<1> QED
  BY <1>1, <1>2, <1>3 DEF IInv, TypeOK, TimerInv, RefreshInv

LEMMA InitIInv == Init => IInv
<1> SUFFICES ASSUME Init PROVE IInv
  OBVIOUS
<1> USE SyswideAssumption DEF Init
<1>1. pause_syswide_monitor \in BOOLEAN
  BY Zenon
<1>2. TypeOK
  BY <1>1 DEF TypeOK
<1> QED
  BY <1>2 DEF IInv, SessionInv, TimerInv, RefreshInv, RefsInv, Served, InCall

LEMMA NextIInv == IInv /\ [Next]_vars => IInv'
<1> SUFFICES ASSUME IInv, [Next]_vars PROVE IInv'
  OBVIOUS
<1> USE SyswideAssumption
<1>1. ASSUME NEW p \in Proc, StartBusy(p) PROVE IInv'
  <2>1. TypeOK'
    BY <1>1 DEF StartBusy, IInv, TypeOK, sessionState, timerState, procState, cpuState
  <2>2. SessionInv' /\ TimerInv' /\ RefsInv' /\ (Served' <=> Served)
    BY <1>1, SessionUntouched DEF StartBusy, IInv, timerState, procState
  <2> QED
    BY <1>1, <2>1, <2>2
    DEF StartBusy, IInv, RefreshInv, sessionState, procState, cpuState
<1>2. ASSUME NEW p \in Proc, StartFails(p) PROVE IInv'
  <2>1. /\ pmc_samples_buffer = Nobody /\ timer = "idle"
        /\ \A c \in CPU : ~refreshing[c]
    BY <1>2, OffIsQuiet DEF StartFails, Available
  <2>2. cur_config' \in [CPU -> Proc \cup {Nobody}]
    <3>1. PICK done \in SUBSET CPU, bad \in CPU :
            \E left \in {cur_config[bad], Nobody} :
              cur_config' = [c \in CPU |-> IF c \in done THEN p
                                           ELSE IF c = bad THEN left ELSE cur_config[c]]
      BY <1>2 DEF StartFails
    <3> QED
      BY <3>1 DEF IInv, TypeOK
  <2>3. TypeOK'
    BY <1>2, <2>2
    DEF StartFails, IInv, TypeOK, timerState, procState
  <2>4. \A q \in Proc : ~InCall(q)
    BY <2>1 DEF IInv, SessionInv, InCall
  <2>5. SessionInv' /\ TimerInv' /\ RefreshInv' /\ RefsInv'
    BY <1>2, <2>1, <2>4
    DEF StartFails, IInv, SessionInv, TimerInv, RefreshInv, RefsInv, Served, InCall,
        timerState, procState
  <2> QED
    BY <2>3, <2>5 DEF IInv
<1>3. ASSUME NEW p \in Proc, StartAccepted(p) PROVE IInv'
  <2>1. /\ pmc_samples_buffer = Nobody /\ timer = "idle"
        /\ \A c \in CPU : ~refreshing[c]
    BY <1>3, OffIsQuiet DEF StartAccepted, Available
  <2>2. TypeOK'
    BY <1>3 DEF StartAccepted, Share, IInv, TypeOK, timerState
  <2>3. \A q \in Proc : ~InCall(q)
    BY <2>1 DEF IInv, SessionInv, InCall
  <2>4. SessionInv'
    BY <1>3, <2>3
    DEF StartAccepted, Share, IInv, TypeOK, SessionInv, InCall
  <2>5. TimerInv' /\ RefreshInv'
    BY <1>3, <2>1 DEF StartAccepted, TimerInv, RefreshInv, timerState
  <2>6. RefsInv'
    BY <1>3, <2>1 DEF StartAccepted, InUser, Share, IInv, TypeOK, RefsInv
  <2> QED
    BY <2>2, <2>4, <2>5, <2>6 DEF IInv
<1>4. ASSUME NEW p \in Proc, NEW c \in CPU, VisitCpu(p, c) PROVE IInv'
  <2>1. pmcs' \in [CPU -> Proc \cup {"thread", "stopped"}]
    BY <1>4 DEF VisitCpu, IInv, TypeOK
  <2>2. TypeOK'
    BY <1>4, <2>1 DEF VisitCpu, IInv, TypeOK, sessionState, timerState
  <2>3. SessionInv' /\ TimerInv' /\ RefsInv' /\ (Served' <=> Served)
    BY <1>4, SessionUntouched DEF VisitCpu, IInv, timerState
  <2>4. RefreshInv'
    <3> SUFFICES ASSUME NEW d \in CPU, refreshing[d], ~Served
                 PROVE  /\ pmc_samples_buffer \in Proc
                        /\ pc[pmc_samples_buffer] = "quiescing"
                        /\ d \in toVisit'[pmc_samples_buffer]
      BY <1>4, <2>3 DEF VisitCpu, RefreshInv, sessionState
    <3>1. /\ pmc_samples_buffer \in Proc
          /\ pc[pmc_samples_buffer] = "quiescing"
          /\ d \in toVisit[pmc_samples_buffer]
      BY DEF IInv, RefreshInv
    <3>2. d # c
      BY <1>4 DEF VisitCpu
    <3> QED
      BY <1>4, <3>1, <3>2 DEF VisitCpu, IInv, TypeOK
  <2> QED
    BY <2>2, <2>3, <2>4 DEF IInv
<1>5. ASSUME NEW p \in Proc, StartDone(p) PROVE IInv'
  <2>1. pause_syswide_monitor' \in BOOLEAN
    BY <1>5, Zenon DEF StartDone
  <2>2. TypeOK'
    BY <1>5, <2>1 DEF StartDone, IInv, TypeOK, cpuState
  <2>3. pmc_samples_buffer = p /\ syswide_monitor = STARTING
    BY <1>5 DEF StartDone, IInv, SessionInv
  <2>4. SessionInv'
    BY <1>5, <2>3 DEF StartDone, IInv, TypeOK, SessionInv, InCall
  <2>5. Served'
    BY <1>5 DEF StartDone, Served
  <2>6. RefsInv'
    BY <1>5 DEF StartDone, IInv, TypeOK, RefsInv
  <2> QED
    BY <2>2, <2>4, <2>5, <2>6 DEF IInv, TimerInv, RefreshInv
<1>6. ASSUME NEW p \in Proc, StopBegins(p) PROVE IInv'
  <2>1. TypeOK'
    BY <1>6 DEF StopBegins, Unlock, IInv, TypeOK, timerState, cpuState
  <2>2. pmc_samples_buffer = p
    BY <1>6 DEF StopBegins, IInv, SessionInv
  <2>3. \A q \in Proc : ~InCall(q)
    BY <1>6 DEF StopBegins, IInv, SessionInv, InCall
  <2>4. SessionInv'
    BY <1>6, <2>2, <2>3 DEF StopBegins, IInv, TypeOK, SessionInv, InCall
  <2>5. Served'
    BY <1>6, <2>2 DEF StopBegins, Served, IInv, TypeOK
  <2>6. RefsInv'
    BY <1>6 DEF StopBegins, MayStop, IInv, TypeOK, RefsInv
  <2> QED
    BY <2>1, <2>4, <2>5, <2>6 DEF IInv, TimerInv, RefreshInv
<1>7. ASSUME NEW p \in Proc, StopRefused(p) PROVE IInv'
  <2>1. TypeOK'
    BY <1>7 DEF StopRefused, IInv, TypeOK, sessionState, timerState, cpuState
  <2>2. SessionInv'
    BY <1>7 DEF StopRefused, MayStop, IInv, TypeOK, SessionInv, InCall, sessionState
  <2>3. pmc_samples_buffer # p
    BY <1>7 DEF StopRefused, MayStop, IInv, SessionInv, InCall
  <2>4. Served' <=> Served
    BY <1>7, <2>3 DEF StopRefused, IInv, TypeOK, Served, sessionState
  <2>5. TimerInv'
    BY <1>7, <2>4 DEF StopRefused, IInv, TimerInv, timerState
  <2>6. RefreshInv'
    BY <1>7, <2>3, <2>4
    DEF StopRefused, IInv, TypeOK, RefreshInv, sessionState, cpuState
  <2>7. RefsInv'
    BY <1>7 DEF StopRefused, MayStop, IInv, TypeOK, RefsInv, sessionState
  <2> QED
    BY <2>1, <2>2, <2>5, <2>6, <2>7 DEF IInv
<1>8. ASSUME NEW p \in Proc, StopTimer(p) PROVE IInv'
  <2>1. TypeOK'
    BY <1>8 DEF StopTimer, IInv, TypeOK, sessionState, cpuState
  <2>2. pmc_samples_buffer = p /\ syswide_monitor = STOPPING
    BY <1>8 DEF StopTimer, IInv, SessionInv
  <2>3. SessionInv'
    BY <1>8, <2>2 DEF StopTimer, IInv, TypeOK, SessionInv, InCall, sessionState
  <2>4. TimerInv'
    BY <1>8 DEF StopTimer, HandlerGone, IInv, TypeOK, TimerInv
  <2>5. RefreshInv'
    BY <1>8, <2>2 DEF StopTimer, IInv, TypeOK, RefreshInv, sessionState
  <2>6. RefsInv'
    BY <1>8 DEF StopTimer, IInv, TypeOK, RefsInv, sessionState
  <2> QED
    BY <2>1, <2>3, <2>4, <2>5, <2>6 DEF IInv
<1>9. ASSUME NEW p \in Proc, StopDone(p) PROVE IInv'
  <2>1. pmc_samples_buffer = p /\ syswide_monitor = STOPPING
    BY <1>9 DEF StopDone, IInv, SessionInv
  <2>2. ~Served
    BY <1>9, <2>1 DEF StopDone, Served
  <2>3. timer = "idle" /\ \A c \in CPU : ~refreshing[c]
    BY <1>9, <2>1, <2>2 DEF StopDone, AllVisited, IInv, TimerInv, RefreshInv
  <2>4. refs[p] = 2
    BY <1>9, <2>1 DEF StopDone, IInv, RefsInv
  <2>5. TypeOK'
    BY <1>9, <2>1, <2>4 DEF StopDone, IInv, TypeOK, timerState, cpuState
  <2>6. \A q \in Proc : q # p => ~InCall(q)
    BY <2>1 DEF IInv, SessionInv, InCall
  <2>7. SessionInv'
    BY <1>9, <2>6 DEF StopDone, IInv, TypeOK, SessionInv, InCall
  <2>8. TimerInv' /\ RefreshInv'
    BY <1>9, <2>3 DEF StopDone, TimerInv, RefreshInv, timerState, cpuState
  <2>9. RefsInv'
    BY <1>9, <2>1, <2>4 DEF StopDone, IInv, TypeOK, RefsInv
  <2> QED
    BY <2>5, <2>7, <2>8, <2>9 DEF IInv
<1>10. ASSUME NEW p \in Proc, NEW flag \in BOOLEAN, Pause(p, flag) PROVE IInv'
  <2>1. pause_syswide_monitor' \in BOOLEAN
    BY <1>10, Zenon DEF Pause, IInv, TypeOK
  <2>2. TypeOK'
    BY <1>10, <2>1
    DEF Pause, IInv, TypeOK, sessionState, timerState, procState, cpuState
  <2>3. SessionInv' /\ TimerInv' /\ RefsInv' /\ (Served' <=> Served)
    BY <1>10, SessionUntouched DEF Pause, IInv, timerState, procState
  <2> QED
    BY <1>10, <2>2, <2>3
    DEF Pause, IInv, RefreshInv, sessionState, procState, cpuState
<1>11. ASSUME NEW p \in Proc, ExitBegins(p) PROVE IInv'
  <2>1. TypeOK'
    BY <1>11 DEF ExitBegins, IInv, TypeOK, sessionState, timerState, cpuState
  <2>2. SessionInv' /\ TimerInv' /\ RefsInv' /\ (Served' <=> Served)
    BY <1>11, SessionUntouched DEF ExitBegins, IInv, timerState
  <2> QED
    BY <1>11, <2>1, <2>2 DEF ExitBegins, IInv, RefreshInv, sessionState, cpuState
<1>12. ASSUME NEW p \in Proc, ExitEnds(p) PROVE IInv'
  <2>1. pmc_samples_buffer # p
    BY <1>12 DEF ExitEnds, IInv, SessionInv, InCall
  <2>2. refs[p] = 1
    BY <1>12, <2>1 DEF ExitEnds, IInv, RefsInv
  <2>3. TypeOK'
    BY <1>12, <2>2 DEF ExitEnds, IInv, TypeOK, timerState, cpuState
  <2>4. SessionInv'
    BY <1>12, <2>1 DEF ExitEnds, IInv, TypeOK, SessionInv, InCall
  <2>5. Served' <=> Served
    BY <1>12, <2>1 DEF ExitEnds, IInv, TypeOK, Served
  <2>6. TimerInv'
    BY <1>12, <2>5 DEF ExitEnds, IInv, TimerInv, timerState
  <2>7. RefreshInv'
    BY <1>12, <2>1, <2>5 DEF ExitEnds, IInv, TypeOK, RefreshInv, cpuState
  <2>8. RefsInv'
    BY <1>12, <2>1, <2>2 DEF ExitEnds, IInv, TypeOK, RefsInv
  <2> QED
    BY <2>3, <2>4, <2>6, <2>7, <2>8 DEF IInv
<1>13. ASSUME TimerFires PROVE IInv'
  <2>1. TypeOK'
    BY <1>13 DEF TimerFires, IInv, TypeOK, sessionState, procState, cpuState
  <2>2. SessionInv' /\ RefsInv' /\ (Served' <=> Served)
    BY <1>13 DEF TimerFires, IInv, SessionInv, RefsInv, Served, InCall, sessionState,
                 procState
  <2>3. Served
    BY <1>13 DEF TimerFires, IInv, TimerInv
  <2> QED
    BY <2>1, <2>2, <2>3 DEF IInv, TimerInv, RefreshInv
<1>14. ASSUME NEW c \in CPU, SampleCpu(c) PROVE IInv'
  <2>1. TypeOK'
    BY <1>14 DEF SampleCpu, IInv, TypeOK, sessionState, procState, cpuState
  <2>2. SessionInv' /\ TimerInv' /\ RefsInv' /\ (Served' <=> Served)
    BY <1>14, SessionUntouched DEF SampleCpu, IInv, procState
  <2> QED
    BY <1>14, <2>1, <2>2
    DEF SampleCpu, IInv, RefreshInv, sessionState, procState, cpuState
<1>15. ASSUME TimerDelivers PROVE IInv'
  <2>1. TypeOK'
    BY <1>15 DEF TimerDelivers, Rearm, IInv, TypeOK, sessionState, procState, cpuState
  <2>2. SessionInv' /\ RefsInv' /\ (Served' <=> Served)
    BY <1>15 DEF TimerDelivers, IInv, SessionInv, RefsInv, Served, InCall,
                 sessionState, procState
  <2>3. Served
    BY <1>15 DEF TimerDelivers, IInv, TimerInv
  <2> QED
    BY <2>1, <2>2, <2>3 DEF IInv, TimerInv, RefreshInv
<1>16. ASSUME NEW c \in CPU, SwitchIn(c) \/ SwitchOut(c) \/ SwitchOutEnds(c)
       PROVE  IInv'
  <2>1. /\ thread' \in [CPU -> BOOLEAN]
        /\ pmcs' \in [CPU -> Proc \cup {"thread", "stopped"}]
    <3>1. /\ thread \in [CPU -> BOOLEAN]
          /\ pmcs \in [CPU -> Proc \cup {"thread", "stopped"}]
      BY DEF IInv, TypeOK
    <3>2. CASE SwitchIn(c)
      BY <3>1, <3>2 DEF SwitchIn
    <3>3. CASE SwitchOut(c)
      BY <3>1, <3>3 DEF SwitchOut
    <3>4. CASE SwitchOutEnds(c)
      BY <3>1, <3>4 DEF SwitchOutEnds
    <3> QED  BY <1>16, <3>2, <3>3, <3>4
  <2>2. /\ refreshing' \in [CPU -> BOOLEAN]
        /\ \A d \in CPU : refreshing'[d] => refreshing[d] \/ syswide_monitor \in Proc
    <3>1. refreshing \in [CPU -> BOOLEAN]
      BY DEF IInv, TypeOK
    <3>2. CASE SwitchIn(c)
      BY <3>1, <3>2 DEF SwitchIn
    <3>3. CASE SwitchOut(c)
      BY <3>1, <3>3 DEF SwitchOut, syswide_monitoring_enabled
    <3>4. CASE SwitchOutEnds(c)
      BY <3>1, <3>4 DEF SwitchOutEnds
    <3> QED  BY <1>16, <3>2, <3>3, <3>4
  <2>3. UNCHANGED <<sessionState, pause_syswide_monitor, timerState, lock, procState,
                    retval, cur_config>>
    BY <1>16 DEF SwitchIn, SwitchOut, SwitchOutEnds
  <2>4. TypeOK'
    BY <2>1, <2>2, <2>3 DEF IInv, TypeOK, sessionState, timerState, procState
  <2>5. SessionInv' /\ TimerInv' /\ RefsInv' /\ (Served' <=> Served)
    BY <2>3, SessionUntouched DEF IInv, timerState, procState
  <2>6. RefreshInv'
    BY <2>2, <2>3, <2>5 DEF IInv, RefreshInv, Served, sessionState, procState
  <2> QED
    BY <2>4, <2>5, <2>6 DEF IInv
<1>17. ASSUME UNCHANGED vars PROVE IInv'
  <2>1. TypeOK'
    BY <1>17 DEF vars, IInv, TypeOK, sessionState, timerState, procState, cpuState
  <2>2. SessionInv' /\ TimerInv' /\ RefsInv' /\ (Served' <=> Served)
    BY <1>17, SessionUntouched DEF vars, IInv, timerState, procState
  <2> QED
    BY <1>17, <2>1, <2>2
    DEF vars, IInv, RefreshInv, sessionState, procState, cpuState
<1> QED
  BY <1>1, <1>2, <1>3, <1>4, <1>5, <1>6, <1>7, <1>8, <1>9, <1>10, <1>11, <1>12, <1>13,
     <1>14, <1>15, <1>16, <1>17
  DEF Next, ProcStep, Start, Stop, Exit, TimerStep, SwitchStep

-----------------------------------------------------------------------------
(* The strengthened invariant holds throughout.                            *)
THEOREM SyswideInvariance == Spec => []IInv
BY InitIInv, NextIInv, PTL DEF Spec

(* Every variable keeps its type; no reference counter goes below 0.       *)
THEOREM SyswideTypeCorrect == Spec => []TypeOK
<1>1. IInv => TypeOK
  BY DEF IInv
<1> QED
  BY <1>1, SyswideInvariance, PTL

(* Whatever processes call start and stop concurrently, at most one is     *)
(* served, starting or stopping, and its buffer is the shared one.         *)
THEOREM SingleSession == Spec => []OneSession
<1>1. IInv => OneSession
  BY SyswideAssumption
  DEF IInv, TypeOK, SessionInv, OneSession, InCall, syswide_monitoring_enabled
<1> QED
  BY <1>1, SyswideInvariance, PTL

(* When the mode is off, its timer, its handler and the context switches   *)
(* that read counters for it are over, and nobody's buffer is shared: the  *)
(* release of the buffer at the end of a stop is safe.                     *)
THEOREM ReleaseIsSafe == Spec => []QuietWhenDisabled
<1>1. IInv => QuietWhenDisabled
  BY OffIsQuiet DEF IInv, RefsInv, QuietWhenDisabled
<1> QED
  BY <1>1, SyswideInvariance, PTL

(* The experiments of the CPUs are rebuilt while nothing uses them.        *)
THEOREM SetupIsUndisturbed == Spec => []SetupUndisturbed
<1>1. ASSUME IInv, syswide_monitor = STARTING
      PROVE  timer = "idle" /\ \A c \in CPU : ~refreshing[c]
  <2>1. ~Served
    BY <1>1, SyswideAssumption DEF IInv, SessionInv, Served
  <2> QED
    BY <1>1, <2>1, SyswideAssumption DEF IInv, SessionInv, TimerInv, RefreshInv
<1>2. IInv => SetupUndisturbed
  BY <1>1 DEF SetupUndisturbed
<1> QED
  BY <1>2, SyswideInvariance, PTL

(* Samples are only delivered to the monitor, into a buffer that exists.   *)
THEOREM DeliveryIsSafe == Spec => []DeliversToMonitor
<1>1. IInv => DeliversToMonitor
  BY DEF IInv, TypeOK, SessionInv, RefsInv, DeliversToMonitor, Delivering,
         syswide_monitoring_enabled
<1> QED
  BY <1>1, SyswideInvariance, PTL

-----------------------------------------------------------------------------
(* A step opens, serves, withholds or closes the session, or leaves it.    *)
LEMMA NextIsSessionStep ==
  IInv /\ [Next]_vars => [Session!SessionNext]_(Session!sessionVars)
<1> SUFFICES ASSUME IInv, [Next]_vars
             PROVE  Session!SessionNext \/ UNCHANGED Session!sessionVars
  OBVIOUS
<1> USE SyswideAssumption
<1>1. ASSUME NEW p \in Proc, StartAccepted(p) PROVE Session!Open(p)
  <2>1. pmc_samples_buffer = Nobody
    BY <1>1, OffIsQuiet DEF StartAccepted, Available
  <2>2. ~syswide_monitoring_enabled /\ ~syswide_monitoring_enabled'
    BY <1>1 DEF StartAccepted, Available, syswide_monitoring_enabled
  <2> QED
    BY <1>1, <2>1, <2>2 DEF StartAccepted, Share, Session!Open, syswide_monitoring_enabled
<1>2. ASSUME NEW p \in Proc, StartDone(p) PROVE Session!Serve
  <2>1. pmc_samples_buffer = p /\ syswide_monitor = STARTING
    BY <1>2 DEF StartDone, IInv, SessionInv
  <2>2. ~syswide_monitoring_enabled /\ syswide_monitoring_enabled'
    BY <1>2, <2>1 DEF StartDone, syswide_monitoring_enabled
  <2> QED
    BY <1>2, <2>1, <2>2 DEF StartDone, Session!Serve, syswide_monitoring_enabled
<1>3. ASSUME NEW p \in Proc, StopBegins(p) PROVE Session!Withhold
  <2>1. syswide_monitoring_enabled /\ ~syswide_monitoring_enabled'
    BY <1>3 DEF StopBegins, syswide_monitoring_enabled
  <2> QED
    BY <1>3, <2>1 DEF StopBegins, Session!Withhold, syswide_monitoring_enabled
<1>4. ASSUME NEW p \in Proc, StopDone(p) PROVE Session!Close(p)
  <2>1. pmc_samples_buffer = p /\ syswide_monitor = STOPPING
    BY <1>4 DEF StopDone, IInv, SessionInv
  <2>2. ~syswide_monitoring_enabled /\ ~syswide_monitoring_enabled'
    BY <1>4, <2>1 DEF StopDone, syswide_monitoring_enabled
  <2> QED
    BY <1>4, <2>1, <2>2 DEF StopDone, Session!Close, syswide_monitoring_enabled
<1>5. ASSUME NEW p \in Proc, StartFails(p) PROVE UNCHANGED Session!sessionVars
  <2>1. ~syswide_monitoring_enabled /\ ~syswide_monitoring_enabled'
    BY <1>5 DEF StartFails, Available, syswide_monitoring_enabled
  <2> QED
    BY <1>5, <2>1 DEF StartFails, Session!sessionVars, syswide_monitoring_enabled
<1>6. ASSUME UNCHANGED <<syswide_monitor, pmc_samples_buffer>>
      PROVE  UNCHANGED Session!sessionVars
  BY <1>6 DEF Session!sessionVars, syswide_monitoring_enabled
<1>7. ASSUME NEW p \in Proc, StartBusy(p) \/ StopRefused(p) \/ StopTimer(p) \/ Exit(p)
      PROVE  UNCHANGED <<syswide_monitor, pmc_samples_buffer>>
  BY <1>7 DEF StartBusy, StopRefused, StopTimer, Exit, ExitBegins, ExitEnds, sessionState
<1>8. ASSUME NEW p \in Proc,
             (\E flag \in BOOLEAN : Pause(p, flag)) \/ (\E c \in CPU : VisitCpu(p, c))
      PROVE  UNCHANGED <<syswide_monitor, pmc_samples_buffer>>
  BY <1>8 DEF Pause, VisitCpu, sessionState
<1>9. ASSUME TimerStep \/ (\E c \in CPU : SwitchStep(c)) \/ UNCHANGED vars
      PROVE  UNCHANGED <<syswide_monitor, pmc_samples_buffer>>
  BY <1>9 DEF TimerStep, TimerFires, TimerDelivers, SampleCpu, SwitchStep, SwitchIn,
              SwitchOut, SwitchOutEnds, vars, sessionState
<1> QED
  BY <1>1, <1>2, <1>3, <1>4, <1>5, <1>6, <1>7, <1>8, <1>9
  DEF Next, ProcStep, Start, Stop, Session!SessionNext

(* The mode, with its lock, its timer and its calls to every CPU, promises *)
(* what a service with a single owner promises.                            *)
THEOREM SyswideRefinesSession == Spec => ImplementsSession
<1>1. Init => Session!SessionInit
  BY SyswideAssumption DEF Init, Session!SessionInit, syswide_monitoring_enabled
<1> QED
  BY <1>1, NextIsSessionStep, SyswideInvariance, PTL
  DEF Spec, ImplementsSession, Session!SessionSpec
=============================================================================
