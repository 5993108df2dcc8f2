------------------------------- MODULE Devices_proofs -------------------------------
(***********************************************************************************)
(* The devices that measure energy, for any number of them: the RAPL registers of   *)
(* packages, the Smart Power meters, and the sensors of the ARM boards.             *)
(***********************************************************************************)
EXTENDS Devices, FiniteSetTheorems, SequenceTheorems, TLAPS

-----------------------------------------------------------------------------------
(* Registers.                                                                       *)

(* Division with a positive divisor has one remainder.                              *)
LEMMA OneRemainder ==
    ASSUME NEW m \in Nat \ {0}, NEW q1 \in Int, NEW q2 \in Int,
           NEW r1 \in 0 .. m - 1, NEW r2 \in 0 .. m - 1, m * q1 + r1 = m * q2 + r2
    PROVE  r1 = r2
  <1>1. ASSUME NEW a \in Int, NEW b \in Int, NEW x \in 0 .. m - 1, NEW y \in 0 .. m - 1,
               a < b
        PROVE  m * a + x # m * b + y
    <2> DEFINE d == b - a - 1
    <2>1. d \in Nat /\ b = a + d + 1
      BY <1>1
    <2>2. m * d \in Nat
      BY <2>1
    <2>3. m * b = m * a + m * d + m
      BY <2>1
    <2>4. m * a \in Int /\ m * b \in Int
      OBVIOUS
    <2> QED  BY <2>2, <2>3, <2>4
  <1>2. ~(q1 < q2) /\ ~(q2 < q1)
    BY <1>1
  <1>3. q1 = q2
    BY <1>2
  <1>4. m * q1 \in Int
    OBVIOUS
  <1> QED  BY <1>3, <1>4

LEMMA RemainderOfOneMore ==
    ASSUME NEW m \in Nat \ {0}, NEW d \in 0 .. m - 1
    PROVE  (m + d) % m = d
  <1> DEFINE n == m + d
             q == n \div m
             r == n % m
  <1>1. n \in Nat
    OBVIOUS
  <1> HIDE DEF n
  <1>2. q \in Int /\ r \in 0 .. m - 1 /\ n = m * q + r
    BY <1>1
  <1> HIDE DEF q, r
  <1>3. m * 1 + d = m * q + r
    BY <1>2 DEF n
  <1>4. r = d
    BY <1>2, <1>3, OneRemainder
  <1> QED  BY <1>4 DEF r, n

(* What a register shows after one more unit was spent.                             *)
LEMMA RegisterStep ==
    ASSUME NEW m \in Nat \ {0}, NEW n \in Nat
    PROVE  /\ n % m \in 0 .. m - 1
           /\ (n + 1) % m = IF n % m = m - 1 THEN 0 ELSE (n % m) + 1
  <1> DEFINE q == n \div m
             r == n % m
             q2 == (n + 1) \div m
             r2 == (n + 1) % m
  <1>1. q \in Int /\ r \in 0 .. m - 1 /\ n = m * q + r
    OBVIOUS
  <1>2. q2 \in Int /\ r2 \in 0 .. m - 1 /\ n + 1 = m * q2 + r2
    OBVIOUS
  <1> HIDE DEF q, r, q2, r2
  <1>3. CASE r = m - 1
    <2>1. m * (q + 1) = m * q + m /\ m * q \in Int /\ m * q2 \in Int
      BY <1>1, <1>2
    <2>2. m * (q + 1) + 0 = m * q2 + r2
      BY <2>1, <1>1, <1>2, <1>3
    <2>3. r2 = 0
      BY <2>2, <1>1, <1>2, OneRemainder
    <2> QED  BY <2>3, <1>3, <1>1 DEF r, r2
  <1>4. CASE r # m - 1
    <2>1. r + 1 \in 0 .. m - 1 /\ m * q \in Int /\ m * q2 \in Int
      BY <1>1, <1>2, <1>4
    <2>2. m * q + (r + 1) = m * q2 + r2
      BY <2>1, <1>1, <1>2
    <2>3. r2 = r + 1
      BY <2>1, <2>2, <1>1, <1>2, OneRemainder
    <2> QED  BY <2>3, <1>4, <1>1 DEF r, r2
  <1> QED  BY <1>3, <1>4

-----------------------------------------------------------------------------------
(* RAPL: what is known of each control structure.                                   *)

Modulo == RaplModulus \in Nat \ {0}

ControlRecord == [on : BOOLEAN, cur : 0 .. RaplModulus - 1, acum : Nat, told : Nat]
TruthRecord == [from : Package, energy : Nat, fresh : Nat, sure : BOOLEAN,
                told : Nat, exact : BOOLEAN]

(* As long as the register of the package last read has wrapped at most once, what  *)
(* it shows tells what was spent since; and if the readings can tell at all, it has *)
(* and the sum is what had been spent before.                                       *)
Agrees(C, T) ==
    /\ T.fresh <= T.energy
    /\ C.on /\ T.fresh < RaplModulus =>
          EC!Register(T.from) =
              IF C.cur + T.fresh < RaplModulus THEN C.cur + T.fresh
              ELSE C.cur + T.fresh - RaplModulus
    /\ C.on /\ T.sure => T.fresh < RaplModulus /\ C.acum + T.fresh = T.energy
    /\ T.exact => C.told = T.told

CountsInv ==
    /\ spent \in [Package -> Nat]
    /\ ctl \in [EC!Control -> ControlRecord]
    /\ truth \in [EC!Control -> TruthRecord]
    /\ \A c \in EC!Control : Agrees(ctl[c], truth[c])

RaplInv ==
    /\ CountsInv
    /\ rapl \in [user : {"none", "mm", "edp"}, timer : BOOLEAN, locked : BOOLEAN]
    /\ timer \in {"off", "pending", "running"}
    /\ edp \in [on : BOOLEAN, resetting : BOOLEAN]
    /\ EC!TimerHasUser

LEMMA RegisterType ==
    ASSUME Modulo, spent \in [Package -> Nat], NEW p \in Package
    PROVE  EC!Register(p) \in 0 .. RaplModulus - 1
  BY RegisterStep DEF Modulo, EC!Register

(* A reading on package p.  If the one before was there too, the difference is what *)
(* was spent since.                                                                 *)
LEMMA ReadIs ==
    ASSUME Modulo, spent \in [Package -> Nat], NEW C \in ControlRecord,
           NEW T \in TruthRecord, Agrees(C, T), NEW p \in Package
    PROVE  LET A == EC!do_read_energy_msrs(C, p, TRUE)
               R == EC!do_read_energy_msrs(C, p, FALSE)
           IN  /\ A \in ControlRecord /\ R \in ControlRecord
               /\ A.on = C.on /\ A.told = C.told /\ A.cur = EC!Register(p)
               /\ R.on = C.on /\ R.told = C.told /\ R.cur = EC!Register(p)
               /\ R.acum = C.acum
               /\ C.on /\ T.sure /\ p = T.from => A.acum = T.energy
  <1>1. ASSUME NEW acum \in BOOLEAN, NEW R, R = EC!do_read_energy_msrs(C, p, acum)
        PROVE  /\ R \in ControlRecord
               /\ R.on = C.on /\ R.told = C.told /\ R.cur = EC!Register(p)
               /\ ~acum => R.acum = C.acum
               /\ acum /\ C.on /\ T.sure /\ p = T.from => R.acum = T.energy
    <2> DEFINE new == EC!Register(p)
               delta == IF new < C.cur THEN (RaplModulus - 1 - C.cur) + new + 1 ELSE new - C.cur
               sum == IF acum THEN C.acum + delta ELSE C.acum
    <2>1. new \in 0 .. RaplModulus - 1
      BY RegisterType
    <2>2. C \in [on : BOOLEAN, cur : 0 .. RaplModulus - 1, acum : Nat, told : Nat]
      BY DEF ControlRecord
    <2>3. T.fresh \in Nat /\ T.energy \in Nat
      BY DEF TruthRecord
    <2>4. C.on /\ T.sure /\ p = T.from =>
              /\ T.fresh < RaplModulus
              /\ new = IF C.cur + T.fresh < RaplModulus THEN C.cur + T.fresh
                       ELSE C.cur + T.fresh - RaplModulus
              /\ C.acum + T.fresh = T.energy
      BY DEF Agrees
    <2>5. R = [C EXCEPT !.cur = new, !.acum = sum]
      BY <1>1, Zenon DEF EC!do_read_energy_msrs
    <2>6. RaplModulus \in Nat \ {0}
      BY DEF Modulo
    <2> HIDE DEF new
    <2>7. delta \in Nat
      BY <2>1, <2>2, <2>6
    <2>8. C.on /\ T.sure /\ p = T.from => C.acum + delta = T.energy
      BY <2>1, <2>2, <2>3, <2>4, <2>6
    <2> HIDE DEF delta
    <2>9. sum \in Nat /\ (acum => sum = C.acum + delta) /\ (~acum => sum = C.acum)
      BY <2>2, <2>7
    <2> HIDE DEF sum
    <2>10. /\ R \in [on : BOOLEAN, cur : 0 .. RaplModulus - 1, acum : Nat, told : Nat]
           /\ R.on = C.on /\ R.told = C.told /\ R.cur = new /\ R.acum = sum
      BY <2>1, <2>2, <2>5, <2>9
    <2> QED  BY <2>8, <2>9, <2>10 DEF new, ControlRecord
  <1> QED  BY <1>1, Zenon

(* A step that replaces the records of one control structure by others that agree.  *)
LEMMA CountsChange ==
    ASSUME CountsInv, NEW c \in EC!Control, NEW C \in ControlRecord,
           NEW T \in TruthRecord, Agrees(C, T),
           ctl' = [ctl EXCEPT ![c] = C], truth' = [truth EXCEPT ![c] = T], spent' = spent
    PROVE  CountsInv'
  <1> USE DEF CountsInv
  <1>1. /\ (spent \in [Package -> Nat])'
        /\ (ctl \in [EC!Control -> ControlRecord])'
        /\ (truth \in [EC!Control -> TruthRecord])'
    BY DEF ControlRecord, TruthRecord
  <1>2. \A p : EC!Register(p)' = EC!Register(p)
    BY DEF EC!Register
  <1>3. ASSUME NEW d \in EC!Control
        PROVE  Agrees(ctl[d], truth[d])'
    <2>1. CASE d = c
      <3>1. ctl'[d] = C /\ truth'[d] = T
        BY <2>1
      <3> QED  BY <1>2, <3>1 DEF Agrees
    <2>2. CASE d # c
      <3>1. ctl'[d] = ctl[d] /\ truth'[d] = truth[d]
        BY <2>2
      <3>2. Agrees(ctl[d], truth[d])
        OBVIOUS
      <3> QED  BY <1>2, <3>1, <3>2 DEF Agrees
    <2> QED  BY <2>1, <2>2
  <1>4. (\A d \in EC!Control : Agrees(ctl[d], truth[d]))'
    BY <1>3 DEF EC!Control
  <1> QED  BY <1>1, <1>4

(* One that leaves them all alone.                                                  *)
LEMMA CountsStay ==
    ASSUME CountsInv, UNCHANGED <<spent, ctl, truth>>
    PROVE  CountsInv'
  <1>1. ASSUME NEW d \in EC!Control
        PROVE  Agrees(ctl[d], truth[d])'
    BY DEF CountsInv, Agrees, EC!Register
  <1>2. (\A d \in EC!Control : Agrees(ctl[d], truth[d]))'
    BY <1>1 DEF EC!Control
  <1> QED  BY <1>2 DEF CountsInv, ControlRecord, TruthRecord, EC!Control

(* A package spends a unit of energy.                                               *)
LEMMA CountsSpend ==
    ASSUME Modulo, CountsInv, NEW p \in Package, EC!Spend(p)
    PROVE  CountsInv'
  <1> USE DEF CountsInv
  <1>1. spent' = [spent EXCEPT ![p] = @ + 1] /\ ctl' = ctl
    BY DEF EC!Spend
  <1>2. ASSUME NEW c \in EC!Control
        PROVE  truth'[c] \in TruthRecord /\ Agrees(ctl[c], truth[c])'
    <2> DEFINE T == truth[c]
               C == ctl[c]
               sure == T.sure /\ T.fresh + 1 < RaplModulus
               energy == T.energy + 1
               fresh == T.fresh + 1
    <2>1. T \in TruthRecord /\ C \in ControlRecord /\ Agrees(C, T) /\ ctl'[c] = C
      BY <1>1
    <2>2. CASE ~C.on \/ T.from # p
      <3>1. truth'[c] = T
        BY <2>2 DEF EC!Spend
      <3>2. C.on => EC!Register(T.from)' = EC!Register(T.from)
        <4>1. C.on => spent'[T.from] = spent[T.from]
          BY <1>1, <2>1, <2>2 DEF TruthRecord
        <4>2. EC!Register(T.from)' = spent'[T.from] % RaplModulus
          BY <3>1 DEF EC!Register
        <4> QED  BY <4>1, <4>2 DEF EC!Register
      <3>3. EC!Register(truth[c].from)' = EC!Register(T.from)'
        BY <3>1 DEF EC!Register
      <3> QED  BY <2>1, <3>1, <3>2, <3>3 DEF Agrees
    <2>3. CASE C.on /\ T.from = p
      <3>1. truth'[c] = [T EXCEPT !.energy = energy, !.fresh = fresh, !.sure = sure]
        BY <2>3 DEF EC!Spend
      <3>2. energy \in Nat /\ fresh \in Nat /\ sure \in BOOLEAN
        BY <2>1 DEF TruthRecord
      <3>3. T \in [from : Package, energy : Nat, fresh : Nat, sure : BOOLEAN,
                   told : Nat, exact : BOOLEAN]
        BY <2>1 DEF TruthRecord
      <3>4. /\ T.fresh <= T.energy
            /\ T.fresh < RaplModulus =>
                  EC!Register(p) = IF C.cur + T.fresh < RaplModulus THEN C.cur + T.fresh
                                   ELSE C.cur + T.fresh - RaplModulus
            /\ T.sure => C.acum + T.fresh = T.energy
            /\ T.exact => C.told = T.told
        BY <2>1, <2>3 DEF Agrees
      <3>5. /\ EC!Register(p) \in 0 .. RaplModulus - 1
            /\ spent'[p] % RaplModulus =
                  IF EC!Register(p) = RaplModulus - 1 THEN 0 ELSE EC!Register(p) + 1
        <4>1. spent[p] \in Nat /\ spent'[p] = spent[p] + 1
          BY <1>1
        <4> QED  BY <4>1, RegisterStep DEF EC!Register, Modulo
      <3>6. C.cur \in 0 .. RaplModulus - 1 /\ C.acum \in Nat /\ RaplModulus \in Nat \ {0}
        BY <2>1 DEF ControlRecord, Modulo
      <3> DEFINE U == [T EXCEPT !.energy = energy, !.fresh = fresh, !.sure = sure]
                 shows == EC!Register(p)
                 new == spent'[p] % RaplModulus
      <3>7. /\ T.fresh \in Nat /\ T.energy \in Nat /\ T.sure \in BOOLEAN
            /\ fresh = T.fresh + 1 /\ energy = T.energy + 1
            /\ sure => T.sure /\ T.fresh + 1 < RaplModulus
        BY <3>3
      <3> HIDE DEF energy, fresh, sure, T
      <3>8. /\ U \in [from : Package, energy : Nat, fresh : Nat, sure : BOOLEAN,
                      told : Nat, exact : BOOLEAN]
            /\ U.from = T.from /\ U.energy = energy /\ U.fresh = fresh /\ U.sure = sure
            /\ U.told = T.told /\ U.exact = T.exact
        BY <3>2, <3>3
      <3> HIDE DEF U, C
      <3>9. fresh < RaplModulus =>
               new = IF C.cur + fresh < RaplModulus THEN C.cur + fresh
                     ELSE C.cur + fresh - RaplModulus
        <4> HIDE DEF shows, new
        <4>1. shows \in 0 .. RaplModulus - 1
              /\ new = IF shows = RaplModulus - 1 THEN 0 ELSE shows + 1
          BY <3>5 DEF shows, new
        <4>2. T.fresh < RaplModulus =>
                 shows = IF C.cur + T.fresh < RaplModulus THEN C.cur + T.fresh
                         ELSE C.cur + T.fresh - RaplModulus
          BY <3>4 DEF shows
        <4> QED  BY <3>6, <3>7, <4>1, <4>2
      <3>10. EC!Register(truth[c].from)' = new
        BY <2>3, <3>1, <3>8 DEF EC!Register, U
      <3>11. truth'[c] = U
        BY <3>1 DEF U
      <3>12. fresh <= energy /\ (sure => fresh < RaplModulus /\ C.acum + fresh = energy)
        BY <3>4, <3>6, <3>7
      <3>13. (T.exact => C.told = T.told) /\ ctl'[c] = C
        BY <2>1, <3>4 DEF C
      <3>14. U \in TruthRecord
        BY <3>8 DEF TruthRecord
      <3> HIDE DEF new
      <3> QED  BY <3>8, <3>9, <3>10, <3>11, <3>12, <3>13, <3>14 DEF Agrees
    <2> QED  BY <2>2, <2>3
  <1>3. truth' \in [EC!Control -> TruthRecord]
    <2>1. truth' = [c \in EC!Control |-> truth'[c]]
      BY DEF EC!Spend
    <2> DEFINE told == [c \in EC!Control |-> truth'[c]]
    <2>2. told \in [EC!Control -> TruthRecord]
      BY <1>2
    <2> HIDE DEF told
    <2> QED  BY <2>1, <2>2 DEF told
  <1>4. spent' \in [Package -> Nat]
    BY <1>1
  <1> QED  BY <1>1, <1>2, <1>3, <1>4 DEF EC!Control

LEMMA CleanRecords ==
    ASSUME EC!RaplAssumption
    PROVE  /\ EC!NoControl \in ControlRecord /\ EC!NoTruth \in TruthRecord
           /\ ~EC!NoControl.on
           /\ Agrees(EC!NoControl, EC!NoTruth)
           /\ EC!intel_rapl_control_init \in ControlRecord
           /\ EC!intel_rapl_control_init.acum = 0 /\ EC!intel_rapl_control_init.told = 0
           /\ EC!NotRead \in TruthRecord
           /\ Agrees(EC!intel_rapl_control_init, EC!NotRead)
  <1>1. 0 \in 0 .. RaplModulus - 1 /\ RaplModulus \in Nat
    BY DEF EC!RaplAssumption
  <1>2. /\ EC!NoControl \in ControlRecord /\ ~EC!NoControl.on
        /\ EC!NoControl.told = 0 /\ EC!NoControl.acum = 0
    BY <1>1 DEF EC!NoControl, ControlRecord
  <1>3. /\ EC!intel_rapl_control_init \in ControlRecord
        /\ EC!intel_rapl_control_init.acum = 0 /\ EC!intel_rapl_control_init.told = 0
    BY <1>2 DEF EC!intel_rapl_control_init, ControlRecord
  <1> DEFINE first == CHOOSE p \in Package : TRUE
  <1>4. first \in Package
    BY DEF EC!RaplAssumption
  <1> HIDE DEF first
  <1>5. /\ EC!NoTruth \in TruthRecord
        /\ EC!NoTruth.fresh = 0 /\ EC!NoTruth.energy = 0 /\ EC!NoTruth.told = 0
    BY <1>4 DEF EC!NoTruth, TruthRecord, first
  <1>6. /\ EC!NotRead \in TruthRecord
        /\ EC!NotRead.fresh = RaplModulus /\ EC!NotRead.energy = RaplModulus
        /\ EC!NotRead.told = 0 /\ ~EC!NotRead.sure
    BY <1>1, <1>5 DEF EC!NotRead, TruthRecord
  <1> QED  BY <1>1, <1>2, <1>3, <1>5, <1>6 DEF Agrees

(* A thread, or a CPU, begins to be monitored, and ends.                            *)
LEMMA CountsBegin ==
    ASSUME EC!RaplAssumption, CountsInv, NEW c \in EC!Control, NEW p \in Package,
           EC!Begin(c, p)
    PROVE  CountsInv'
  <1> DEFINE new == EC!Register(p)
             I == EC!intel_rapl_control_init
             C == [I EXCEPT !.cur = new, !.acum = I.acum]
             N == EC!NoTruth
             T == [N EXCEPT !.from = p]
  <1>1. new \in 0 .. RaplModulus - 1 /\ RaplModulus \in Nat \ {0}
    BY RegisterType DEF CountsInv, Modulo, EC!RaplAssumption
  <1>2. EC!do_read_energy_msrs(I, p, FALSE) = C
    BY Zenon DEF EC!do_read_energy_msrs
  <1>3. /\ ctl' = [ctl EXCEPT ![c] = C] /\ truth' = [truth EXCEPT ![c] = T]
        /\ spent' = spent
    BY <1>2 DEF EC!Begin
  <1>4. I \in ControlRecord /\ I.acum = 0 /\ I.told = 0 /\ N \in TruthRecord
    BY CleanRecords
  <1>5. N.fresh = 0 /\ N.energy = 0 /\ N.told = 0
    BY DEF EC!NoTruth
  <1> HIDE DEF I, N
  <1>6. C \in ControlRecord /\ C.cur = new /\ C.acum = 0 /\ C.told = 0
    BY <1>1, <1>4 DEF ControlRecord
  <1>7. T \in TruthRecord /\ T.from = p /\ T.fresh = 0 /\ T.energy = 0 /\ T.told = 0
    BY <1>4, <1>5 DEF TruthRecord
  <1> HIDE DEF C, T
  <1>8. Agrees(C, T)
    BY <1>1, <1>6, <1>7 DEF Agrees
  <1> QED  BY <1>3, <1>6, <1>7, <1>8, CountsChange

LEMMA CountsEnd ==
    ASSUME EC!RaplAssumption, CountsInv, NEW c \in EC!Control,
           ctl' = [ctl EXCEPT ![c] = EC!NoControl],
           truth' = [truth EXCEPT ![c] = EC!NoTruth], spent' = spent
    PROVE  CountsInv'
  BY CleanRecords, CountsChange

LEMMA NewReadingAgrees ==
    ASSUME Modulo, spent \in [Package -> Nat], NEW R \in ControlRecord,
           NEW T \in TruthRecord, T.fresh = 0, R.cur = EC!Register(T.from),
           R.on /\ T.sure => R.acum = T.energy, T.exact => R.told = T.told
    PROVE  Agrees(R, T)
  <1> DEFINE shows == EC!Register(T.from)
  <1>1. shows \in 0 .. RaplModulus - 1
    BY RegisterType DEF TruthRecord
  <1> HIDE DEF shows
  <1>2. R.cur = shows /\ R.acum \in Nat /\ T.energy \in Nat /\ RaplModulus \in Nat \ {0}
    BY DEF shows, ControlRecord, TruthRecord, Modulo
  <1>3. /\ T.fresh <= T.energy /\ T.fresh < RaplModulus
        /\ R.on /\ T.sure => R.acum + T.fresh = T.energy
        /\ shows = IF R.cur + T.fresh < RaplModulus THEN R.cur + T.fresh
                   ELSE R.cur + T.fresh - RaplModulus
    BY <1>1, <1>2
  <1> QED  BY <1>3 DEF Agrees, shows

(* A register is read for a structure: what agrees goes on agreeing, wherever it is *)
(* read.                                                                            *)
LEMMA ReadAgrees ==
    ASSUME Modulo, CountsInv, NEW c \in EC!Control, NEW p \in Package,
           NEW R, R = EC!Read(c, p, TRUE), NEW T, T = EC!Reading(c, p)
    PROVE  /\ R \in ControlRecord /\ T \in TruthRecord /\ Agrees(R, T)
           /\ R.cur = EC!Register(p) /\ T.from = p /\ T.fresh = 0
           /\ R.on = ctl[c].on /\ (R.on /\ T.sure => R.acum = T.energy)
  <1> DEFINE t == truth[c]
             C == ctl[c]
             sure == t.sure /\ p = t.from
  <1>1. t \in TruthRecord /\ C \in ControlRecord /\ Agrees(C, t)
    BY DEF CountsInv
  <1>2. sure \in BOOLEAN /\ (sure => t.sure /\ p = t.from)
    BY <1>1 DEF TruthRecord
  <1>3. T = [t EXCEPT !.from = p, !.fresh = 0, !.sure = sure]
    BY DEF EC!Reading
  <1>4. R = EC!do_read_energy_msrs(C, p, TRUE)
    BY DEF EC!Read
  <1> HIDE DEF t, C, sure
  <1>5. /\ T \in TruthRecord /\ T.from = p /\ T.fresh = 0 /\ T.energy = t.energy
        /\ T.sure = sure /\ T.told = t.told /\ T.exact = t.exact
    <2> DEFINE u == [t EXCEPT !.from = p, !.fresh = 0, !.sure = sure]
    <2>1. /\ u \in TruthRecord /\ u.from = p /\ u.fresh = 0 /\ u.energy = t.energy
          /\ u.sure = sure /\ u.told = t.told /\ u.exact = t.exact
      BY <1>1, <1>2 DEF TruthRecord
    <2> HIDE DEF u
    <2> QED  BY <1>3, <2>1 DEF u
  <1>6. /\ R \in ControlRecord
        /\ R.on = C.on /\ R.told = C.told /\ R.cur = EC!Register(p)
        /\ C.on /\ t.sure /\ p = t.from => R.acum = t.energy
    <2> DEFINE A == EC!do_read_energy_msrs(C, p, TRUE)
    <2>1. spent \in [Package -> Nat]
      BY DEF CountsInv
    <2>2. /\ A \in ControlRecord
          /\ A.on = C.on /\ A.told = C.told /\ A.cur = EC!Register(p)
          /\ C.on /\ t.sure /\ p = t.from => A.acum = t.energy
      BY <1>1, <2>1, ReadIs
    <2> HIDE DEF A
    <2> QED  BY <1>4, <2>2 DEF A
  <1>7. R.on /\ T.sure => R.acum = T.energy
    BY <1>2, <1>5, <1>6
  <1>8. T.exact => R.told = T.told
    BY <1>1, <1>5, <1>6 DEF Agrees
  <1>9. Agrees(R, T)
    BY <1>5, <1>6, <1>7, <1>8, NewReadingAgrees, ZenonT(30) DEF CountsInv
  <1> QED  BY <1>5, <1>6, <1>7, <1>9 DEF C

LEMMA CountsUpdate ==
    ASSUME Modulo, CountsInv, NEW c \in EC!Control, NEW p \in Package,
           ctl' = [ctl EXCEPT ![c] = EC!Read(c, p, TRUE)],
           truth' = [truth EXCEPT ![c] = EC!Reading(c, p)], spent' = spent
    PROVE  CountsInv'
  BY ReadAgrees, CountsChange

(* The energy of a sample is told, and the sum starts again.                        *)
LEMMA ToldAgrees ==
    ASSUME Modulo, NEW R \in ControlRecord, NEW T \in TruthRecord, Agrees(R, T), R.on,
           NEW C, C = EC!intel_rapl_get_energy_sample_thread(R), NEW U, U = EC!Told(T)
    PROVE  C \in ControlRecord /\ U \in TruthRecord /\ Agrees(C, U)
  <1> DEFINE owed == T.energy - T.fresh
             sure == T.fresh < RaplModulus
  <1>1. C = [R EXCEPT !.told = R.acum, !.acum = 0]
    BY DEF EC!intel_rapl_get_energy_sample_thread
  <1>2. U = [T EXCEPT !.told = owed, !.energy = T.fresh, !.exact = T.sure, !.sure = sure]
    BY DEF EC!Told
  <1>3. /\ T.fresh \in Nat /\ T.energy \in Nat /\ R.acum \in Nat /\ T.fresh <= T.energy
        /\ RaplModulus \in Nat \ {0} /\ R.cur \in 0 .. RaplModulus - 1
    BY DEF TruthRecord, ControlRecord, Agrees, Modulo
  <1>4. owed \in Nat /\ sure \in BOOLEAN /\ (T.sure => R.acum = owed)
    BY <1>3 DEF Agrees
  <1>5. sure <=> T.fresh < RaplModulus
    OBVIOUS
  <1> HIDE DEF owed, sure
  <1>6. /\ C \in ControlRecord /\ C.on = R.on /\ C.cur = R.cur /\ C.acum = 0
        /\ C.told = R.acum
    <2> DEFINE new == [R EXCEPT !.told = R.acum, !.acum = 0]
    <2>1. /\ new \in ControlRecord /\ new.on = R.on /\ new.cur = R.cur /\ new.acum = 0
          /\ new.told = R.acum
      BY <1>3 DEF ControlRecord
    <2> HIDE DEF new
    <2> QED  BY <1>1, <2>1 DEF new
  <1>7. /\ U \in TruthRecord /\ U.from = T.from /\ U.fresh = T.fresh /\ U.energy = T.fresh
        /\ U.told = owed /\ U.exact = T.sure /\ U.sure = sure
    BY <1>2, <1>3, <1>4 DEF TruthRecord
  <1>8. Agrees(C, U)
    BY <1>3, <1>4, <1>5, <1>6, <1>7 DEF Agrees
  <1> QED  BY <1>6, <1>7, <1>8

LEMMA CountsSampled ==
    ASSUME Modulo, CountsInv, NEW p \in Package, EC!intel_rapl_on_new_sample(p)
    PROVE  CountsInv'
  <1> DEFINE R == EC!Read("thread", p, TRUE)
             T == EC!Reading("thread", p)
  <1>1. "thread" \in EC!Control
    BY DEF EC!Control
  <1>2. /\ ctl["thread"].on /\ spent' = spent
        /\ ctl' = [ctl EXCEPT !["thread"] = EC!intel_rapl_get_energy_sample_thread(R)]
        /\ truth' = [truth EXCEPT !["thread"] = EC!Told(T)]
    BY DEF EC!intel_rapl_on_new_sample
  <1>3. R \in ControlRecord /\ T \in TruthRecord /\ Agrees(R, T) /\ R.on
    BY <1>1, <1>2, ReadAgrees
  <1> HIDE DEF R, T
  <1> QED  BY <1>1, <1>2, <1>3, ToldAgrees, CountsChange

LEMMA CountsDumped ==
    ASSUME Modulo, CountsInv, EC!intel_rapl_on_syswide_dump_virtual_counters
    PROVE  CountsInv'
  <1> DEFINE R == ctl["cpu"]
             T == truth["cpu"]
  <1>1. "cpu" \in EC!Control
    BY DEF EC!Control
  <1>2. /\ R.on /\ spent' = spent
        /\ ctl' = [ctl EXCEPT !["cpu"] = EC!intel_rapl_get_energy_sample_thread(R)]
        /\ truth' = [truth EXCEPT !["cpu"] = EC!Told(T)]
    <2>1. ctl["cpu"].on /\ spent' = spent
      BY DEF EC!intel_rapl_on_syswide_dump_virtual_counters
    <2>2. ctl' = [ctl EXCEPT !["cpu"] = EC!intel_rapl_get_energy_sample_thread(@)]
      BY DEF EC!intel_rapl_on_syswide_dump_virtual_counters
    <2>3. truth' = [truth EXCEPT !["cpu"] = EC!Told(@)]
      BY DEF EC!intel_rapl_on_syswide_dump_virtual_counters
    <2> QED  BY <2>1, <2>2, <2>3
  <1>3. R \in ControlRecord /\ T \in TruthRecord /\ Agrees(R, T)
    BY <1>1 DEF CountsInv
  <1> HIDE DEF R, T
  <1> QED  BY <1>1, <1>2, <1>3, ToldAgrees, CountsChange

(* The reset of the EDP: the register is read, and what was spent is dropped.       *)
LEMMA CountsReset ==
    ASSUME Modulo, CountsInv, NEW p \in Package, spent' = spent,
           ctl' = [ctl EXCEPT !["edp"] = EC!Read("edp", p, FALSE)],
           truth' = [truth EXCEPT !["edp"] = [EC!Reading("edp", p) EXCEPT !.energy =
                                                @ - truth["edp"].fresh]]
    PROVE  CountsInv'
  <1> DEFINE t == truth["edp"]
             C == ctl["edp"]
             R == EC!Read("edp", p, FALSE)
             S == EC!Reading("edp", p)
             T == [S EXCEPT !.energy = @ - truth["edp"].fresh]
             sure == t.sure /\ p = t.from
             rest == t.energy - t.fresh
  <1>1. "edp" \in EC!Control
    BY DEF EC!Control
  <1>2. t \in TruthRecord /\ C \in ControlRecord /\ Agrees(C, t)
    BY <1>1 DEF CountsInv
  <1>3. sure \in BOOLEAN /\ (sure => t.sure /\ p = t.from)
    BY <1>2 DEF TruthRecord
  <1>4. S = [t EXCEPT !.from = p, !.fresh = 0, !.sure = sure]
    BY DEF EC!Reading
  <1>5. R = EC!do_read_energy_msrs(C, p, FALSE)
    BY DEF EC!Read
  <1>6. /\ t.energy \in Nat /\ t.fresh \in Nat /\ t.fresh <= t.energy
        /\ rest \in Nat
    BY <1>2 DEF TruthRecord, Agrees
  <1>7. ctl' = [ctl EXCEPT !["edp"] = R] /\ truth' = [truth EXCEPT !["edp"] = T]
    OBVIOUS
  <1> HIDE DEF C, R, sure
  <1>8. T = [t EXCEPT !.from = p, !.energy = rest, !.fresh = 0, !.sure = sure]
    <2>1. S.energy = t.energy
      BY <1>2, <1>4 DEF TruthRecord
    <2>2. T = [S EXCEPT !.energy = rest]
      BY <2>1
    <2> HIDE DEF rest, t, T, S
    <2> QED  BY <1>2, <1>4, <2>2 DEF TruthRecord
  <1>9. /\ R \in ControlRecord /\ R.told = C.told /\ R.cur = EC!Register(p)
        /\ R.on = C.on /\ R.acum = C.acum
    <2>1. spent \in [Package -> Nat]
      BY DEF CountsInv
    <2> QED  BY <1>2, <1>5, <2>1, ReadIs
  <1>10. t.sure /\ C.on => C.acum = rest
    BY <1>2, <1>6 DEF Agrees, ControlRecord
  <1> HIDE DEF rest, t, T
  <1>11. /\ T \in TruthRecord /\ T.from = p /\ T.fresh = 0 /\ T.energy = rest
         /\ T.sure = sure /\ T.told = t.told /\ T.exact = t.exact
    BY <1>2, <1>3, <1>6, <1>8 DEF TruthRecord
  <1>12. T.exact => R.told = T.told
    BY <1>2, <1>9, <1>11 DEF Agrees
  <1>13. /\ EC!Register(p) \in 0 .. RaplModulus - 1 /\ RaplModulus \in Nat \ {0}
         /\ R.acum \in Nat
    BY <1>9, RegisterType DEF CountsInv, Modulo, ControlRecord
  <1>14. Agrees(R, T)
    BY <1>3, <1>6, <1>9, <1>10, <1>11, <1>12, <1>13 DEF Agrees
  <1> QED  BY <1>1, <1>7, <1>9, <1>11, <1>14, CountsChange

(* Then the sum is cleared, or was just being added to.                             *)
LEMMA CountsCleared ==
    ASSUME Modulo, CountsInv, EC!intel_rapl_reset_energy_values
    PROVE  CountsInv'
  <1> DEFINE C == ctl["edp"]
             T == truth["edp"]
             sure == T.fresh < RaplModulus
             R == [C EXCEPT !.acum = 0]
             U == [T EXCEPT !.energy = T.fresh, !.sure = sure]
  <1>1. "edp" \in EC!Control
    BY DEF EC!Control
  <1>2. T \in TruthRecord /\ C \in ControlRecord /\ Agrees(C, T)
    BY <1>1 DEF CountsInv
  <1>3. CASE UNCHANGED <<ctl, truth>>
    BY <1>3, CountsStay DEF EC!intel_rapl_reset_energy_values
  <1>4. CASE /\ ctl' = [ctl EXCEPT !["edp"].acum = 0]
             /\ truth' = [truth EXCEPT !["edp"].energy = truth["edp"].fresh,
                                       !["edp"].sure = truth["edp"].fresh < RaplModulus]
    <2>1. /\ ctl' = [ctl EXCEPT !["edp"] = R] /\ truth' = [truth EXCEPT !["edp"] = U]
          /\ spent' = spent
      BY <1>1, <1>2, <1>4 DEF EC!intel_rapl_reset_energy_values, CountsInv
    <2>2. sure \in BOOLEAN /\ (sure <=> T.fresh < RaplModulus)
      OBVIOUS
    <2> HIDE DEF C, T, sure
    <2>3. R \in ControlRecord /\ R.on = C.on /\ R.cur = C.cur /\ R.acum = 0 /\ R.told = C.told
      BY <1>2 DEF ControlRecord
    <2>4. /\ U \in TruthRecord /\ U.from = T.from /\ U.fresh = T.fresh
          /\ U.energy = T.fresh /\ U.sure = sure /\ U.told = T.told /\ U.exact = T.exact
          /\ T.fresh \in Nat
      BY <1>2, <2>2 DEF TruthRecord
    <2>5. Agrees(R, U)
      BY <1>2, <2>2, <2>3, <2>4 DEF Agrees
    <2> HIDE DEF R, U
    <2> QED  BY <1>1, <2>1, <2>3, <2>4, <2>5, CountsChange
  <1> QED  BY <1>3, <1>4 DEF EC!intel_rapl_reset_energy_values

LEMMA RaplInit ==
    ASSUME EC!RaplAssumption, EC!Init
    PROVE  RaplInv
  <1> USE DEF EC!Init
  <1>1. ASSUME NEW c \in EC!Control
        PROVE  ctl[c] = EC!NoControl /\ truth[c] = EC!NoTruth
    OBVIOUS
  <1>2. CountsInv
    BY <1>1, CleanRecords DEF CountsInv
  <1> QED  BY <1>2 DEF RaplInv, EC!TimerHasUser

LEMMA RaplKeeps ==
    ASSUME EC!RaplAssumption, RaplInv, [EC!Next]_(EC!raplVars)
    PROVE  RaplInv'
  <1> DEFINE Rest == /\ rapl \in [user : {"none", "mm", "edp"}, timer : BOOLEAN, locked : BOOLEAN]
                     /\ timer \in {"off", "pending", "running"}
                     /\ edp \in [on : BOOLEAN, resetting : BOOLEAN]
                     /\ EC!TimerHasUser
  <1>0. Modulo /\ CountsInv /\ Rest
    BY DEF EC!RaplAssumption, Modulo, RaplInv
  <1>s. SUFFICES CountsInv' /\ Rest'
    BY DEF RaplInv
  <1> USE DEF EC!TimerHasUser
  <1>r. UNCHANGED <<rapl, timer, edp>> => Rest'
    BY <1>0
  <1>c. "thread" \in EC!Control /\ "cpu" \in EC!Control /\ "edp" \in EC!Control
    BY DEF EC!Control
  <1>1. ASSUME NEW p \in Package, EC!Spend(p)
        PROVE  CountsInv' /\ Rest'
    BY <1>0, <1>1, <1>r, CountsSpend DEF EC!Spend
  <1>2. CASE EC!intel_rapl_enable_module
    <2>1. CountsInv'
      BY <1>0, <1>2, CountsStay DEF EC!intel_rapl_enable_module
    <2> QED  BY <1>0, <1>2, <2>1 DEF EC!intel_rapl_enable_module
  <1>3. CASE EC!intel_rapl_disable_module
    <2>1. CountsInv'
      BY <1>0, <1>3, CountsStay DEF EC!intel_rapl_disable_module
    <2> QED  BY <1>0, <1>3, <2>1 DEF EC!intel_rapl_disable_module
  <1>4. ASSUME NEW p \in Package, EC!intel_rapl_on_fork(p)
        PROVE  CountsInv' /\ Rest'
    BY <1>0, <1>4, <1>c, <1>r, CountsBegin DEF EC!intel_rapl_on_fork, EC!Begin
  <1>5. ASSUME NEW p \in Package, EC!intel_rapl_on_syswide_start_monitor(p)
        PROVE  CountsInv' /\ Rest'
    BY <1>0, <1>5, <1>c, <1>r, CountsBegin DEF EC!intel_rapl_on_syswide_start_monitor, EC!Begin
  <1>6. ASSUME NEW p \in Package, EC!intel_rapl_on_new_sample(p)
        PROVE  CountsInv' /\ Rest'
    BY <1>0, <1>6, <1>r, CountsSampled DEF EC!intel_rapl_on_new_sample
  <1>7. CASE EC!intel_rapl_on_syswide_refresh_monitor
    <2> DEFINE p == truth["cpu"].from
    <2>1. p \in Package
      BY <1>0, <1>c DEF CountsInv, TruthRecord
    <2>2. /\ ctl' = [ctl EXCEPT !["cpu"] = EC!Read("cpu", p, TRUE)]
          /\ truth' = [truth EXCEPT !["cpu"] = EC!Reading("cpu", p)]
          /\ UNCHANGED <<spent, rapl, timer, edp>>
      BY <1>7 DEF EC!intel_rapl_on_syswide_refresh_monitor
    <2> HIDE DEF p
    <2> QED  BY <1>0, <1>c, <1>r, <2>1, <2>2, CountsUpdate
  <1>8. CASE EC!intel_rapl_on_syswide_dump_virtual_counters
    BY <1>0, <1>8, <1>r, CountsDumped DEF EC!intel_rapl_on_syswide_dump_virtual_counters
  <1>9. CASE EC!intel_rapl_on_free_task
    BY <1>0, <1>9, <1>c, <1>r, CountsEnd DEF EC!intel_rapl_on_free_task, EC!End
  <1>10. CASE EC!SyswideEnds
    BY <1>0, <1>10, <1>c, <1>r, CountsEnd DEF EC!SyswideEnds, EC!End
  <1>11. CASE EC!edp_initialize_environment
    <2>1. CountsInv'
      BY <1>0, <1>11, <1>c, CleanRecords, CountsChange DEF EC!edp_initialize_environment
    <2> QED  BY <1>0, <1>11, <2>1 DEF EC!edp_initialize_environment
  <1>12. CASE EC!TimerExpires
    <2>1. CountsInv'
      BY <1>0, <1>12, CountsStay DEF EC!TimerExpires
    <2> QED  BY <1>0, <1>12, <2>1 DEF EC!TimerExpires
  <1>13. ASSUME NEW p \in Package, EC!rapl_timer(p)
         PROVE  CountsInv' /\ Rest'
    <2>1. CountsInv'
      BY <1>0, <1>13, <1>c, CountsUpdate DEF EC!rapl_timer, EC!Update
    <2> QED  BY <1>0, <1>13, <2>1 DEF EC!rapl_timer
  <1>14. ASSUME NEW p \in Package, EC!edp_dump_global_counters(p)
         PROVE  CountsInv' /\ Rest'
    <2>1. CASE edp.on
      <3>1. CountsInv'
        BY <1>0, <1>14, <1>c, <2>1, CountsUpdate DEF EC!edp_dump_global_counters, EC!Update
      <3> QED  BY <1>0, <1>14, <2>1, <3>1 DEF EC!edp_dump_global_counters, EC!Ready, EC!Rearm
    <2>2. CASE ~edp.on
      <3>1. CountsInv'
        BY <1>0, <1>14, <2>2, CountsStay DEF EC!edp_dump_global_counters
      <3> QED  BY <1>14, <1>r, <2>2, <3>1 DEF EC!edp_dump_global_counters
    <2> QED  BY <2>1, <2>2
  <1>15. ASSUME NEW p \in Package, EC!edp_pause_global_counts(p)
         PROVE  CountsInv' /\ Rest'
    <2>1. CountsInv'
      BY <1>0, <1>15, <1>c, CountsUpdate DEF EC!edp_pause_global_counts, EC!Update
    <2> QED  BY <1>0, <1>15, <2>1 DEF EC!edp_pause_global_counts, EC!Ready, EC!Rearm
  <1>16. CASE EC!edp_resume_global_counts
    <2>1. CountsInv'
      BY <1>0, <1>16, CountsStay DEF EC!edp_resume_global_counts
    <2> QED  BY <1>0, <1>16, <2>1 DEF EC!edp_resume_global_counts
  <1>17. ASSUME NEW p \in Package, EC!edp_reset_global_counters(p)
         PROVE  CountsInv' /\ Rest'
    <2>1. CountsInv'
      BY <1>0, <1>17, CountsReset DEF EC!edp_reset_global_counters
    <2> QED  BY <1>0, <1>17, <2>1 DEF EC!edp_reset_global_counters, EC!Ready, EC!Rearm
  <1>18. CASE EC!intel_rapl_reset_energy_values
    <2>1. CountsInv'
      BY <1>0, <1>18, CountsCleared
    <2> QED  BY <1>0, <1>18, <2>1 DEF EC!intel_rapl_reset_energy_values
  <1>19. CASE EC!edp_release_resources
    <2>1. CountsInv'
      BY <1>0, <1>19, CountsStay DEF EC!edp_release_resources
    <2> QED  BY <1>0, <1>19, <2>1 DEF EC!edp_release_resources
  <1>20. CASE EC!intel_rapl_release
    <2>1. CountsInv'
      BY <1>0, <1>20, <1>c, CountsEnd DEF EC!intel_rapl_release
    <2> QED  BY <1>0, <1>20, <2>1 DEF EC!intel_rapl_release
  <1>21. CASE UNCHANGED EC!raplVars
    BY <1>0, <1>21, <1>r, CountsStay DEF EC!raplVars
  <1> QED
    BY <1>1, <1>2, <1>3, <1>4, <1>5, <1>6, <1>7, <1>8, <1>9, <1>10, <1>11, <1>12, <1>13,
       <1>14, <1>15, <1>16, <1>17, <1>18, <1>19, <1>20, <1>21
    DEF EC!Next

LEMMA RaplSuffices ==
    ASSUME EC!RaplAssumption, RaplInv
    PROVE  EC!EnergyCountersAreSound
  <1>1. ASSUME NEW c \in EC!Control
        PROVE  /\ Agrees(ctl[c], truth[c])
               /\ ctl[c].acum \in Nat /\ truth[c].fresh \in Nat /\ truth[c].energy \in Nat
    BY DEF RaplInv, CountsInv, ControlRecord, TruthRecord
  <1>2. EC!EdpEnergyIsExact
    BY <1>1 DEF EC!EdpEnergyIsExact, EC!Control, Agrees
  <1>3. EC!SampleEnergyIsExact
    BY <1>1 DEF EC!SampleEnergyIsExact, EC!Control, Agrees
  <1> QED  BY <1>2, <1>3 DEF RaplInv, EC!EnergyCountersAreSound

-----------------------------------------------------------------------------------
(* Smart Power meters: what the helpers do to one meter.                            *)

MeterRecord == [at : {"none", "plugged", "leaving", "gone", "freed"}, refs : Nat,
                answer : BOOLEAN, urb : {"none", "idle", "active", "freed"}]

LEMMA GotIs ==
    ASSUME NEW M \in [Meter -> MeterRecord], NEW m \in Meter
    PROVE  /\ SP!Got(M, m) \in [Meter -> MeterRecord]
           /\ \A k \in Meter \ {m} : SP!Got(M, m)[k] = M[k]
           /\ SP!Got(M, m)[m].at = M[m].at /\ SP!Got(M, m)[m].urb = M[m].urb
           /\ SP!Got(M, m)[m].refs = M[m].refs + 1
  <1> DEFINE r == M[m]
             n == r.refs + 1
             s == [r EXCEPT !.refs = n]
  <1>1. SP!Got(M, m) = [M EXCEPT ![m] = s]
    BY DEF SP!Got
  <1>2. r \in MeterRecord
    OBVIOUS
  <1> HIDE DEF r
  <1>3. n \in Nat
    BY <1>2 DEF MeterRecord
  <1> HIDE DEF n
  <1>4. s \in MeterRecord /\ s.at = r.at /\ s.urb = r.urb /\ s.refs = n
    BY <1>2, <1>3 DEF MeterRecord
  <1> HIDE DEF s
  <1> QED  BY <1>1, <1>4 DEF n, r

LEMMA PutIs ==
    ASSUME NEW M \in [Meter -> MeterRecord], NEW m \in Meter
    PROVE  /\ SP!Put(M, m) \in [Meter -> MeterRecord]
           /\ \A k \in Meter \ {m} : SP!Put(M, m)[k] = M[k]
           /\ SP!Put(M, m)[m].urb = M[m].urb
           /\ M[m].refs <= 1 => SP!Put(M, m)[m].at = "freed" /\ SP!Put(M, m)[m].refs = 0
           /\ M[m].refs > 1 => /\ SP!Put(M, m)[m].at = M[m].at
                               /\ SP!Put(M, m)[m].refs = M[m].refs - 1
  <1> DEFINE r == M[m]
             n == r.refs - 1
             s == [r EXCEPT !.refs = n]
             d == [r EXCEPT !.at = "freed", !.refs = 0]
  <1>1. SP!Put(M, m) = IF r.refs <= 1 THEN [M EXCEPT ![m] = d] ELSE [M EXCEPT ![m] = s]
    BY DEF SP!Put, SP!spower_delete
  <1>2. r \in MeterRecord
    OBVIOUS
  <1> HIDE DEF r
  <1>3. r.refs \in Nat
    BY <1>2 DEF MeterRecord
  <1>4. d \in MeterRecord /\ d.at = "freed" /\ d.urb = r.urb /\ d.refs = 0
    BY <1>2 DEF MeterRecord
  <1>5. CASE r.refs <= 1
    <2> HIDE DEF d, s
    <2>1. SP!Put(M, m) = [M EXCEPT ![m] = d]
      BY <1>1, <1>5
    <2> QED  BY <1>3, <1>4, <1>5, <2>1 DEF r
  <1>6. CASE ~(r.refs <= 1)
    <2>1. n \in Nat
      BY <1>3, <1>6
    <2> HIDE DEF n
    <2>2. s \in MeterRecord /\ s.at = r.at /\ s.urb = r.urb /\ s.refs = n
      BY <1>2, <2>1 DEF MeterRecord
    <2> HIDE DEF s
    <2>3. SP!Put(M, m) = [M EXCEPT ![m] = s]
      BY <1>1, <1>6
    <2> QED  BY <1>3, <1>6, <2>2, <2>3 DEF r, n
  <1> QED  BY <1>5, <1>6

LEMMA KilledIs ==
    ASSUME NEW M \in [Meter -> MeterRecord], NEW m \in Meter
    PROVE  /\ SP!Killed(M, m) \in [Meter -> MeterRecord]
           /\ \A k \in Meter \ {m} : SP!Killed(M, m)[k] = M[k]
           /\ SP!Killed(M, m)[m].at = M[m].at /\ SP!Killed(M, m)[m].refs = M[m].refs
           /\ SP!Killed(M, m)[m].urb = IF M[m].urb = "active" THEN "idle" ELSE M[m].urb
  <1> DEFINE r == M[m]
             u == IF r.urb = "active" THEN "idle" ELSE r.urb
             s == [r EXCEPT !.urb = u, !.answer = FALSE]
  <1>1. SP!Killed(M, m) = [M EXCEPT ![m] = s]
    BY DEF SP!Killed
  <1>2. r \in MeterRecord
    OBVIOUS
  <1> HIDE DEF r
  <1>3. u \in {"none", "idle", "active", "freed"}
    BY <1>2 DEF MeterRecord
  <1> HIDE DEF u
  <1>4. s \in MeterRecord /\ s.at = r.at /\ s.urb = u /\ s.refs = r.refs
    BY <1>2, <1>3 DEF MeterRecord
  <1> HIDE DEF s
  <1> QED  BY <1>1, <1>4 DEF u, r

LEMMA SubmittedIs ==
    ASSUME NEW M \in [Meter -> MeterRecord], NEW m \in Meter
    PROVE  /\ SP!Submitted(M, m) \in [Meter -> MeterRecord]
           /\ \A k \in Meter \ {m} : SP!Submitted(M, m)[k] = M[k]
           /\ SP!Submitted(M, m)[m].at = M[m].at /\ SP!Submitted(M, m)[m].refs = M[m].refs
           /\ SP!Submitted(M, m)[m].urb = IF M[m].urb = "idle" THEN "active" ELSE M[m].urb
  <1> DEFINE r == M[m]
             u == IF r.urb = "idle" THEN "active" ELSE r.urb
             s == [r EXCEPT !.urb = u]
  <1>1. SP!Submitted(M, m) = [M EXCEPT ![m] = s]
    BY DEF SP!Submitted
  <1>2. r \in MeterRecord
    OBVIOUS
  <1> HIDE DEF r
  <1>3. u \in {"none", "idle", "active", "freed"}
    BY <1>2 DEF MeterRecord
  <1> HIDE DEF u
  <1>4. s \in MeterRecord /\ s.at = r.at /\ s.urb = u /\ s.refs = r.refs
    BY <1>2, <1>3 DEF MeterRecord
  <1> HIDE DEF s
  <1> QED  BY <1>1, <1>4 DEF u, r

-----------------------------------------------------------------------------------
(* Meters that are not unplugged under the module, which cannot stop then.          *)

Stays == ~(SP!May("unplug") /\ SP!May("module"))
OneUserOnly == SP!OneUser /\ ~SP!May("refuse")

FdRecord == {r \in [meter : Meter \cup {NoMeter}, reads : BOOLEAN,
                    step : {"closed", "opening", "open", "closing"}] :
               r.step # "closed" => r.meter \in Meter}
GblRecord == [dev : Meter \cup {NoMeter}, started : 0 .. 2, samples : 0 .. BufferSlots,
              timer : BOOLEAN]

MeterTypes ==
    /\ meter \in [Meter -> MeterRecord]
    /\ gbl \in GblRecord
    /\ leaving \in Meter \cup {NoMeter}
    /\ stopped \in BOOLEAN
    /\ fd \in [Fd -> FdRecord]
    /\ meterModule \in BOOLEAN

(* Only what the setup allows happens.                                              *)
OnlyWhatMay ==
    /\ meterModule => SP!May("module")
    /\ \A f \in Fd : IF fd[f].step = "closed" THEN fd[f] = SP!NoUser
                     ELSE SP!May("files") /\ fd[f].meter \in Meter
    /\ \A m \in Meter : meter[m].at \in {"leaving", "gone"} => SP!May("unplug")

(* The request of a meter is there as long as it is plugged in.                     *)
UrbIsOfPlugged ==
    \A m \in Meter : /\ meter[m].at = "none" => meter[m].urb = "none"
                     /\ meter[m].at = "plugged" => meter[m].urb \in {"idle", "active"}
                     /\ meter[m].at \in {"leaving", "gone"} => meter[m].urb = "freed"

(* The driver knows one meter, which the module starts and stops.                   *)
DevIsThere ==
    /\ gbl.dev \in Meter => meter[gbl.dev].at \in {"plugged", "leaving"}
    /\ meterModule => /\ gbl.dev \in Meter
                 /\ gbl.started = IF leaving = NoMeter THEN 1 ELSE 2
    /\ ~meterModule => gbl.started = 0 /\ leaving = NoMeter
    /\ leaving # NoMeter => leaving = gbl.dev
    /\ stopped => leaving # NoMeter

(* Each user has a reference; those that are refused keep theirs.                   *)
Using(m) == {f \in Fd : fd[f].step \in {"open", "closing"} /\ fd[f].meter = m}
Opened(m) == Cardinality(Using(m))
Plugged(m) == IF meter[m].at \in {"plugged", "leaving"} THEN 1 ELSE 0
Measures(m) == IF meterModule /\ gbl.dev = m THEN 1 ELSE 0
HasRefs(m) ==
    /\ meter[m].refs >= Opened(m) + Plugged(m) + Measures(m)
    /\ meter[m].at \in {"none", "freed"} => meter[m].refs = 0
    /\ meter[m].at = "gone" => meter[m].refs >= 1
    /\ OneUserOnly => meter[m].refs = Opened(m) + Plugged(m) + Measures(m)

(* Who has sent the request that is under way, and started the timer.               *)
Reading(f) == fd[f].reads /\ fd[f].step = "open"
UrbHasUser ==
    \A m \in Meter : meter[m].urb = "active" =>
        \/ meterModule /\ gbl.dev = m /\ ~stopped
        \/ \E f \in Fd : Reading(f) /\ fd[f].meter = m
TimerHasReader ==
    gbl.timer \/ gbl.samples > 0 =>
        meterModule \/ \E f \in Fd : fd[f].reads /\ fd[f].step \in {"open", "closing"}

ModuleMeasures ==
    ~SP!May("files") /\ ~SP!May("unplug") /\ meterModule =>
        gbl.timer /\ (~stopped => SP!May("refuse") \/ meter[gbl.dev].urb = "active")

MeterSteady ==
    /\ OnlyWhatMay
    /\ UrbIsOfPlugged
    /\ DevIsThere
    /\ \A m \in Meter : HasRefs(m)
    /\ UrbHasUser
    /\ TimerHasReader
    /\ ModuleMeasures
    /\ SP!NothingWrong

MeterInv == MeterTypes /\ (Stays => MeterSteady)

(* Without files the timer is pending only between a start and a stop, even if meters *)
(* are unplugged meanwhile.                                                           *)
TimerIsStarted ==
    ~SP!May("files") =>
        /\ \A f \in Fd : fd[f] = SP!NoUser
        /\ gbl.timer => gbl.started # 0
        /\ "timer added twice" \notin wrong

LEMMA OpenedType ==
    ASSUME IsFiniteSet(Fd), NEW m
    PROVE  /\ IsFiniteSet(Using(m)) /\ Opened(m) \in Nat
           /\ (\E f \in Using(m) : TRUE) => Opened(m) >= 1
  <1>1. Using(m) \subseteq Fd
    BY DEF Using
  <1>2. IsFiniteSet(Using(m)) /\ Opened(m) \in Nat
    BY <1>1, FS_Subset, FS_CardinalityType DEF Opened
  <1>3. Opened(m) = 0 => Using(m) = {}
    BY <1>2, FS_EmptySet DEF Opened
  <1> QED  BY <1>2, <1>3

(* A file that becomes, or ceases to be, a user of a meter.                         *)
LEMMA OpenedChanges ==
    ASSUME IsFiniteSet(Fd), fd \in [Fd -> FdRecord], NEW f \in Fd, NEW r \in FdRecord,
           fd' = [fd EXCEPT ![f] = r], NEW m
    PROVE  LET uses == r.step \in {"open", "closing"} /\ r.meter = m
           IN  Opened(m)' = IF f \in Using(m) THEN IF uses THEN Opened(m) ELSE Opened(m) - 1
                            ELSE IF uses THEN Opened(m) + 1 ELSE Opened(m)
  <1> DEFINE uses == r.step \in {"open", "closing"} /\ r.meter = m
  <1>1. fd'[f] = r /\ \A g \in Fd \ {f} : fd'[g] = fd[g]
    OBVIOUS
  <1>2. \A g \in Fd : g \in Using(m)' <=> IF g = f THEN uses ELSE g \in Using(m)
    BY <1>1 DEF Using
  <1>3. Using(m) \subseteq Fd /\ Using(m)' \subseteq Fd
    BY DEF Using
  <1>4. IsFiniteSet(Using(m)) /\ Opened(m) \in Nat
    BY OpenedType
  <1> HIDE DEF uses
  <1>5. Using(m)' = IF uses THEN Using(m) \cup {f} ELSE Using(m) \ {f}
    BY <1>2, <1>3
  <1>6. CASE uses
    <2>1. Using(m)' = Using(m) \cup {f}
      BY <1>5, <1>6
    <2> QED  BY <1>4, <1>6, <2>1, FS_AddElement DEF Opened, uses
  <1>7. CASE ~uses
    <2>1. Using(m)' = Using(m) \ {f}
      BY <1>5, <1>7
    <2> QED  BY <1>4, <1>7, <2>1, FS_RemoveElement DEF Opened, uses
  <1> QED  BY <1>6, <1>7

LEMMA OpenedStays ==
    ASSUME NEW m, fd' = fd
    PROVE  Opened(m)' = Opened(m) /\ Using(m)' = Using(m)
  BY DEF Opened, Using

(* The operators of FiniteSets that the module of the meters has.                   *)
LEMMA SameCardinality ==
    ASSUME NEW S
    PROVE  SP!Cardinality(S) = Cardinality(S) /\ (SP!IsFiniteSet(S) <=> IsFiniteSet(S))
  <1>1. SP!Cardinality(S) = Cardinality(S)
    BY Zenon DEF SP!Cardinality, Cardinality
  <1>2. SP!IsFiniteSet(S) <=> IsFiniteSet(S)
    BY Zenon DEF SP!IsFiniteSet, IsFiniteSet
  <1> QED  BY <1>1, <1>2

(* With one file only, one file has it open.                                        *)
LEMMA OneFileOnly ==
    ASSUME IsFiniteSet(Fd), SP!OneUser, SP!May("files")
    PROVE  ~SP!May("module") /\ \A f, g \in Fd : f = g
  <1>1. ~SP!May("module") /\ Cardinality(Fd) = 1
    BY SameCardinality DEF SP!OneUser
  <1>2. PICK x : Fd = {x}
    BY <1>1, FS_Singleton
  <1> QED  BY <1>1, <1>2

LEMMA SetupStays ==
    ASSUME meterSetup' = meterSetup
    PROVE  /\ \A what : SP!May(what)' = SP!May(what)
           /\ Stays' = Stays /\ OneUserOnly' = OneUserOnly /\ SP!OneUser' = SP!OneUser
  BY DEF SP!May, Stays, OneUserOnly, SP!OneUser

(* What a step adds to what is wrong.                                               *)
LEMMA NothingElseWrong ==
    ASSUME Stays, SP!NothingWrong, meterSetup' = meterSetup, NEW W, wrong' = wrong \cup W,
           SP!OneUser => "timer added twice" \notin W,
           "freed meter" \notin W, ~SP!May("unplug") => "freed URB" \notin W
    PROVE  SP!NothingWrong'
  BY SetupStays DEF SP!NothingWrong, Stays

LEMMA HasRefsStays ==
    ASSUME NEW m \in Meter, HasRefs(m), meterSetup' = meterSetup,
           meter'[m].at = meter[m].at, meter'[m].refs = meter[m].refs,
           Opened(m)' = Opened(m), (meterModule /\ gbl.dev = m)' <=> (meterModule /\ gbl.dev = m)
    PROVE  HasRefs(m)'
  <1>1. Plugged(m)' = Plugged(m) /\ Measures(m)' = Measures(m)
    BY DEF Plugged, Measures
  <1> QED  BY <1>1, SetupStays DEF HasRefs

LEMMA MeterInit ==
    ASSUME SP!MeterAssumption, SP!Init
    PROVE  MeterInv
  <1> USE DEF SP!Init, SP!MeterAssumption
  <1>1. meter \in [Meter -> MeterRecord]
    BY DEF MeterRecord
  <1>2. fd \in [Fd -> FdRecord]
    BY DEF FdRecord, SP!NoUser
  <1>3. gbl \in GblRecord
    <2>1. 0 \in 0 .. BufferSlots
      OBVIOUS
    <2> QED  BY <2>1 DEF GblRecord
  <1>t. MeterTypes
    BY <1>1, <1>2, <1>3 DEF MeterTypes
  <1>4. OnlyWhatMay /\ UrbIsOfPlugged /\ DevIsThere
    BY DEF OnlyWhatMay, UrbIsOfPlugged, DevIsThere, SP!NoUser
  <1>5. ASSUME NEW m \in Meter
        PROVE  HasRefs(m)
    <2>1. Using(m) = {}
      BY DEF Using, SP!NoUser
    <2>2. Opened(m) = 0
      BY <2>1, FS_EmptySet DEF Opened
    <2> QED  BY <2>2 DEF HasRefs, Plugged, Measures
  <1>6. UrbHasUser /\ TimerHasReader /\ ModuleMeasures /\ SP!NothingWrong
    BY DEF UrbHasUser, TimerHasReader, ModuleMeasures, SP!NothingWrong
  <1> QED  BY <1>t, <1>4, <1>5, <1>6 DEF MeterInv, MeterSteady

-----------------------------------------------------------------------------------
(* What happens on the bus.                                                         *)

LEMMA MeterProbe ==
    ASSUME SP!MeterAssumption, MeterInv, NEW m \in Meter, SP!spower_probe(m)
    PROVE  MeterInv'
  <1> DEFINE r == [at |-> "plugged", refs |-> 1, urb |-> "idle", answer |-> FALSE]
             dev == IF gbl.dev = NoMeter THEN m ELSE gbl.dev
  <1>0. /\ meter[m].at = "none" /\ meter' = [meter EXCEPT ![m] = r]
        /\ gbl' = [gbl EXCEPT !.dev = dev]
        /\ UNCHANGED <<meterSetup, stopped, leaving, fd, meterModule, wrong>>
    BY DEF SP!spower_probe
  <1>1. r \in MeterRecord /\ r.at = "plugged" /\ r.urb = "idle" /\ r.refs = 1
    BY DEF MeterRecord
  <1> HIDE DEF r
  <1>2. dev \in Meter
    BY DEF MeterInv, MeterTypes, GblRecord
  <1>d. (gbl.dev \in Meter => dev = gbl.dev) /\ (gbl.dev \notin Meter => dev = m)
    BY SP!MeterAssumption DEF MeterInv, MeterTypes, GblRecord, SP!MeterAssumption
  <1> HIDE DEF dev
  <1>3. /\ gbl' \in GblRecord /\ gbl'.dev = dev /\ gbl'.started = gbl.started
        /\ gbl'.timer = gbl.timer /\ gbl'.samples = gbl.samples
    BY <1>0, <1>2 DEF MeterInv, MeterTypes, GblRecord
  <1>4. meter' \in [Meter -> MeterRecord] /\ meter'[m] = r
        /\ \A k \in Meter \ {m} : meter'[k] = meter[k]
    BY <1>0, <1>1 DEF MeterInv, MeterTypes
  <1>5. MeterTypes'
    BY <1>0, <1>3, <1>4 DEF MeterInv, MeterTypes
  <1>6. ASSUME Stays'
        PROVE  MeterSteady'
    <2>0. MeterSteady /\ MeterTypes /\ (\A what : SP!May(what)' = SP!May(what))
      BY <1>0, <1>6, SetupStays DEF MeterInv
    <2>1. OnlyWhatMay'
      BY <1>0, <1>1, <1>4, <2>0 DEF MeterSteady, OnlyWhatMay
    <2>2. UrbIsOfPlugged'
      BY <1>0, <1>1, <1>4, <2>0 DEF MeterSteady, UrbIsOfPlugged
    <2>3. DevIsThere'
      BY <1>0, <1>1, <1>2, <1>d, <1>3, <1>4, <2>0 DEF MeterSteady, DevIsThere
    <2>4. ASSUME NEW k \in Meter
          PROVE  HasRefs(k)'
      <3>1. (meterModule /\ gbl.dev = k)' <=> (meterModule /\ gbl.dev = k)
        BY <1>0, <1>d, <1>3, <2>0 DEF MeterSteady, DevIsThere
      <3>2. Opened(k)' = Opened(k)
        BY <1>0, OpenedStays
      <3>3. CASE k # m
        BY <1>0, <1>4, <2>0, <2>4, <3>1, <3>2, <3>3, HasRefsStays DEF MeterSteady
      <3>4. CASE k = m
        <4>1. meter[m].refs = 0 /\ meter[m].refs >= Opened(m) + Plugged(m) + Measures(m)
          BY <1>0, <2>0 DEF MeterSteady, HasRefs
        <4>2. Opened(m) \in Nat /\ Plugged(m) = 0 /\ Measures(m) \in {0, 1}
          BY <1>0, OpenedType, SameCardinality DEF Plugged, Measures, SP!MeterAssumption
        <4>3. Opened(m) = 0 /\ Measures(m) = 0
          BY <4>1, <4>2
        <4>4. Opened(m)' = 0 /\ Plugged(m)' = 1 /\ Measures(m)' = 0
          BY <1>1, <1>4, <3>1, <3>2, <3>4, <4>3 DEF Plugged, Measures
        <4> QED  BY <1>1, <1>4, <3>4, <4>4 DEF HasRefs
      <3> QED  BY <3>3, <3>4
    <2>5. UrbHasUser'
      BY <1>0, <1>1, <1>d, <1>3, <1>4, <2>0 DEF MeterSteady, UrbHasUser, DevIsThere, Reading
    <2>6. TimerHasReader'
      BY <1>0, <1>3, <2>0 DEF MeterSteady, TimerHasReader
    <2>7. ModuleMeasures'
      BY <1>0, <1>d, <1>3, <1>4, <2>0 DEF MeterSteady, ModuleMeasures, DevIsThere, UrbIsOfPlugged
    <2>8. SP!NothingWrong'
      BY <1>0, <2>0, SetupStays DEF MeterSteady, SP!NothingWrong
    <2> QED  BY <2>1, <2>2, <2>3, <2>4, <2>5, <2>6, <2>7, <2>8 DEF MeterSteady
  <1> QED  BY <1>5, <1>6 DEF MeterInv

LEMMA MeterDisconnect ==
    ASSUME SP!MeterAssumption, MeterInv, NEW m \in Meter, SP!spower_disconnect(m)
    PROVE  MeterInv'
  <1> DEFINE old == meter[m]
             r == [old EXCEPT !.at = "leaving", !.urb = "freed", !.answer = FALSE]
  <1>0. /\ SP!May("unplug") /\ meter[m].at = "plugged" /\ meter' = [meter EXCEPT ![m] = r]
        /\ UNCHANGED <<meterSetup, stopped, gbl, leaving, fd, meterModule, wrong>>
    BY DEF SP!spower_disconnect
  <1>1. r \in MeterRecord /\ r.at = "leaving" /\ r.urb = "freed" /\ r.refs = meter[m].refs
    <2>1. old \in MeterRecord
      BY DEF MeterInv, MeterTypes
    <2> HIDE DEF old
    <2>2. r \in MeterRecord /\ r.at = "leaving" /\ r.urb = "freed" /\ r.refs = old.refs
      BY <2>1 DEF MeterRecord
    <2> QED  BY <2>2 DEF old
  <1> HIDE DEF r
  <1>4. meter' \in [Meter -> MeterRecord] /\ meter'[m] = r
        /\ \A k \in Meter \ {m} : meter'[k] = meter[k]
    BY <1>0, <1>1 DEF MeterInv, MeterTypes
  <1>5. MeterTypes'
    BY <1>0, <1>4 DEF MeterInv, MeterTypes
  <1>6. ASSUME Stays'
        PROVE  MeterSteady'
    <2>0. MeterSteady /\ MeterTypes /\ (\A what : SP!May(what)' = SP!May(what))
      BY <1>0, <1>6, SetupStays DEF MeterInv
    <2>1. OnlyWhatMay'
      BY <1>0, <1>1, <1>4, <2>0 DEF MeterSteady, OnlyWhatMay
    <2>2. UrbIsOfPlugged'
      BY <1>0, <1>1, <1>4, <2>0 DEF MeterSteady, UrbIsOfPlugged
    <2>3. DevIsThere'
      BY <1>0, <1>1, <1>4, <2>0 DEF MeterSteady, DevIsThere
    <2>4. ASSUME NEW k \in Meter
          PROVE  HasRefs(k)'
      <3>1. Opened(k)' = Opened(k)
        BY <1>0, OpenedStays
      <3>2. CASE k # m
        BY <1>0, <1>4, <2>0, <2>4, <3>1, <3>2, HasRefsStays DEF MeterSteady
      <3>3. CASE k = m
        <4>1. Plugged(k)' = Plugged(k) /\ Measures(k)' = Measures(k)
          BY <1>0, <1>1, <1>4, <3>3 DEF Plugged, Measures
        <4>2. HasRefs(k) /\ OneUserOnly' = OneUserOnly
          BY <1>0, <2>0, SetupStays DEF MeterSteady
        <4> QED  BY <1>0, <1>1, <1>4, <3>1, <3>3, <4>1, <4>2 DEF HasRefs
      <3> QED  BY <3>2, <3>3
    <2>5. UrbHasUser'
      BY <1>0, <1>1, <1>4, <2>0 DEF MeterSteady, UrbHasUser, Reading
    <2>6. TimerHasReader'
      BY <1>0, <2>0 DEF MeterSteady, TimerHasReader
    <2>7. ModuleMeasures' /\ SP!NothingWrong'
      <3>1. SP!NothingWrong /\ wrong' = wrong /\ SP!OneUser' = SP!OneUser
        BY <1>0, <2>0, SetupStays DEF MeterSteady
      <3>2. ModuleMeasures'
        BY <1>0, <2>0 DEF ModuleMeasures
      <3> QED  BY <2>0, <3>1, <3>2 DEF SP!NothingWrong
    <2> QED  BY <2>1, <2>2, <2>3, <2>4, <2>5, <2>6, <2>7 DEF MeterSteady
  <1> QED  BY <1>5, <1>6 DEF MeterInv

LEMMA MeterDisconnectEnds ==
    ASSUME SP!MeterAssumption, MeterInv, NEW m \in Meter, SP!DisconnectEnds(m)
    PROVE  MeterInv'
  <1> DEFINE old == meter[m]
             r == [old EXCEPT !.at = "gone"]
             M == [meter EXCEPT ![m] = r]
             dev == IF gbl.dev = m THEN NoMeter ELSE gbl.dev
  <1>0. /\ meter[m].at = "leaving" /\ meter' = SP!Put(M, m)
        /\ gbl' = [gbl EXCEPT !.dev = dev]
        /\ UNCHANGED <<meterSetup, stopped, leaving, fd, meterModule, wrong>>
    BY DEF SP!DisconnectEnds
  <1>1. r \in MeterRecord /\ r.at = "gone" /\ r.urb = meter[m].urb /\ r.refs = meter[m].refs
    <2>1. old \in MeterRecord
      BY DEF MeterInv, MeterTypes
    <2> HIDE DEF old
    <2>2. r \in MeterRecord /\ r.at = "gone" /\ r.urb = old.urb /\ r.refs = old.refs
      BY <2>1 DEF MeterRecord
    <2> QED  BY <2>2 DEF old
  <1>2. meter[m].refs \in Nat
    BY DEF MeterInv, MeterTypes, MeterRecord
  <1> HIDE DEF r
  <1>3. M \in [Meter -> MeterRecord] /\ M[m] = r /\ \A k \in Meter \ {m} : M[k] = meter[k]
    BY <1>1 DEF MeterInv, MeterTypes
  <1> HIDE DEF M
  <1>4. /\ meter' \in [Meter -> MeterRecord]
        /\ \A k \in Meter \ {m} : meter'[k] = meter[k]
        /\ meter'[m].urb = meter[m].urb
        /\ meter[m].refs <= 1 => meter'[m].at = "freed" /\ meter'[m].refs = 0
        /\ meter[m].refs > 1 => meter'[m].at = "gone" /\ meter'[m].refs = meter[m].refs - 1
    BY <1>0, <1>1, <1>3, PutIs
  <1>d. dev \in Meter \cup {NoMeter} /\ (gbl.dev # m => dev = gbl.dev)
        /\ (gbl.dev = m => dev = NoMeter) /\ dev # m
    BY DEF MeterInv, MeterTypes, GblRecord, SP!MeterAssumption
  <1> HIDE DEF dev
  <1>g. /\ gbl' \in GblRecord /\ gbl'.dev = dev /\ gbl'.started = gbl.started
        /\ gbl'.timer = gbl.timer /\ gbl'.samples = gbl.samples
    BY <1>0, <1>d DEF MeterInv, MeterTypes, GblRecord
  <1>5. MeterTypes'
    BY <1>0, <1>4, <1>g DEF MeterInv, MeterTypes
  <1>6. ASSUME Stays'
        PROVE  MeterSteady'
    <2>0. MeterSteady /\ MeterTypes /\ (\A what : SP!May(what)' = SP!May(what))
      BY <1>0, <1>6, SetupStays DEF MeterInv
    <2>u. SP!May("unplug") /\ ~meterModule
      BY <1>0, <1>6, <2>0 DEF MeterSteady, OnlyWhatMay, Stays
    <2>a. meter'[m].at \in {"gone", "freed"}
      BY <1>2, <1>4
    <2>1. OnlyWhatMay'
      BY <1>0, <1>4, <2>0, <2>u DEF MeterSteady, OnlyWhatMay
    <2>2. UrbIsOfPlugged'
      BY <1>0, <1>4, <2>0, <2>a DEF MeterSteady, UrbIsOfPlugged
    <2>3. DevIsThere'
      BY <1>0, <1>4, <1>d, <1>g, <2>0, <2>u DEF MeterSteady, DevIsThere, SP!MeterAssumption
    <2>4. ASSUME NEW k \in Meter
          PROVE  HasRefs(k)'
      <3>1. Opened(k)' = Opened(k) /\ Opened(k) \in Nat
        BY <1>0, OpenedStays, OpenedType, SameCardinality DEF SP!MeterAssumption
      <3>2. CASE k # m
        <4>1. (meterModule /\ gbl.dev = k)' <=> (meterModule /\ gbl.dev = k)
          BY <1>0, <2>u
        <4> QED  BY <1>0, <1>4, <2>0, <2>4, <3>1, <3>2, <4>1, HasRefsStays DEF MeterSteady
      <3>3. CASE k = m
        <4>1. Plugged(k) = 1 /\ Plugged(k)' = 0 /\ Measures(k) = 0 /\ Measures(k)' = 0
          BY <1>0, <2>a, <2>u, <3>3 DEF Plugged, Measures
        <4>2. HasRefs(k) /\ OneUserOnly' = OneUserOnly
          BY <1>0, <2>0, SetupStays DEF MeterSteady
        <4>3. /\ meter[k].refs >= Opened(k) + 1
              /\ OneUserOnly => meter[k].refs = Opened(k) + 1
          BY <3>1, <4>1, <4>2 DEF HasRefs
        <4>4. /\ meter'[k].refs = meter[k].refs - 1
              /\ meter'[k].at = "freed" => meter'[k].refs = 0
              /\ meter'[k].at = "gone" => meter'[k].refs >= 1
          BY <1>2, <1>4, <3>1, <3>3, <4>3
        <4> QED  BY <1>2, <2>a, <3>1, <3>3, <4>1, <4>2, <4>3, <4>4 DEF HasRefs
      <3> QED  BY <3>2, <3>3
    <2>5. UrbHasUser'
      BY <1>0, <1>4, <2>0, <2>u DEF MeterSteady, UrbHasUser, Reading
    <2>6. TimerHasReader'
      BY <1>0, <1>g, <2>0 DEF MeterSteady, TimerHasReader
    <2>7. ModuleMeasures' /\ SP!NothingWrong'
      <3>1. SP!NothingWrong /\ wrong' = wrong /\ SP!OneUser' = SP!OneUser
        BY <1>0, <2>0, SetupStays DEF MeterSteady
      <3>2. ModuleMeasures'
        BY <1>0, <2>0, <2>u DEF ModuleMeasures
      <3> QED  BY <2>0, <3>1, <3>2 DEF SP!NothingWrong
    <2> QED  BY <2>1, <2>2, <2>3, <2>4, <2>5, <2>6, <2>7 DEF MeterSteady
  <1> QED  BY <1>5, <1>6 DEF MeterInv

-----------------------------------------------------------------------------------
(* The timer and the answers.                                                       *)

LEMMA MeterTimer ==
    ASSUME SP!MeterAssumption, MeterInv, SP!spower_fire_timer
    PROVE  MeterInv'
  <1>0. UNCHANGED <<meterSetup, stopped, gbl, leaving, fd, meterModule>>
    BY DEF SP!spower_fire_timer
  <1>1. /\ meter' \in [Meter -> MeterRecord]
        /\ \A k \in Meter : /\ meter'[k].at = meter[k].at /\ meter'[k].refs = meter[k].refs
                            /\ meter'[k].urb = meter[k].urb
    <2>1. CASE gbl.dev = NoMeter
      BY <2>1 DEF SP!spower_fire_timer, MeterInv, MeterTypes
    <2>2. CASE gbl.dev # NoMeter
      <3> DEFINE m == gbl.dev
                 old == meter[m]
                 answer == old.urb = "active"
                 r == [old EXCEPT !.answer = answer]
      <3>1. m \in Meter
        BY <2>2 DEF MeterInv, MeterTypes, GblRecord
      <3>2. meter' = [meter EXCEPT ![m] = r]
        BY <2>2 DEF SP!spower_fire_timer
      <3>3. old \in MeterRecord /\ answer \in BOOLEAN
        BY <3>1 DEF MeterInv, MeterTypes
      <3> HIDE DEF old, answer
      <3>4. r \in MeterRecord /\ r.at = old.at /\ r.urb = old.urb /\ r.refs = old.refs
        BY <3>3 DEF MeterRecord
      <3> HIDE DEF r, m
      <3> QED  BY <3>1, <3>2, <3>4 DEF old, MeterInv, MeterTypes
    <2> QED  BY <2>1, <2>2
  <1>2. MeterTypes'
    BY <1>0, <1>1 DEF MeterInv, MeterTypes
  <1>3. ASSUME Stays'
        PROVE  MeterSteady'
    <2>0. MeterSteady /\ MeterTypes /\ (\A what : SP!May(what)' = SP!May(what))
      BY <1>0, <1>3, SetupStays DEF MeterInv
    <2>1. OnlyWhatMay' /\ UrbIsOfPlugged'
      BY <1>0, <1>1, <2>0 DEF MeterSteady, OnlyWhatMay, UrbIsOfPlugged
    <2>2. DevIsThere'
      BY <1>0, <1>1, <2>0 DEF MeterSteady, DevIsThere
    <2>3. \A k \in Meter : HasRefs(k)'
      BY <1>0, <1>1, <2>0, OpenedStays, HasRefsStays DEF MeterSteady
    <2>4. UrbHasUser' /\ TimerHasReader'
      BY <1>0, <1>1, <2>0 DEF MeterSteady, UrbHasUser, TimerHasReader, Reading
    <2>5. ModuleMeasures'
      BY <1>0, <1>1, <2>0 DEF MeterSteady, ModuleMeasures, DevIsThere
    <2>6. SP!NothingWrong'
      <3>1. CASE gbl.dev = NoMeter
        BY <1>0, <2>0, <3>1, SetupStays DEF SP!spower_fire_timer, MeterSteady, SP!NothingWrong
      <3>2. CASE gbl.dev # NoMeter
        <4>1. gbl.dev \in Meter /\ meter[gbl.dev].at \in {"plugged", "leaving"}
          BY <2>0, <3>2 DEF MeterSteady, DevIsThere, MeterTypes, GblRecord
        <4>2. ~SP!May("unplug") => meter[gbl.dev].urb # "freed"
          BY <2>0, <4>1 DEF MeterSteady, OnlyWhatMay, UrbIsOfPlugged
        <4>3. wrong' = wrong \cup SP!WrongUse(gbl.dev)
          BY <3>2 DEF SP!spower_fire_timer
        <4>4. /\ "timer added twice" \notin SP!WrongUse(gbl.dev)
              /\ "freed meter" \notin SP!WrongUse(gbl.dev)
              /\ ~SP!May("unplug") => "freed URB" \notin SP!WrongUse(gbl.dev)
          BY <4>1, <4>2 DEF SP!WrongUse
        <4>5. Stays
          BY <1>0, <1>3, SetupStays
        <4> QED  BY <1>0, <2>0, <4>3, <4>4, <4>5, NothingElseWrong DEF MeterSteady
      <3> QED  BY <3>1, <3>2
    <2> QED  BY <2>1, <2>2, <2>3, <2>4, <2>5, <2>6 DEF MeterSteady
  <1> QED  BY <1>2, <1>3 DEF MeterInv

LEMMA MeterAnswer ==
    ASSUME SP!MeterAssumption, MeterInv, NEW m \in Meter, SP!spower_int_in_callback(m)
    PROVE  MeterInv'
  <1>s. PICK sampled \in BOOLEAN, again \in BOOLEAN :
             /\ (sampled /\ again) \/ SP!May("refuse")
             /\ meter' = [meter EXCEPT ![m].answer = FALSE,
                                       ![m].urb = IF again THEN @ ELSE "idle"]
             /\ gbl' = [gbl EXCEPT !.samples = IF sampled /\ @ < BufferSlots THEN @ + 1
                                               ELSE @]
    BY DEF SP!spower_int_in_callback
  <1> DEFINE old == meter[m]
             urb == IF again THEN old.urb ELSE "idle"
             r == [old EXCEPT !.answer = FALSE, !.urb = urb]
             n == IF sampled /\ gbl.samples < BufferSlots THEN gbl.samples + 1 ELSE gbl.samples
  <1>0. /\ meter[m].urb = "active" /\ meter' = [meter EXCEPT ![m] = r]
        /\ gbl' = [gbl EXCEPT !.samples = n]
        /\ UNCHANGED <<meterSetup, stopped, leaving, fd, meterModule, wrong>>
    BY <1>s DEF SP!spower_int_in_callback
  <1>u. urb \in {"idle", "active"} /\ (~SP!May("refuse") => urb = "active")
    BY <1>0, <1>s
  <1> HIDE DEF urb
  <1>1. /\ meter' \in [Meter -> MeterRecord]
        /\ \A k \in Meter \ {m} : meter'[k] = meter[k]
        /\ meter'[m].at = meter[m].at /\ meter'[m].refs = meter[m].refs
        /\ meter'[m].urb = urb
    <2>1. old \in MeterRecord
      BY DEF MeterInv, MeterTypes
    <2> HIDE DEF old
    <2>2. r \in MeterRecord /\ r.at = old.at /\ r.urb = urb /\ r.refs = old.refs
      BY <1>u, <2>1 DEF MeterRecord
    <2> HIDE DEF r
    <2> QED  BY <1>0, <2>2 DEF old, MeterInv, MeterTypes
  <1>2. n \in 0 .. BufferSlots
    BY DEF MeterInv, MeterTypes, GblRecord, SP!MeterAssumption
  <1> HIDE DEF n, r
  <1>3. /\ gbl' \in GblRecord /\ gbl'.dev = gbl.dev /\ gbl'.started = gbl.started
        /\ gbl'.timer = gbl.timer
    BY <1>0, <1>2 DEF MeterInv, MeterTypes, GblRecord
  <1>4. MeterTypes'
    BY <1>0, <1>1, <1>3 DEF MeterInv, MeterTypes
  <1>5. ASSUME Stays'
        PROVE  MeterSteady'
    <2>0. MeterSteady /\ MeterTypes /\ (\A what : SP!May(what)' = SP!May(what))
      BY <1>0, <1>5, SetupStays DEF MeterInv
    <2>1. OnlyWhatMay' /\ UrbIsOfPlugged'
      BY <1>0, <1>1, <1>u, <2>0 DEF MeterSteady, OnlyWhatMay, UrbIsOfPlugged
    <2>2. DevIsThere'
      BY <1>0, <1>1, <1>3, <2>0 DEF MeterSteady, DevIsThere
    <2>3. \A k \in Meter : HasRefs(k)'
      BY <1>0, <1>1, <1>3, <2>0, OpenedStays, HasRefsStays DEF MeterSteady
    <2>4. UrbHasUser'
      BY <1>0, <1>1, <1>3, <2>0 DEF MeterSteady, UrbHasUser, Reading
    <2>5. TimerHasReader'
      BY <1>0, <2>0 DEF MeterSteady, UrbHasUser, TimerHasReader, Reading
    <2>6. ModuleMeasures'
      BY <1>0, <1>1, <1>3, <1>u, <2>0 DEF MeterSteady, ModuleMeasures, DevIsThere
    <2>7. SP!NothingWrong'
      BY <1>0, <2>0, SetupStays DEF MeterSteady, SP!NothingWrong
    <2> QED  BY <2>1, <2>2, <2>3, <2>4, <2>5, <2>6, <2>7 DEF MeterSteady
  <1> QED  BY <1>4, <1>5 DEF MeterInv

-----------------------------------------------------------------------------------
(* The monitoring module.                                                           *)

LEMMA MeterStart ==
    ASSUME SP!MeterAssumption, MeterInv, SP!spower_start_measurements
    PROVE  MeterInv'
  <1> DEFINE m == gbl.dev
             M == SP!Got(meter, m)
  <1>0. /\ SP!May("module") /\ ~meterModule /\ gbl.started = 0 /\ gbl.dev # NoMeter
        /\ UNCHANGED <<meterSetup, stopped, leaving, fd>>
    BY DEF SP!spower_start_measurements
  <1>1. m \in Meter /\ meter[m].refs \in Nat /\ meter[m].urb \in {"none", "idle", "active", "freed"}
    BY <1>0 DEF MeterInv, MeterTypes, MeterRecord, GblRecord
  <1>2. /\ M \in [Meter -> MeterRecord] /\ (\A k \in Meter \ {m} : M[k] = meter[k])
        /\ M[m].at = meter[m].at /\ M[m].urb = meter[m].urb /\ M[m].refs = meter[m].refs + 1
    BY <1>1, GotIs DEF MeterInv, MeterTypes
  <1>p. ASSUME Stays
        PROVE  meter[m].at = "plugged" /\ (SP!OneUser => \A f \in Fd : fd[f].step = "closed")
    <2>1. MeterSteady
      BY <1>p DEF MeterInv
    <2>2. meter[m].at = "plugged"
      BY <1>0, <1>1, <1>p, <2>1 DEF MeterSteady, DevIsThere, OnlyWhatMay, Stays
    <2> QED  BY <1>0, <2>1, <2>2 DEF SP!OneUser, MeterSteady, OnlyWhatMay
  <1>n. ASSUME Stays
        PROVE  SP!WrongUse(m) = {}
    <2>1. meter[m].urb # "freed" /\ meter[m].at # "freed"
      BY <1>1, <1>p, <1>n DEF MeterInv, MeterSteady, UrbIsOfPlugged
    <2> QED  BY <2>1 DEF SP!WrongUse
  <1>3. CASE SP!Submittable(m) /\ meterModule'
    <2>0. /\ meter' = SP!Submitted(M, m) /\ meterModule' = TRUE
          /\ gbl' = [gbl EXCEPT !.started = 1, !.timer = TRUE]
          /\ wrong' = wrong \cup SP!WrongUse(m) \cup SP!WrongTimer
      BY <1>0, <1>3 DEF SP!spower_start_measurements
    <2>1. /\ meter' \in [Meter -> MeterRecord] /\ (\A k \in Meter \ {m} : meter'[k] = meter[k])
          /\ meter'[m].at = meter[m].at /\ meter'[m].refs = meter[m].refs + 1
          /\ meter'[m].urb = IF meter[m].urb = "idle" THEN "active" ELSE meter[m].urb
      <3> HIDE DEF M
      <3> QED  BY <1>1, <1>2, <2>0, SubmittedIs
    <2>2. /\ gbl' \in GblRecord /\ gbl'.dev = gbl.dev /\ gbl'.started = 1
          /\ gbl'.timer /\ gbl'.samples = gbl.samples
      <3>1. gbl \in GblRecord /\ 1 \in 0 .. 2
        BY DEF MeterInv, MeterTypes
      <3>2. gbl' \in GblRecord
        BY <2>0, <3>1 DEF GblRecord
      <3>3. gbl'.dev = gbl.dev /\ gbl'.started = 1 /\ gbl'.samples = gbl.samples
        BY <2>0, <3>1 DEF GblRecord
      <3>4. gbl'.timer = TRUE
        BY <2>0, <3>1 DEF GblRecord
      <3> QED  BY <3>2, <3>3, <3>4
    <2>3. MeterTypes'
      BY <1>0, <2>0, <2>1, <2>2 DEF MeterInv, MeterTypes
    <2> HIDE DEF M
    <2>4. ASSUME Stays'
          PROVE  MeterSteady'
      <3>0. MeterSteady /\ MeterTypes /\ Stays /\ (\A what : SP!May(what)' = SP!May(what))
        BY <1>0, <2>4, SetupStays DEF MeterInv
      <3>a. meter[m].at = "plugged" /\ meter[m].urb \in {"idle", "active"}
        BY <1>1, <1>p, <3>0 DEF MeterSteady, UrbIsOfPlugged
      <3>1. OnlyWhatMay' /\ UrbIsOfPlugged'
        BY <1>0, <1>1, <2>0, <2>1, <3>0, <3>a, SMTT(30) DEF MeterSteady, OnlyWhatMay, UrbIsOfPlugged
      <3>2. DevIsThere'
        BY <1>0, <1>1, <2>0, <2>1, <2>2, <3>0, <3>a DEF MeterSteady, DevIsThere
      <3>3. ASSUME NEW k \in Meter
            PROVE  HasRefs(k)'
        <4>1. Opened(k)' = Opened(k) /\ Opened(k) \in Nat
          BY <1>0, OpenedStays, OpenedType, SameCardinality DEF SP!MeterAssumption
        <4>2. CASE k # m
          BY <1>0, <2>0, <2>1, <2>2, <3>0, <3>3, <4>1, <4>2, HasRefsStays DEF MeterSteady
        <4>3. CASE k = m
          <5>1. /\ Plugged(k)' = Plugged(k) /\ Plugged(k) = 1
                /\ Measures(k) = 0 /\ Measures(k)' = 1
            BY <1>0, <2>0, <2>1, <2>2, <3>a, <4>3 DEF Plugged, Measures
          <5>2. HasRefs(k) /\ OneUserOnly' = OneUserOnly
            BY <1>0, <3>0, SetupStays DEF MeterSteady
          <5> QED  BY <1>1, <2>1, <3>a, <4>1, <4>3, <5>1, <5>2 DEF HasRefs
        <4> QED  BY <4>2, <4>3
      <3>4. UrbHasUser'
        BY <1>0, <1>1, <2>0, <2>1, <2>2, <3>0 DEF MeterSteady, UrbHasUser, DevIsThere, Reading
      <3>5. TimerHasReader'
        BY <2>0 DEF TimerHasReader
      <3>6. ModuleMeasures'
        BY <1>1, <2>1, <2>2, <3>a DEF ModuleMeasures
      <3>7. SP!NothingWrong'
        <4>1. SP!OneUser => ~gbl.timer
          BY <1>0, <1>p, <3>0 DEF MeterSteady, TimerHasReader
        <4>2. SP!OneUser => SP!WrongTimer = {}
          BY <4>1 DEF SP!WrongTimer
        <4>3. /\ "freed meter" \notin SP!WrongTimer /\ "freed URB" \notin SP!WrongTimer
              /\ wrong' = wrong \cup SP!WrongTimer
          BY <1>n, <2>0, <3>0 DEF SP!WrongTimer
        <4> QED  BY <1>0, <3>0, <4>2, <4>3, NothingElseWrong DEF MeterSteady
      <3> QED  BY <3>1, <3>2, <3>3, <3>4, <3>5, <3>6, <3>7 DEF MeterSteady
    <2> QED  BY <2>3, <2>4 DEF MeterInv
  <1>4. CASE ~(SP!Submittable(m) /\ meterModule')
    <2>0. /\ ~SP!Submittable(m) \/ SP!May("refuse")
          /\ meter' = M /\ wrong' = wrong \cup SP!WrongUse(m) /\ UNCHANGED <<gbl, meterModule>>
      BY <1>4 DEF SP!spower_start_measurements
    <2> HIDE DEF M
    <2>3. MeterTypes'
      BY <1>0, <1>2, <2>0 DEF MeterInv, MeterTypes
    <2>4. ASSUME Stays'
          PROVE  MeterSteady'
      <3>0. MeterSteady /\ MeterTypes /\ Stays /\ (\A what : SP!May(what)' = SP!May(what))
        BY <1>0, <2>4, SetupStays DEF MeterInv
      <3>a. meter[m].at = "plugged"
        BY <1>p, <3>0
      <3>1. OnlyWhatMay' /\ UrbIsOfPlugged'
        BY <1>0, <1>1, <1>2, <2>0, <3>0 DEF MeterSteady, OnlyWhatMay, UrbIsOfPlugged
      <3>2. DevIsThere'
        BY <1>0, <1>1, <1>2, <2>0, <3>0 DEF MeterSteady, DevIsThere
      <3>3. ASSUME NEW k \in Meter
            PROVE  HasRefs(k)'
        <4>1. Opened(k)' = Opened(k) /\ Opened(k) \in Nat
          BY <1>0, OpenedStays, OpenedType, SameCardinality DEF SP!MeterAssumption
        <4>2. CASE k # m
          BY <1>0, <1>2, <2>0, <3>0, <3>3, <4>1, <4>2, HasRefsStays DEF MeterSteady
        <4>3. CASE k = m
          <5>1. Plugged(k)' = Plugged(k) /\ Measures(k)' = Measures(k)
                /\ Plugged(k) = 1 /\ Measures(k) = 0
            BY <1>0, <1>2, <2>0, <3>a, <4>3 DEF Plugged, Measures
          <5>2. HasRefs(k) /\ OneUserOnly' = OneUserOnly
            BY <1>0, <3>0, SetupStays DEF MeterSteady
          <5>3. ~OneUserOnly
            <6> SUFFICES ASSUME OneUserOnly PROVE FALSE
              OBVIOUS
            <6>1. meter[m].urb = "active" /\ SP!OneUser
              BY <2>0 DEF OneUserOnly, SP!Submittable
            <6>2. PICK f \in Fd : fd[f].step = "open"
              BY <1>0, <1>1, <3>0, <6>1 DEF MeterSteady, UrbHasUser, Reading
            <6> QED  BY <1>p, <3>0, <6>1, <6>2
          <5> QED  BY <1>1, <1>2, <2>0, <3>a, <4>1, <4>3, <5>1, <5>2, <5>3 DEF HasRefs
        <4> QED  BY <4>2, <4>3
      <3>4. UrbHasUser'
        BY <1>0, <1>1, <1>2, <2>0, <3>0 DEF MeterSteady, UrbHasUser, DevIsThere, Reading
      <3>5. TimerHasReader' /\ ModuleMeasures'
        BY <1>0, <2>0, <3>0 DEF MeterSteady, TimerHasReader, ModuleMeasures
      <3>6. SP!NothingWrong'
        BY <1>0, <1>n, <2>0, <3>0, SetupStays DEF MeterSteady, SP!NothingWrong
      <3> QED  BY <3>1, <3>2, <3>3, <3>4, <3>5, <3>6 DEF MeterSteady
    <2> QED  BY <2>3, <2>4 DEF MeterInv
  <1> QED  BY <1>3, <1>4

LEMMA MeterStop ==
    ASSUME SP!MeterAssumption, MeterInv, SP!spower_stop_measurements
    PROVE  MeterInv'
  <1>0. meterModule /\ leaving = NoMeter /\ UNCHANGED <<meterSetup, stopped, meter, fd, wrong>>
    BY DEF SP!spower_stop_measurements
  <1>1. CASE gbl.started # 1 \/ gbl.dev = NoMeter
    <2>1. meterModule' = FALSE /\ UNCHANGED <<gbl, leaving>>
      BY <1>1 DEF SP!spower_stop_measurements
    <2>2. MeterTypes'
      BY <1>0, <2>1 DEF MeterInv, MeterTypes
    <2>3. ~Stays
      BY <1>0, <1>1 DEF MeterInv, MeterSteady, DevIsThere, SP!MeterAssumption
    <2> QED  BY <1>0, <2>2, <2>3, SetupStays DEF MeterInv
  <1>2. CASE ~(gbl.started # 1 \/ gbl.dev = NoMeter)
    <2>1. gbl' = [gbl EXCEPT !.started = 2] /\ leaving' = gbl.dev /\ meterModule' = meterModule
      BY <1>2 DEF SP!spower_stop_measurements
    <2>2. /\ gbl' \in GblRecord /\ gbl'.dev = gbl.dev /\ gbl'.started = 2
          /\ gbl'.timer = gbl.timer /\ gbl'.samples = gbl.samples
      BY <2>1 DEF MeterInv, MeterTypes, GblRecord
    <2>3. MeterTypes' /\ gbl.dev \in Meter
      BY <1>0, <1>2, <2>1, <2>2 DEF MeterInv, MeterTypes, GblRecord
    <2>4. ASSUME Stays'
          PROVE  MeterSteady'
      <3>0. MeterSteady /\ MeterTypes /\ (\A what : SP!May(what)' = SP!May(what))
        BY <1>0, <2>4, SetupStays DEF MeterInv
      <3>1. OnlyWhatMay' /\ UrbIsOfPlugged'
        BY <1>0, <2>1, <3>0 DEF MeterSteady, OnlyWhatMay, UrbIsOfPlugged
      <3>2. DevIsThere'
        BY <1>0, <2>1, <2>2, <2>3, <3>0 DEF MeterSteady, DevIsThere, SP!MeterAssumption
      <3>3. ASSUME NEW k \in Meter
            PROVE  HasRefs(k)'
        <4>1. (meterModule /\ gbl.dev = k)' <=> (meterModule /\ gbl.dev = k)
          BY <2>1, <2>2
        <4> QED  BY <1>0, <3>0, <3>3, <4>1, OpenedStays, HasRefsStays DEF MeterSteady
      <3>4. UrbHasUser' /\ TimerHasReader' /\ ModuleMeasures'
        BY <1>0, <2>1, <2>2, <3>0
        DEF MeterSteady, UrbHasUser, TimerHasReader, ModuleMeasures, Reading
      <3>5. SP!NothingWrong'
        BY <1>0, <3>0, SetupStays DEF MeterSteady, SP!NothingWrong
      <3> QED  BY <3>1, <3>2, <3>3, <3>4, <3>5 DEF MeterSteady
    <2> QED  BY <2>3, <2>4 DEF MeterInv
  <1> QED  BY <1>1, <1>2

LEMMA MeterKill ==
    ASSUME SP!MeterAssumption, MeterInv, SP!KillUrb
    PROVE  MeterInv'
  <1> DEFINE m == leaving
  <1>0. /\ leaving # NoMeter /\ ~stopped /\ meter' = SP!Killed(meter, m) /\ stopped' = TRUE
        /\ wrong' = wrong \cup SP!WrongUse(m)
        /\ UNCHANGED <<meterSetup, gbl, leaving, fd, meterModule>>
    BY DEF SP!KillUrb
  <1>1. m \in Meter
    BY <1>0 DEF MeterInv, MeterTypes
  <1>2. /\ meter' \in [Meter -> MeterRecord] /\ (\A k \in Meter \ {m} : meter'[k] = meter[k])
        /\ meter'[m].at = meter[m].at /\ meter'[m].refs = meter[m].refs
        /\ meter'[m].urb = IF meter[m].urb = "active" THEN "idle" ELSE meter[m].urb
    BY <1>0, <1>1, KilledIs DEF MeterInv, MeterTypes
  <1>3. MeterTypes'
    BY <1>0, <1>2 DEF MeterInv, MeterTypes
  <1>4. ASSUME Stays'
        PROVE  MeterSteady'
    <2>0. MeterSteady /\ MeterTypes /\ Stays /\ (\A what : SP!May(what)' = SP!May(what))
      BY <1>0, <1>4, SetupStays DEF MeterInv
    <2>a. meterModule /\ m = gbl.dev /\ meter[m].at = "plugged"
      BY <1>0, <1>1, <2>0 DEF MeterSteady, DevIsThere, OnlyWhatMay, Stays
    <2>1. OnlyWhatMay' /\ UrbIsOfPlugged'
      BY <1>0, <1>1, <1>2, <2>0, <2>a DEF MeterSteady, OnlyWhatMay, UrbIsOfPlugged
    <2>2. DevIsThere'
      BY <1>0, <1>1, <1>2, <2>0, <2>a DEF MeterSteady, DevIsThere
    <2>3. ASSUME NEW k \in Meter
          PROVE  HasRefs(k)'
      BY <1>0, <1>1, <1>2, <2>0, <2>3, OpenedStays, HasRefsStays DEF MeterSteady
    <2>4. UrbHasUser'
      BY <1>0, <1>1, <1>2, <2>0, <2>a DEF MeterSteady, UrbHasUser, Reading
    <2>5. TimerHasReader' /\ ModuleMeasures'
      BY <1>0, <2>0 DEF MeterSteady, TimerHasReader, ModuleMeasures
    <2>6. SP!WrongUse(m) = {}
      BY <1>1, <2>0, <2>a DEF SP!WrongUse, MeterSteady, UrbIsOfPlugged
    <2>7. SP!NothingWrong'
      BY <1>0, <2>0, <2>6, SetupStays DEF MeterSteady, SP!NothingWrong
    <2> QED  BY <2>1, <2>2, <2>3, <2>4, <2>5, <2>7 DEF MeterSteady
  <1> QED  BY <1>3, <1>4 DEF MeterInv

LEMMA MeterStopEnds ==
    ASSUME SP!MeterAssumption, MeterInv, SP!StopEnds
    PROVE  MeterInv'
  <1> DEFINE m == leaving
  <1>0. /\ leaving # NoMeter /\ stopped /\ meter' = SP!Put(meter, m)
        /\ gbl' = [gbl EXCEPT !.timer = FALSE, !.samples = 0, !.started = 0]
        /\ leaving' = NoMeter /\ stopped' = FALSE /\ meterModule' = FALSE
        /\ wrong' = wrong \cup SP!WrongPut(m)
        /\ UNCHANGED <<meterSetup, fd>>
    BY DEF SP!StopEnds
  <1>1. m \in Meter /\ meter[m].refs \in Nat
    BY <1>0 DEF MeterInv, MeterTypes, MeterRecord
  <1>2. /\ meter' \in [Meter -> MeterRecord] /\ (\A k \in Meter \ {m} : meter'[k] = meter[k])
        /\ meter'[m].urb = meter[m].urb
        /\ meter[m].refs <= 1 => meter'[m].at = "freed" /\ meter'[m].refs = 0
        /\ meter[m].refs > 1 => /\ meter'[m].at = meter[m].at
                                /\ meter'[m].refs = meter[m].refs - 1
    BY <1>0, <1>1, PutIs DEF MeterInv, MeterTypes
  <1>3. /\ gbl' \in GblRecord /\ gbl'.dev = gbl.dev /\ gbl'.started = 0
        /\ ~gbl'.timer /\ gbl'.samples = 0
    <2>1. 0 \in 0 .. BufferSlots /\ 0 \in 0 .. 2
      BY DEF SP!MeterAssumption
    <2> QED  BY <1>0, <2>1 DEF MeterInv, MeterTypes, GblRecord
  <1>4. MeterTypes'
    BY <1>0, <1>2, <1>3 DEF MeterInv, MeterTypes
  <1>5. ASSUME Stays'
        PROVE  MeterSteady'
    <2>0. MeterSteady /\ MeterTypes /\ Stays /\ (\A what : SP!May(what)' = SP!May(what))
      BY <1>0, <1>5, SetupStays DEF MeterInv
    <2>a. meterModule /\ m = gbl.dev /\ meter[m].at = "plugged"
      BY <1>0, <1>1, <2>0 DEF MeterSteady, DevIsThere, OnlyWhatMay, Stays
    <2>b. Opened(m) \in Nat /\ Plugged(m) = 1 /\ Measures(m) = 1
      <3>1. Opened(m) \in Nat
        BY OpenedType, SameCardinality DEF SP!MeterAssumption
      <3> QED  BY <2>a, <3>1 DEF Plugged, Measures
    <2>c. HasRefs(m) /\ OneUserOnly' = OneUserOnly
      BY <1>0, <1>1, <2>0, SetupStays DEF MeterSteady
    <2>d. /\ meter[m].refs >= Opened(m) + 2
          /\ OneUserOnly => meter[m].refs = Opened(m) + 2
      BY <2>b, <2>c DEF HasRefs
    <2>e. meter'[m].at = "plugged" /\ meter'[m].refs = meter[m].refs - 1
      BY <1>1, <1>2, <2>a, <2>b, <2>d
    <2>1. OnlyWhatMay' /\ UrbIsOfPlugged'
      BY <1>0, <1>1, <1>2, <2>0, <2>a, <2>e DEF MeterSteady, OnlyWhatMay, UrbIsOfPlugged
    <2>2. DevIsThere'
      BY <1>0, <1>1, <1>2, <1>3, <2>0, <2>a, <2>e DEF MeterSteady, DevIsThere
    <2>3. ASSUME NEW k \in Meter
          PROVE  HasRefs(k)'
      <3>1. CASE k # m
        <4>1. (meterModule /\ gbl.dev = k)' <=> (meterModule /\ gbl.dev = k)
          BY <1>0, <1>3, <2>a, <3>1
        <4> QED  BY <1>0, <1>2, <2>0, <2>3, <3>1, <4>1, OpenedStays, HasRefsStays
                 DEF MeterSteady
      <3>2. CASE k = m
        <4>1. Plugged(k)' = 1 /\ Measures(k)' = 0
          BY <1>0, <2>e, <3>2 DEF Plugged, Measures
        <4>2. Opened(k)' = Opened(m) /\ meter'[k].refs = meter[m].refs - 1
          BY <1>0, <2>e, <3>2, OpenedStays
        <4>3. meter'[k].at = "plugged"
          BY <2>e, <3>2
        <4>4. /\ meter'[k].refs >= Opened(k)' + Plugged(k)' + Measures(k)'
              /\ OneUserOnly' => meter'[k].refs = Opened(k)' + Plugged(k)' + Measures(k)'
          BY <1>1, <2>b, <2>c, <2>d, <4>1, <4>2
        <4> QED  BY <4>3, <4>4 DEF HasRefs
      <3> QED  BY <3>1, <3>2
    <2>4. UrbHasUser'
      BY <1>0, <1>1, <1>2, <1>3, <2>0, <2>a DEF MeterSteady, UrbHasUser, Reading
    <2>5. TimerHasReader' /\ ModuleMeasures'
      BY <1>0, <1>3 DEF TimerHasReader, ModuleMeasures
    <2>6. SP!WrongPut(m) = {}
      <3>1. meter[m].refs > 1 /\ meter[m].at # "freed"
        BY <1>1, <2>a, <2>b, <2>d
      <3>2. ~(meter[m].refs <= 1)
        BY <1>1, <3>1
      <3> QED  BY <3>1, <3>2, Zenon DEF SP!WrongPut
    <2>7. SP!NothingWrong'
      BY <1>0, <2>0, <2>6, SetupStays DEF MeterSteady, SP!NothingWrong
    <2> QED  BY <2>1, <2>2, <2>3, <2>4, <2>5, <2>7 DEF MeterSteady
  <1> QED  BY <1>4, <1>5 DEF MeterInv

-----------------------------------------------------------------------------------
(* Files.                                                                           *)

(* A file that becomes, or ceases to be, what does not use a meter.                 *)
LEMMA MeterFileIdle ==
    ASSUME SP!MeterAssumption, MeterInv, NEW f \in Fd, NEW r \in FdRecord,
           SP!May("files"), fd[f].step \in {"closed", "opening"},
           IF r.step = "closed" THEN r = SP!NoUser ELSE r.step = "opening" /\ r.meter \in Meter,
           fd' = [fd EXCEPT ![f] = r],
           UNCHANGED <<meterSetup, stopped, meter, gbl, leaving, meterModule, wrong>>
    PROVE  MeterInv'
  <1>1. fd' \in [Fd -> FdRecord] /\ fd'[f] = r /\ \A g \in Fd \ {f} : fd'[g] = fd[g]
    BY DEF MeterInv, MeterTypes
  <1>2. MeterTypes'
    BY <1>1 DEF MeterInv, MeterTypes
  <1>3. ASSUME Stays'
        PROVE  MeterSteady'
    <2>0. MeterSteady /\ MeterTypes /\ (\A what : SP!May(what)' = SP!May(what))
      BY <1>3, SetupStays DEF MeterInv
    <2>1. OnlyWhatMay'
      BY <1>1, <2>0 DEF MeterSteady, OnlyWhatMay
    <2>2. UrbIsOfPlugged' /\ DevIsThere'
      BY <2>0 DEF MeterSteady, UrbIsOfPlugged, DevIsThere
    <2>3. ASSUME NEW k \in Meter
          PROVE  HasRefs(k)'
      <3>1. f \notin Using(k) /\ r.step \notin {"open", "closing"}
        BY DEF Using, SP!NoUser
      <3>2. Opened(k)' = Opened(k)
        BY <2>0, <3>1, OpenedChanges, SameCardinality DEF SP!MeterAssumption, MeterTypes
      <3> QED  BY <2>0, <2>3, <3>2, HasRefsStays DEF MeterSteady
    <2>4. UrbHasUser'
      BY <1>1, <2>0 DEF MeterSteady, UrbHasUser, Reading
    <2>5. TimerHasReader' /\ ModuleMeasures'
      BY <1>1, <2>0 DEF MeterSteady, TimerHasReader, ModuleMeasures
    <2>6. SP!NothingWrong'
      BY <2>0, SetupStays DEF MeterSteady, SP!NothingWrong
    <2> QED  BY <2>1, <2>2, <2>3, <2>4, <2>5, <2>6 DEF MeterSteady
  <1> QED  BY <1>2, <1>3 DEF MeterInv

LEMMA NoUserType ==
    SP!NoUser \in FdRecord /\ SP!NoUser.step = "closed" /\ SP!NoUser.meter = NoMeter
  BY DEF SP!NoUser, FdRecord

LEMMA MeterOpenCheck ==
    ASSUME SP!MeterAssumption, MeterInv, NEW f \in Fd, NEW m \in Meter, NEW reads \in BOOLEAN,
           SP!OpenCheck(f, m, reads)
    PROVE  MeterInv'
  <1> DEFINE r == [meter |-> m, reads |-> reads, step |-> "opening"]
  <1>1. /\ SP!May("files") /\ fd[f].step = "closed" /\ fd' = [fd EXCEPT ![f] = r]
        /\ UNCHANGED <<meterSetup, stopped, meter, gbl, leaving, meterModule, wrong>>
    BY NoUserType DEF SP!OpenCheck
  <1>2. r \in FdRecord /\ r.step = "opening" /\ r.meter \in Meter
    BY DEF FdRecord
  <1> HIDE DEF r
  <1> QED  BY <1>1, <1>2, MeterFileIdle

(* An open file gets a reference, and its request is sent unless it only writes.    *)
LEMMA MeterOpened ==
    ASSUME SP!MeterAssumption, MeterInv, NEW f \in Fd, NEW m \in Meter, m = fd[f].meter,
           fd[f].step = "opening", meter[m].at = "plugged",
           NEW M, M = SP!Got(meter, m), fd' = [fd EXCEPT ![f].step = "open"],
           \/ ~fd[f].reads /\ meter' = M /\ gbl' = gbl /\ wrong' = wrong
           \/ /\ fd[f].reads /\ meter' = SP!Submitted(M, m)
              /\ gbl' = [gbl EXCEPT !.timer = @ \/ gbl.dev = m]
              /\ wrong' = wrong \cup (IF gbl.dev = m THEN SP!WrongTimer ELSE {}),
           UNCHANGED <<meterSetup, stopped, leaving, meterModule>>
    PROVE  MeterInv'
  <1> DEFINE r == [fd[f] EXCEPT !.step = "open"]
  <1>0. meter[m].refs \in Nat /\ meter[m].urb \in {"none", "idle", "active", "freed"}
    BY DEF MeterInv, MeterTypes, MeterRecord
  <1>1. r \in FdRecord /\ r.step = "open" /\ r.meter = m /\ r.reads = fd[f].reads
    <2> DEFINE old == fd[f]
    <2>1. old \in FdRecord /\ old.meter \in Meter
      BY DEF MeterInv, MeterTypes
    <2> HIDE DEF old
    <2>2. [old EXCEPT !.step = "open"] \in FdRecord
      BY <2>1 DEF FdRecord
    <2>3. /\ [old EXCEPT !.step = "open"].step = "open"
          /\ [old EXCEPT !.step = "open"].meter = old.meter
          /\ [old EXCEPT !.step = "open"].reads = old.reads
      BY <2>1 DEF FdRecord
    <2> QED  BY <2>2, <2>3 DEF old
  <1>2. fd' = [fd EXCEPT ![f] = r]
    OBVIOUS
  <1> HIDE DEF r
  <1>3. fd' \in [Fd -> FdRecord] /\ fd'[f] = r /\ \A g \in Fd \ {f} : fd'[g] = fd[g]
    BY <1>1, <1>2 DEF MeterInv, MeterTypes
  <1>4. /\ M \in [Meter -> MeterRecord] /\ (\A k \in Meter \ {m} : M[k] = meter[k])
        /\ M[m].at = meter[m].at /\ M[m].urb = meter[m].urb /\ M[m].refs = meter[m].refs + 1
    BY GotIs DEF MeterInv, MeterTypes
  <1>5. /\ meter' \in [Meter -> MeterRecord] /\ (\A k \in Meter \ {m} : meter'[k] = meter[k])
        /\ meter'[m].at = "plugged" /\ meter'[m].refs = meter[m].refs + 1
        /\ meter'[m].urb = IF fd[f].reads /\ meter[m].urb = "idle" THEN "active"
                           ELSE meter[m].urb
    <2>1. CASE fd[f].reads
      <3> DEFINE S == SP!Submitted(M, m)
      <3>0. M \in [Meter -> MeterRecord]
        BY <1>4
      <3>1. /\ S \in [Meter -> MeterRecord]
            /\ \A k \in Meter \ {m} : S[k] = M[k]
            /\ S[m].at = M[m].at /\ S[m].refs = M[m].refs
            /\ S[m].urb = IF M[m].urb = "idle" THEN "active" ELSE M[m].urb
        BY <3>0, SubmittedIs
      <3>2. meter' = S
        BY <2>1
      <3> HIDE DEF S
      <3>3. meter' \in [Meter -> MeterRecord] /\ \A k \in Meter \ {m} : meter'[k] = meter[k]
        <4>1. meter' \in [Meter -> MeterRecord]
          BY <3>1, <3>2
        <4>2. ASSUME NEW k \in Meter \ {m} PROVE meter'[k] = meter[k]
          <5>1. M[k] = meter[k]
            BY <1>4
          <5>2. S[k] = M[k]
            BY <3>1
          <5> QED  BY <3>2, <5>1, <5>2
        <4> QED  BY <4>1, <4>2
      <3>4. meter'[m].at = "plugged" /\ meter'[m].refs = meter[m].refs + 1
        <4>1. M[m].at = "plugged" /\ M[m].refs = meter[m].refs + 1
          BY <1>4
        <4> QED  BY <3>1, <3>2, <4>1
      <3>5. /\ M[m].urb = meter[m].urb
            /\ meter'[m].urb = IF M[m].urb = "idle" THEN "active" ELSE M[m].urb
        <4>1. M[m].urb = meter[m].urb
          BY <1>4
        <4> QED  BY <3>1, <3>2, <4>1
      <3> QED  BY <2>1, <3>3, <3>4, <3>5
    <2>2. CASE ~fd[f].reads
      BY <1>4, <2>2
    <2> QED  BY <2>1, <2>2
  <1>6. /\ gbl' \in GblRecord /\ gbl'.dev = gbl.dev /\ gbl'.started = gbl.started
        /\ gbl'.samples = gbl.samples /\ (gbl'.timer => gbl.timer \/ fd[f].reads)
        /\ (gbl.timer => gbl'.timer)
    <2>1. gbl \in GblRecord
      BY DEF MeterInv, MeterTypes
    <2>2. CASE fd[f].reads
      <3> DEFINE t == gbl.timer \/ gbl.dev = m
      <3>1. gbl' = [gbl EXCEPT !.timer = t] /\ t \in BOOLEAN
        BY <2>2
      <3>2. gbl.timer => t
        OBVIOUS
      <3> HIDE DEF t
      <3>3. /\ gbl' \in GblRecord /\ gbl'.dev = gbl.dev /\ gbl'.started = gbl.started
            /\ gbl'.samples = gbl.samples
        BY <2>1, <3>1 DEF GblRecord
      <3>4. gbl'.timer = t
        BY <2>1, <3>1 DEF GblRecord
      <3> QED  BY <2>2, <3>2, <3>3, <3>4
    <2>3. CASE ~fd[f].reads
      BY <2>1, <2>3
    <2> QED  BY <2>2, <2>3
  <1>7. MeterTypes'
    BY <1>3, <1>5, <1>6 DEF MeterInv, MeterTypes
  <1>8. ASSUME Stays'
        PROVE  MeterSteady'
    <2>0. MeterSteady /\ MeterTypes /\ (\A what : SP!May(what)' = SP!May(what))
      BY <1>8, SetupStays DEF MeterInv
    <2>f. SP!May("files")
      BY <2>0 DEF MeterSteady, OnlyWhatMay
    <2>1. OnlyWhatMay'
      BY <1>1, <1>3, <1>5, <2>0, <2>f DEF MeterSteady, OnlyWhatMay
    <2>2. UrbIsOfPlugged'
      BY <1>5, <2>0 DEF MeterSteady, UrbIsOfPlugged
    <2>3. DevIsThere'
      BY <1>5, <1>6, <2>0 DEF MeterSteady, DevIsThere
    <2>4. ASSUME NEW k \in Meter
          PROVE  HasRefs(k)'
      <3>1. (meterModule /\ gbl.dev = k)' <=> (meterModule /\ gbl.dev = k)
        BY <1>6
      <3>2. f \notin Using(k)
        BY DEF Using
      <3>3. Opened(k)' = IF k = m THEN Opened(k) + 1 ELSE Opened(k)
        <4>1. IsFiniteSet(Fd) /\ fd \in [Fd -> FdRecord]
          BY <2>0, SameCardinality DEF SP!MeterAssumption, MeterTypes
        <4>2. Opened(k)' = IF r.meter = k THEN Opened(k) + 1 ELSE Opened(k)
          BY <1>1, <1>2, <3>2, <4>1, OpenedChanges
        <4> QED  BY <1>1, <4>2
      <3>4. CASE k # m
        BY <1>5, <2>0, <2>4, <3>1, <3>3, <3>4, HasRefsStays DEF MeterSteady
      <3>5. CASE k = m
        <4>1. /\ Plugged(k)' = Plugged(k) /\ Measures(k)' = Measures(k)
              /\ Plugged(k) \in Nat /\ Measures(k) \in Nat /\ Opened(k) \in Nat
          BY <1>5, <3>1, <3>5, OpenedType, SameCardinality
          DEF Plugged, Measures, SP!MeterAssumption
        <4>2. HasRefs(k) /\ OneUserOnly' = OneUserOnly
          BY <2>0, SetupStays DEF MeterSteady
        <4> QED  BY <1>0, <1>5, <3>3, <3>5, <4>1, <4>2, SMTT(30) DEF HasRefs
      <3> QED  BY <3>4, <3>5
    <2>5. UrbHasUser'
      <3> SUFFICES ASSUME NEW k \in Meter, meter'[k].urb = "active"
                   PROVE  \/ meterModule' /\ gbl'.dev = k /\ ~stopped'
                          \/ \E g \in Fd : Reading(g)' /\ fd'[g].meter = k
        BY DEF UrbHasUser
      <3>1. CASE meter[k].urb = "active"
        <4>1. CASE meterModule /\ gbl.dev = k /\ ~stopped
          BY <1>6, <4>1
        <4>2. CASE \E g \in Fd : Reading(g) /\ fd[g].meter = k
          <5>1. PICK g \in Fd : Reading(g) /\ fd[g].meter = k
            BY <4>2
          <5>2. g # f
            BY <5>1 DEF Reading
          <5> QED  BY <1>3, <5>1, <5>2 DEF Reading
        <4> QED  BY <2>0, <3>1, <4>1, <4>2 DEF MeterSteady, UrbHasUser
      <3>2. CASE meter[k].urb # "active"
        <4>1. k = m /\ fd[f].reads
          BY <1>5, <3>2
        <4> QED  BY <1>1, <1>3, <4>1 DEF Reading
      <3> QED  BY <3>1, <3>2
    <2>6. TimerHasReader'
      <3> SUFFICES ASSUME gbl'.timer \/ gbl'.samples > 0, ~meterModule'
                   PROVE  \E g \in Fd : fd'[g].reads /\ fd'[g].step \in {"open", "closing"}
        BY DEF TimerHasReader
      <3>1. CASE fd[f].reads
        BY <1>1, <1>3, <3>1
      <3>2. CASE ~fd[f].reads
        <4>1. PICK g \in Fd : fd[g].reads /\ fd[g].step \in {"open", "closing"}
          BY <1>6, <2>0, <3>2 DEF MeterSteady, TimerHasReader
        <4>2. g # f
          BY <4>1
        <4> QED  BY <1>3, <4>1, <4>2
      <3> QED  BY <3>1, <3>2
    <2>7. ModuleMeasures'
      BY <2>0, <2>f DEF ModuleMeasures
    <2>8. SP!NothingWrong'
      <3> DEFINE W == IF gbl.dev = m THEN SP!WrongTimer ELSE {}
      <3>1. SP!OneUser => ~gbl.timer
        <4> SUFFICES ASSUME SP!OneUser, gbl.timer PROVE FALSE
          OBVIOUS
        <4>1. ~SP!May("module") /\ \A g, h \in Fd : g = h
          BY <2>f, OneFileOnly, SameCardinality DEF SP!MeterAssumption
        <4>2. PICK g \in Fd : fd[g].step \in {"open", "closing"}
          BY <2>0, <4>1 DEF MeterSteady, TimerHasReader, OnlyWhatMay
        <4>3. g = f
          BY <4>1
        <4> QED  BY <4>2, <4>3
      <3>2. /\ SP!OneUser => "timer added twice" \notin W
            /\ "freed meter" \notin W /\ "freed URB" \notin W
        BY <3>1 DEF SP!WrongTimer
      <3>3. wrong' = wrong \cup W \/ wrong' = wrong \cup {}
        OBVIOUS
      <3>4. Stays
        BY <1>8, SetupStays
      <3> HIDE DEF W
      <3> QED  BY <2>0, <3>2, <3>3, <3>4, NothingElseWrong DEF MeterSteady
    <2> QED  BY <2>1, <2>2, <2>3, <2>4, <2>5, <2>6, <2>7, <2>8 DEF MeterSteady
  <1> QED  BY <1>7, <1>8 DEF MeterInv

(* One that is refused keeps the reference it took.                                 *)
LEMMA MeterRefused ==
    ASSUME SP!MeterAssumption, MeterInv, NEW f \in Fd, NEW m \in Meter, m = fd[f].meter,
           fd[f].step = "opening", meter[m].at = "plugged",
           ~SP!Submittable(m) \/ SP!May("refuse"),
           meter' = SP!Got(meter, m), fd' = [fd EXCEPT ![f] = SP!NoUser],
           UNCHANGED <<meterSetup, stopped, gbl, leaving, meterModule, wrong>>
    PROVE  MeterInv'
  <1>0. meter[m].refs \in Nat
    BY DEF MeterInv, MeterTypes, MeterRecord
  <1>1. fd' \in [Fd -> FdRecord] /\ fd'[f] = SP!NoUser /\ \A g \in Fd \ {f} : fd'[g] = fd[g]
    BY NoUserType DEF MeterInv, MeterTypes
  <1>2. /\ meter' \in [Meter -> MeterRecord] /\ (\A k \in Meter \ {m} : meter'[k] = meter[k])
        /\ meter'[m].at = meter[m].at /\ meter'[m].urb = meter[m].urb
        /\ meter'[m].refs = meter[m].refs + 1
    BY GotIs DEF MeterInv, MeterTypes
  <1>3. MeterTypes'
    BY <1>1, <1>2 DEF MeterInv, MeterTypes
  <1>4. ASSUME Stays'
        PROVE  MeterSteady'
    <2>0. MeterSteady /\ MeterTypes /\ (\A what : SP!May(what)' = SP!May(what))
      BY <1>4, SetupStays DEF MeterInv
    <2>f. SP!May("files")
      BY <2>0 DEF MeterSteady, OnlyWhatMay
    <2>1. OnlyWhatMay'
      BY <1>1, <1>2, <2>0, <2>f, NoUserType, SMTT(30) DEF MeterSteady, OnlyWhatMay
    <2>2. UrbIsOfPlugged' /\ DevIsThere'
      <3>1. UrbIsOfPlugged'
        BY <1>2, <2>0 DEF MeterSteady, UrbIsOfPlugged
      <3>2. DevIsThere'
        BY <1>2, <2>0 DEF MeterSteady, DevIsThere
      <3> QED  BY <3>1, <3>2
    <2>3. ASSUME NEW k \in Meter
          PROVE  HasRefs(k)'
      <3>1. f \notin Using(k)
        BY DEF Using
      <3>2. Opened(k)' = Opened(k)
        <4>1. IsFiniteSet(Fd) /\ fd \in [Fd -> FdRecord]
          BY <2>0, SameCardinality DEF SP!MeterAssumption, MeterTypes
        <4> QED  BY <3>1, <4>1, NoUserType, OpenedChanges
      <3>3. CASE k # m
        BY <1>2, <2>0, <2>3, <3>2, <3>3, HasRefsStays DEF MeterSteady
      <3>4. CASE k = m
        <4>1. /\ Plugged(k)' = Plugged(k) /\ Measures(k)' = Measures(k)
              /\ Plugged(k) \in Nat /\ Measures(k) \in Nat /\ Opened(k) \in Nat
          BY <1>2, <3>4, OpenedType, SameCardinality DEF Plugged, Measures, SP!MeterAssumption
        <4>2. HasRefs(k) /\ OneUserOnly' = OneUserOnly
          BY <2>0, SetupStays DEF MeterSteady
        <4>3. ~OneUserOnly
          <5> SUFFICES ASSUME OneUserOnly PROVE FALSE
            OBVIOUS
          <5>1. meter[m].urb = "active" /\ SP!OneUser
            BY DEF OneUserOnly, SP!Submittable
          <5>2. ~SP!May("module") /\ \A g, h \in Fd : g = h
            BY <2>f, <5>1, OneFileOnly, SameCardinality DEF SP!MeterAssumption
          <5>3. PICK g \in Fd : fd[g].step = "open"
            BY <2>0, <5>1, <5>2 DEF MeterSteady, UrbHasUser, OnlyWhatMay, Reading
          <5>4. g = f
            BY <5>2
          <5> QED  BY <5>3, <5>4
        <4> QED  BY <1>0, <1>2, <3>2, <3>4, <4>1, <4>2, <4>3, SMTT(30) DEF HasRefs
      <3> QED  BY <3>3, <3>4
    <2>4. UrbHasUser'
      <3> SUFFICES ASSUME NEW k \in Meter, meter'[k].urb = "active"
                   PROVE  \/ meterModule' /\ gbl'.dev = k /\ ~stopped'
                          \/ \E g \in Fd : Reading(g)' /\ fd'[g].meter = k
        BY DEF UrbHasUser
      <3>1. meter[k].urb = "active"
        BY <1>2
      <3>2. ASSUME NEW g \in Fd, Reading(g), fd[g].meter = k
            PROVE  Reading(g)' /\ fd'[g].meter = k
        <4>1. g # f
          BY <3>2 DEF Reading
        <4> QED  BY <1>1, <3>2, <4>1 DEF Reading
      <3> QED  BY <2>0, <3>1, <3>2 DEF MeterSteady, UrbHasUser
    <2>5. TimerHasReader'
      <3>1. ASSUME NEW g \in Fd, fd[g].reads, fd[g].step \in {"open", "closing"}
            PROVE  fd'[g] = fd[g]
        BY <1>1, <3>1
      <3> QED  BY <2>0, <3>1 DEF MeterSteady, TimerHasReader
    <2>6. ModuleMeasures' /\ SP!NothingWrong'
      <3>1. wrong' = wrong /\ SP!NothingWrong /\ SP!OneUser' = SP!OneUser
        BY <2>0, SetupStays DEF MeterSteady
      <3>2. SP!NothingWrong'
        BY <2>0, <3>1 DEF SP!NothingWrong
      <3> QED  BY <2>0, <2>f, <3>2 DEF ModuleMeasures
    <2> QED  BY <2>1, <2>2, <2>3, <2>4, <2>5, <2>6 DEF MeterSteady
  <1> QED  BY <1>3, <1>4 DEF MeterInv

LEMMA MeterOpen ==
    ASSUME SP!MeterAssumption, MeterInv, NEW f \in Fd, SP!spower_open(f)
    PROVE  MeterInv'
  <1> DEFINE m == fd[f].meter
  <1>0. fd[f].step = "opening" /\ UNCHANGED <<meterSetup, stopped, leaving, meterModule>>
    BY DEF SP!spower_open
  <1>1. ~Stays => ~Stays'
    BY <1>0, SetupStays
  <1>2. CASE meter[m].at # "plugged"
    <2>1. fd' = [fd EXCEPT ![f] = SP!NoUser] /\ UNCHANGED <<meter, gbl, wrong>>
      BY <1>2 DEF SP!spower_open
    <2>2. CASE SP!May("files")
      BY <1>0, <2>1, <2>2, NoUserType, MeterFileIdle
    <2>3. CASE ~SP!May("files")
      <3>1. MeterTypes'
        BY <1>0, <2>1, NoUserType DEF MeterInv, MeterTypes
      <3>2. ~Stays
        BY <1>0, <2>3 DEF MeterInv, MeterSteady, OnlyWhatMay
      <3> QED  BY <1>1, <3>1, <3>2 DEF MeterInv
    <2> QED  BY <2>2, <2>3
  <1>3. CASE meter[m].at = "plugged" /\ m \in Meter
    <2>1. PICK k \in Meter : k = fd[f].meter
      BY <1>3
    <2>2. \/ fd' = [fd EXCEPT ![f] = SP!NoUser] /\ meter' = SP!Got(meter, k)
             /\ (~SP!Submittable(k) \/ SP!May("refuse")) /\ UNCHANGED <<gbl, wrong>>
          \/ fd' = [fd EXCEPT ![f].step = "open"] /\ ~fd[f].reads
             /\ meter' = SP!Got(meter, k) /\ UNCHANGED <<gbl, wrong>>
          \/ fd' = [fd EXCEPT ![f].step = "open"] /\ fd[f].reads
             /\ meter' = SP!Submitted(SP!Got(meter, k), k)
             /\ gbl' = [gbl EXCEPT !.timer = @ \/ gbl.dev = k]
             /\ wrong' = wrong \cup (IF gbl.dev = k THEN SP!WrongTimer ELSE {})
      BY <1>3, <2>1 DEF SP!spower_open
    <2>3. meter[k].at = "plugged"
      BY <1>3, <2>1
    <2> DEFINE M == SP!Got(meter, k)
    <2>4. CASE fd' = [fd EXCEPT ![f] = SP!NoUser] /\ meter' = M
               /\ (~SP!Submittable(k) \/ SP!May("refuse")) /\ UNCHANGED <<gbl, wrong>>
      BY <1>0, <2>1, <2>3, <2>4, MeterRefused
    <2>5. CASE fd' = [fd EXCEPT ![f].step = "open"] /\ ~fd[f].reads
               /\ meter' = M /\ UNCHANGED <<gbl, wrong>>
      BY <1>0, <2>1, <2>3, <2>5, MeterOpened
    <2>6. CASE /\ fd' = [fd EXCEPT ![f].step = "open"] /\ fd[f].reads
               /\ meter' = SP!Submitted(M, k)
               /\ gbl' = [gbl EXCEPT !.timer = @ \/ gbl.dev = k]
               /\ wrong' = wrong \cup (IF gbl.dev = k THEN SP!WrongTimer ELSE {})
      BY <1>0, <2>1, <2>3, <2>6, MeterOpened
    <2> QED  BY <2>2, <2>4, <2>5, <2>6
  <1>4. CASE meter[m].at = "plugged" /\ m \notin Meter
    BY <1>0, <1>4 DEF MeterInv, MeterTypes, FdRecord
  <1> QED  BY <1>2, <1>3, <1>4

(* A file that is closed stops the request that it has sent.                        *)
LEMMA MeterRelease ==
    ASSUME SP!MeterAssumption, MeterInv, NEW f \in Fd, SP!spower_release(f)
    PROVE  MeterInv'
  <1> DEFINE m == fd[f].meter
             r == [fd[f] EXCEPT !.step = "closing"]
  <1>0. /\ fd[f].step = "open" /\ fd' = [fd EXCEPT ![f] = r]
        /\ meter' = IF fd[f].reads THEN SP!Killed(meter, m) ELSE meter
        /\ wrong' = wrong \cup (IF fd[f].reads THEN SP!WrongUse(m) ELSE {})
        /\ UNCHANGED <<meterSetup, gbl, leaving, meterModule, stopped>>
    BY DEF SP!spower_release
  <1>1. m \in Meter
    BY <1>0 DEF MeterInv, MeterTypes, FdRecord
  <1>2. r \in FdRecord /\ r.step = "closing" /\ r.meter = m /\ r.reads = fd[f].reads
    <2> DEFINE old == fd[f]
    <2>1. old \in FdRecord /\ old.meter \in Meter
      BY <1>1 DEF MeterInv, MeterTypes
    <2> HIDE DEF old
    <2>2. [old EXCEPT !.step = "closing"] \in FdRecord
      BY <2>1 DEF FdRecord
    <2>3. /\ [old EXCEPT !.step = "closing"].step = "closing"
          /\ [old EXCEPT !.step = "closing"].meter = old.meter
          /\ [old EXCEPT !.step = "closing"].reads = old.reads
      BY <2>1 DEF FdRecord
    <2> QED  BY <2>2, <2>3 DEF old
  <1> HIDE DEF r
  <1>3. fd' \in [Fd -> FdRecord] /\ fd'[f] = r /\ \A g \in Fd \ {f} : fd'[g] = fd[g]
    BY <1>0, <1>2 DEF MeterInv, MeterTypes
  <1>4. /\ meter' \in [Meter -> MeterRecord] /\ (\A k \in Meter \ {m} : meter'[k] = meter[k])
        /\ meter'[m].at = meter[m].at /\ meter'[m].refs = meter[m].refs
        /\ meter'[m].urb = IF fd[f].reads /\ meter[m].urb = "active" THEN "idle"
                           ELSE meter[m].urb
    <2>0. meter \in [Meter -> MeterRecord]
      BY DEF MeterInv, MeterTypes
    <2>1. CASE fd[f].reads
      <3>1. /\ SP!Killed(meter, m) \in [Meter -> MeterRecord]
            /\ \A k \in Meter \ {m} : SP!Killed(meter, m)[k] = meter[k]
            /\ SP!Killed(meter, m)[m].at = meter[m].at
            /\ SP!Killed(meter, m)[m].refs = meter[m].refs
            /\ SP!Killed(meter, m)[m].urb = IF meter[m].urb = "active" THEN "idle"
                                            ELSE meter[m].urb
        BY <1>1, <2>0, KilledIs
      <3> QED  BY <1>0, <2>1, <3>1
    <2>2. CASE ~fd[f].reads
      BY <1>0, <2>0, <2>2
    <2> QED  BY <2>1, <2>2
  <1>5. MeterTypes'
    BY <1>0, <1>3, <1>4 DEF MeterInv, MeterTypes
  <1>6. ASSUME Stays'
        PROVE  MeterSteady'
    <2>0. MeterSteady /\ MeterTypes /\ (\A what : SP!May(what)' = SP!May(what))
      BY <1>0, <1>6, SetupStays DEF MeterInv
    <2>f. SP!May("files")
      BY <1>0, <2>0 DEF MeterSteady, OnlyWhatMay
    <2>a. IsFiniteSet(Fd) /\ fd \in [Fd -> FdRecord]
      BY <2>0, SameCardinality DEF SP!MeterAssumption, MeterTypes
    <2>1. OnlyWhatMay'
      BY <1>0, <1>1, <1>2, <1>3, <1>4, <2>0, <2>f DEF MeterSteady, OnlyWhatMay
    <2>2. UrbIsOfPlugged'
      BY <1>1, <1>4, <2>0 DEF MeterSteady, UrbIsOfPlugged
    <2>3. DevIsThere'
      BY <1>0, <1>1, <1>4, <2>0 DEF MeterSteady, DevIsThere
    <2>4. ASSUME NEW k \in Meter
          PROVE  HasRefs(k)'
      <3>1. f \in Using(k) <=> m = k
        BY <1>0 DEF Using
      <3>2. Opened(k)' = Opened(k)
        BY <1>0, <1>2, <2>a, <3>1, OpenedChanges
      <3>3. meter'[k].at = meter[k].at /\ meter'[k].refs = meter[k].refs
        BY <1>4
      <3> QED  BY <1>0, <2>0, <2>4, <3>2, <3>3, HasRefsStays DEF MeterSteady
    <2>5. UrbHasUser'
      <3> SUFFICES ASSUME NEW k \in Meter, meter'[k].urb = "active"
                   PROVE  \/ meterModule' /\ gbl'.dev = k /\ ~stopped'
                          \/ \E g \in Fd : Reading(g)' /\ fd'[g].meter = k
        BY DEF UrbHasUser
      <3>1. meter[k].urb = "active" /\ (k = m => ~fd[f].reads)
        BY <1>4
      <3>2. ASSUME NEW g \in Fd, Reading(g), fd[g].meter = k
            PROVE  Reading(g)' /\ fd'[g].meter = k
        <4>1. g # f
          BY <3>1, <3>2 DEF Reading
        <4> QED  BY <1>3, <3>2, <4>1 DEF Reading
      <3> QED  BY <1>0, <2>0, <3>1, <3>2 DEF MeterSteady, UrbHasUser
    <2>6. TimerHasReader'
      <3>1. ASSUME NEW g \in Fd, fd[g].reads, fd[g].step \in {"open", "closing"}
            PROVE  fd'[g].reads /\ fd'[g].step \in {"open", "closing"}
        BY <1>2, <1>3, <3>1
      <3> QED  BY <1>0, <2>0, <3>1 DEF MeterSteady, TimerHasReader
    <2>7. ModuleMeasures'
      BY <2>0, <2>f DEF ModuleMeasures
    <2>8. SP!NothingWrong'
      <3> DEFINE W == IF fd[f].reads THEN SP!WrongUse(m) ELSE {}
      <3>1. Opened(m) >= 1 /\ Opened(m) \in Nat
        BY <1>0, <2>a, OpenedType DEF Using
      <3>2. meter[m].refs # 0
        <4>1. HasRefs(m) /\ Plugged(m) \in Nat /\ Measures(m) \in Nat
          BY <1>1, <2>0 DEF MeterSteady, Plugged, Measures
        <4> QED  BY <3>1, <4>1 DEF HasRefs
      <3>3. meter[m].at \in {"plugged", "leaving", "gone"}
        <4>1. meter[m].at \in {"none", "plugged", "leaving", "gone", "freed"}
          BY <1>1, <2>0 DEF MeterTypes, MeterRecord
        <4>2. meter[m].at \notin {"none", "freed"}
          BY <1>1, <2>0, <3>2 DEF MeterSteady, HasRefs
        <4> QED  BY <4>1, <4>2
      <3>4. ~SP!May("unplug") => meter[m].urb # "freed"
        BY <1>1, <2>0, <3>3 DEF MeterSteady, OnlyWhatMay, UrbIsOfPlugged
      <3>5. /\ "timer added twice" \notin W /\ "freed meter" \notin W
            /\ ~SP!May("unplug") => "freed URB" \notin W
        BY <3>3, <3>4 DEF SP!WrongUse
      <3>6. wrong' = wrong \cup W /\ Stays
        BY <1>0, <1>6, SetupStays
      <3> HIDE DEF W
      <3> QED  BY <1>0, <2>0, <3>5, <3>6, NothingElseWrong DEF MeterSteady
    <2> QED  BY <2>1, <2>2, <2>3, <2>4, <2>5, <2>6, <2>7, <2>8 DEF MeterSteady
  <1> QED  BY <1>5, <1>6 DEF MeterInv

(* With the last user goes the meter, but never one that is plugged in.             *)
LEMMA MeterReleaseEnds ==
    ASSUME SP!MeterAssumption, MeterInv, NEW f \in Fd, SP!ReleaseEnds(f)
    PROVE  MeterInv'
  <1> DEFINE m == fd[f].meter
  <1>0. /\ fd[f].step = "closing" /\ meter' = SP!Put(meter, m)
        /\ gbl' = IF fd[f].reads THEN [gbl EXCEPT !.timer = FALSE, !.samples = 0] ELSE gbl
        /\ fd' = [fd EXCEPT ![f] = SP!NoUser]
        /\ wrong' = wrong \cup SP!WrongPut(m)
        /\ UNCHANGED <<meterSetup, leaving, meterModule, stopped>>
    BY DEF SP!ReleaseEnds
  <1>1. m \in Meter
    BY <1>0 DEF MeterInv, MeterTypes, FdRecord
  <1>a. meter[m].refs \in Nat
    BY <1>1 DEF MeterInv, MeterTypes, MeterRecord
  <1>2. /\ meter' \in [Meter -> MeterRecord] /\ (\A k \in Meter \ {m} : meter'[k] = meter[k])
        /\ meter'[m].urb = meter[m].urb
        /\ meter[m].refs <= 1 => meter'[m].at = "freed" /\ meter'[m].refs = 0
        /\ meter[m].refs > 1 => /\ meter'[m].at = meter[m].at
                                /\ meter'[m].refs = meter[m].refs - 1
    BY <1>0, <1>1, PutIs DEF MeterInv, MeterTypes
  <1>3. fd' \in [Fd -> FdRecord] /\ fd'[f] = SP!NoUser /\ \A g \in Fd \ {f} : fd'[g] = fd[g]
    BY <1>0, NoUserType DEF MeterInv, MeterTypes
  <1>4. /\ gbl' \in GblRecord /\ gbl'.dev = gbl.dev /\ gbl'.started = gbl.started
        /\ IF fd[f].reads THEN ~gbl'.timer /\ gbl'.samples = 0 ELSE gbl' = gbl
    <2>1. 0 \in 0 .. BufferSlots /\ gbl \in GblRecord
      BY DEF SP!MeterAssumption, MeterInv, MeterTypes
    <2>2. CASE fd[f].reads
      <3>1. gbl' = [gbl EXCEPT !.timer = FALSE, !.samples = 0]
        BY <1>0, <2>2
      <3> QED  BY <2>1, <2>2, <3>1 DEF GblRecord
    <2>3. CASE ~fd[f].reads
      BY <1>0, <2>1, <2>3
    <2> QED  BY <2>2, <2>3
  <1>5. MeterTypes'
    BY <1>0, <1>2, <1>3, <1>4 DEF MeterInv, MeterTypes
  <1>6. ASSUME Stays'
        PROVE  MeterSteady'
    <2>0. MeterSteady /\ MeterTypes /\ (\A what : SP!May(what)' = SP!May(what))
      BY <1>0, <1>6, SetupStays DEF MeterInv
    <2>f. SP!May("files")
      BY <1>0, <2>0 DEF MeterSteady, OnlyWhatMay
    <2>a. IsFiniteSet(Fd) /\ fd \in [Fd -> FdRecord]
      BY <2>0, SameCardinality DEF SP!MeterAssumption, MeterTypes
    <2>b. Opened(m) >= 1 /\ Opened(m) \in Nat
      BY <1>0, <2>a, OpenedType DEF Using
    <2>c. HasRefs(m) /\ Plugged(m) \in {0, 1} /\ Measures(m) \in {0, 1}
      BY <1>1, <2>0 DEF MeterSteady, Plugged, Measures
    <2>d. meter[m].at \notin {"none", "freed"} /\ meter[m].refs >= 1
      BY <1>a, <2>b, <2>c DEF HasRefs
    <2>g. meter[m].refs <= 1 => meter[m].at = "gone"
      <3> SUFFICES ASSUME meter[m].refs <= 1 PROVE meter[m].at = "gone"
        OBVIOUS
      <3>1. Plugged(m) = 0
        BY <1>a, <2>b, <2>c DEF HasRefs
      <3>2. meter[m].at \notin {"plugged", "leaving"}
        BY <3>1 DEF Plugged
      <3>3. meter[m].at \in {"none", "plugged", "leaving", "gone", "freed"}
        BY <1>1, <2>0 DEF MeterTypes, MeterRecord
      <3> QED  BY <2>d, <3>2, <3>3
    <2>h. meter[m].at \in {"plugged", "leaving"} => meter'[m].at = meter[m].at
      BY <1>2, <1>a, <2>g
    <2>i. meter'[m].at = meter[m].at \/ meter'[m].at = "freed"
      BY <1>2, <1>a
    <2>1. OnlyWhatMay'
      BY <1>0, <1>1, <1>2, <1>3, <2>0, <2>f, <2>i, NoUserType DEF MeterSteady, OnlyWhatMay
    <2>2. UrbIsOfPlugged'
      BY <1>1, <1>2, <2>0, <2>i DEF MeterSteady, UrbIsOfPlugged
    <2>3. DevIsThere'
      BY <1>0, <1>1, <1>2, <1>4, <2>0, <2>h, SMTT(30) DEF MeterSteady, DevIsThere
    <2>4. ASSUME NEW k \in Meter
          PROVE  HasRefs(k)'
      <3>1. f \in Using(k) <=> m = k
        BY <1>0 DEF Using
      <3>2. Opened(k)' = IF m = k THEN Opened(k) - 1 ELSE Opened(k)
        BY <1>0, <2>a, <3>1, NoUserType, OpenedChanges
      <3>3. (meterModule /\ gbl.dev = k)' <=> (meterModule /\ gbl.dev = k)
        BY <1>0, <1>4
      <3>4. CASE k # m
        BY <1>0, <1>2, <2>0, <2>4, <3>2, <3>3, <3>4, HasRefsStays DEF MeterSteady
      <3>5. CASE k = m
        <4>1. Measures(k)' = Measures(m) /\ Opened(k)' = Opened(m) - 1
          BY <3>2, <3>3, <3>5 DEF Measures
        <4>2. OneUserOnly' = OneUserOnly
          BY <1>0, SetupStays
        <4>3. CASE meter[m].refs > 1
          <5>1. meter'[k].at = meter[m].at /\ meter'[k].refs = meter[m].refs - 1
            BY <1>2, <3>5, <4>3
          <5>2. Plugged(k)' = Plugged(m)
            BY <3>5, <5>1 DEF Plugged
          <5>3. /\ meter'[k].refs >= Opened(k)' + Plugged(k)' + Measures(k)'
                /\ OneUserOnly' => meter'[k].refs = Opened(k)' + Plugged(k)' + Measures(k)'
            BY <1>a, <2>b, <2>c, <4>1, <4>2, <5>1, <5>2 DEF HasRefs
          <5> QED  BY <1>a, <2>d, <4>3, <5>1, <5>3, SMTT(30) DEF HasRefs
        <4>4. CASE meter[m].refs <= 1
          <5>1. meter'[k].at = "freed" /\ meter'[k].refs = 0
            BY <1>2, <3>5, <4>4
          <5>2. Plugged(k)' = 0
            BY <3>5, <5>1 DEF Plugged
          <5>3. Opened(m) = 1 /\ Measures(m) = 0
            BY <1>a, <2>b, <2>c, <4>4 DEF HasRefs
          <5>4. Opened(k)' = 0 /\ Measures(k)' = 0
            BY <4>1, <5>3
          <5> QED  BY <5>1, <5>2, <5>4 DEF HasRefs
        <4> QED  BY <1>a, <4>3, <4>4
      <3> QED  BY <3>4, <3>5
    <2>5. UrbHasUser'
      <3> SUFFICES ASSUME NEW k \in Meter, meter'[k].urb = "active"
                   PROVE  \/ meterModule' /\ gbl'.dev = k /\ ~stopped'
                          \/ \E g \in Fd : Reading(g)' /\ fd'[g].meter = k
        BY DEF UrbHasUser
      <3>1. meter[k].urb = "active"
        BY <1>2
      <3>2. ASSUME NEW g \in Fd, Reading(g), fd[g].meter = k
            PROVE  Reading(g)' /\ fd'[g].meter = k
        <4>1. g # f
          BY <1>0, <3>2 DEF Reading
        <4> QED  BY <1>3, <3>2, <4>1 DEF Reading
      <3> QED  BY <1>0, <1>4, <2>0, <3>1, <3>2 DEF MeterSteady, UrbHasUser
    <2>6. TimerHasReader'
      <3>1. CASE fd[f].reads
        BY <1>4, <3>1 DEF TimerHasReader
      <3>2. CASE ~fd[f].reads
        <4>1. ASSUME NEW g \in Fd, fd[g].reads, fd[g].step \in {"open", "closing"}
              PROVE  fd'[g].reads /\ fd'[g].step \in {"open", "closing"}
          BY <1>3, <3>2, <4>1
        <4> QED  BY <1>0, <1>4, <2>0, <3>2, <4>1 DEF MeterSteady, TimerHasReader
      <3> QED  BY <3>1, <3>2
    <2>7. ModuleMeasures' /\ SP!NothingWrong'
      <3>1. SP!WrongPut(m) = {}
        BY <2>d, <2>g DEF SP!WrongPut
      <3>2. wrong' = wrong /\ SP!NothingWrong /\ SP!OneUser' = SP!OneUser
        BY <1>0, <2>0, <3>1, SetupStays DEF MeterSteady
      <3>3. SP!NothingWrong'
        BY <2>0, <3>2 DEF SP!NothingWrong
      <3> QED  BY <2>0, <2>f, <3>3 DEF ModuleMeasures
    <2> QED  BY <2>1, <2>2, <2>3, <2>4, <2>5, <2>6, <2>7 DEF MeterSteady
  <1> QED  BY <1>5, <1>6 DEF MeterInv

-----------------------------------------------------------------------------------
LEMMA MeterKeeps ==
    ASSUME SP!MeterAssumption, MeterInv, [SP!Next]_(SP!meterVars)
    PROVE  MeterInv'
  <1>1. ASSUME NEW m \in Meter,
               \/ SP!spower_probe(m) \/ SP!spower_disconnect(m) \/ SP!DisconnectEnds(m)
               \/ SP!spower_int_in_callback(m)
        PROVE  MeterInv'
    BY <1>1, MeterProbe, MeterDisconnect, MeterDisconnectEnds, MeterAnswer
  <1>2. CASE SP!spower_fire_timer
    BY <1>2, MeterTimer
  <1>3. CASE \/ SP!spower_start_measurements \/ SP!spower_stop_measurements
             \/ SP!KillUrb \/ SP!StopEnds
    BY <1>3, MeterStart, MeterStop, MeterKill, MeterStopEnds
  <1>4. ASSUME NEW f \in Fd, NEW m \in Meter, NEW reads \in BOOLEAN,
               SP!OpenCheck(f, m, reads)
        PROVE  MeterInv'
    BY <1>4, MeterOpenCheck
  <1>5. ASSUME NEW f \in Fd,
               SP!spower_open(f) \/ SP!spower_release(f) \/ SP!ReleaseEnds(f)
        PROVE  MeterInv'
    BY <1>5, MeterOpen, MeterRelease, MeterReleaseEnds
  <1>6. CASE UNCHANGED SP!meterVars
    <2>1. UNCHANGED <<meterSetup, meter, gbl, leaving, stopped, fd, meterModule, wrong>>
      BY <1>6 DEF SP!meterVars
    <2>2. MeterTypes' = MeterTypes /\ Stays' = Stays
      BY <2>1, SetupStays DEF MeterTypes
    <2>3. MeterSteady' = MeterSteady
      BY <2>1 DEF MeterSteady, OnlyWhatMay, UrbIsOfPlugged, DevIsThere, HasRefs, Opened,
        Using, Plugged, Measures, UrbHasUser, TimerHasReader, ModuleMeasures,
        SP!NothingWrong, SP!OneUser, SP!May, OneUserOnly, Reading
    <2> QED  BY <2>2, <2>3 DEF MeterInv
  <1> QED  BY <1>1, <1>2, <1>3, <1>4, <1>5, <1>6 DEF SP!Next

LEMMA TimerStaysStarted ==
    ASSUME MeterInv, TimerIsStarted, [SP!Next]_(SP!meterVars)
    PROVE  TimerIsStarted'
  <1> SUFFICES ASSUME ~SP!May("files")'
               PROVE  /\ \A f \in Fd : fd'[f] = SP!NoUser
                      /\ gbl'.timer => gbl'.started # 0
                      /\ "timer added twice" \notin wrong'
    BY DEF TimerIsStarted
  <1>s. meterSetup' = meterSetup
    BY DEF SP!meterVars, SP!Next, SP!spower_probe, SP!spower_disconnect, SP!DisconnectEnds,
       SP!spower_int_in_callback, SP!spower_fire_timer, SP!spower_start_measurements,
       SP!spower_stop_measurements, SP!KillUrb, SP!StopEnds, SP!OpenCheck, SP!spower_open,
       SP!spower_release, SP!ReleaseEnds
  <1>0. /\ ~SP!May("files") /\ gbl \in GblRecord
        /\ \A f \in Fd : fd[f] = SP!NoUser
        /\ gbl.timer => gbl.started # 0
        /\ "timer added twice" \notin wrong
    BY <1>s, SetupStays DEF TimerIsStarted, MeterInv, MeterTypes
  <1>f. ASSUME NEW f \in Fd
        PROVE  fd[f].step = "closed"
    <2>1. fd[f] = SP!NoUser /\ SP!NoUser.step = "closed"
      BY <1>0 DEF SP!NoUser
    <2> QED  BY <2>1
  <1>w. \A m : /\ "timer added twice" \notin SP!WrongUse(m)
               /\ "timer added twice" \notin SP!WrongPut(m)
    BY DEF SP!WrongUse, SP!WrongPut
  <1>1. ASSUME NEW m \in Meter, SP!spower_probe(m) \/ SP!DisconnectEnds(m)
        PROVE  /\ fd' = fd /\ wrong' = wrong
               /\ gbl'.timer = gbl.timer /\ gbl'.started = gbl.started
    BY <1>0, <1>1 DEF SP!spower_probe, SP!DisconnectEnds, GblRecord
  <1>2. ASSUME NEW m \in Meter, SP!spower_int_in_callback(m)
        PROVE  /\ fd' = fd /\ wrong' = wrong
               /\ gbl'.timer = gbl.timer /\ gbl'.started = gbl.started
    BY <1>0, <1>2 DEF SP!spower_int_in_callback, GblRecord
  <1>3. ASSUME NEW m \in Meter, SP!spower_disconnect(m)
        PROVE  fd' = fd /\ wrong' = wrong /\ gbl' = gbl
    BY <1>3 DEF SP!spower_disconnect
  <1>4. CASE SP!spower_fire_timer
    BY <1>0, <1>4, <1>w DEF SP!spower_fire_timer
  <1>5. CASE SP!spower_start_measurements
    <2>1. SP!WrongTimer = {} /\ fd' = fd
      BY <1>0, <1>5 DEF SP!WrongTimer, SP!spower_start_measurements
    <2>2. CASE gbl' = gbl /\ wrong' = wrong \cup SP!WrongUse(gbl.dev)
      BY <1>0, <1>w, <2>1, <2>2
    <2>3. CASE /\ gbl' = [gbl EXCEPT !.started = 1, !.timer = TRUE]
               /\ wrong' = wrong \cup SP!WrongUse(gbl.dev) \cup SP!WrongTimer
      <3>1. gbl'.started # 0
        <4>1. gbl'.started = 1
          BY <1>0, <2>3 DEF GblRecord
        <4> QED  BY <4>1
      <3>2. "timer added twice" \notin wrong'
        BY <1>0, <1>w, <2>1, <2>3
      <3>3. \A f \in Fd : fd'[f] = SP!NoUser
        BY <1>0, <2>1
      <3> QED  BY <3>1, <3>2, <3>3
    <2> QED  BY <1>5, <2>2, <2>3 DEF SP!spower_start_measurements
  <1>6. CASE SP!spower_stop_measurements
    <2>1. fd' = fd /\ wrong' = wrong
      BY <1>6 DEF SP!spower_stop_measurements
    <2>2. gbl' = gbl \/ gbl' = [gbl EXCEPT !.started = 2]
      BY <1>6 DEF SP!spower_stop_measurements
    <2>3. CASE gbl' = gbl
      BY <1>0, <2>1, <2>3
    <2>4. CASE gbl' = [gbl EXCEPT !.started = 2]
      <3>1. gbl'.started # 0
        <4>1. gbl'.started = 2
          <5>1. DOMAIN gbl = {"dev", "started", "samples", "timer"}
            BY <1>0 DEF GblRecord
          <5> QED  BY <2>4, <5>1
        <4> QED  BY <4>1
      <3> QED  BY <1>0, <2>1, <3>1
    <2> QED  BY <2>2, <2>3, <2>4
  <1>7. CASE SP!KillUrb
    BY <1>0, <1>7, <1>w DEF SP!KillUrb
  <1>8. CASE SP!StopEnds
    <2>1. fd' = fd /\ wrong' = wrong \cup SP!WrongPut(leaving)
          /\ gbl' = [gbl EXCEPT !.timer = FALSE, !.samples = 0, !.started = 0]
      BY <1>8 DEF SP!StopEnds
    <2>2. ~gbl'.timer
      BY <1>0, <2>1 DEF GblRecord
    <2> QED  BY <1>0, <1>w, <2>1, <2>2
  <1>9. ASSUME NEW f \in Fd, NEW m \in Meter, NEW reads \in BOOLEAN,
               SP!OpenCheck(f, m, reads)
        PROVE  FALSE
    BY <1>0, <1>9 DEF SP!OpenCheck
  <1>10. ASSUME NEW f \in Fd,
                SP!spower_open(f) \/ SP!spower_release(f) \/ SP!ReleaseEnds(f)
         PROVE  FALSE
    BY <1>f, <1>10 DEF SP!spower_open, SP!spower_release, SP!ReleaseEnds
  <1>11. CASE UNCHANGED SP!meterVars
    BY <1>0, <1>11 DEF SP!meterVars
  <1>12. CASE \E m \in Meter : \/ SP!spower_probe(m) \/ SP!spower_disconnect(m)
                                \/ SP!DisconnectEnds(m) \/ SP!spower_int_in_callback(m)
    BY <1>0, <1>1, <1>2, <1>3, <1>12
  <1> QED
    BY <1>4, <1>5, <1>6, <1>7, <1>8, <1>9, <1>10, <1>11, <1>12 DEF SP!Next

LEMMA MeterSuffices ==
    ASSUME SP!MeterAssumption, MeterInv, TimerIsStarted
    PROVE  SP!SmartPowerIsSound
  <1>1. SP!MeterRefsAreUsers
    <2>1. ASSUME OneUserOnly, Stays, NEW m \in Meter
          PROVE  /\ meter[m].refs = SP!Cardinality(Using(m)) + Plugged(m) + Measures(m)
                 /\ meter[m].at = "freed" =>
                      SP!Cardinality(Using(m)) + Plugged(m) + Measures(m) = 0
                 /\ meter[m].at = "gone" =>
                      SP!Cardinality(Using(m)) + Plugged(m) + Measures(m) > 0
      <3>1. HasRefs(m)
        BY <2>1 DEF MeterInv, MeterSteady
      <3>2. SP!Cardinality(Using(m)) = Opened(m)
        BY SameCardinality DEF Opened
      <3>3. Opened(m) \in Nat /\ Plugged(m) \in Nat /\ Measures(m) \in Nat
        BY OpenedType, SameCardinality DEF SP!MeterAssumption, Plugged, Measures
      <3> QED  BY <2>1, <3>1, <3>2, <3>3 DEF HasRefs
    <2> QED  BY <2>1 DEF SP!MeterRefsAreUsers, OneUserOnly, Stays, Using, Plugged, Measures
  <1>2. SP!NothingWrong
    <2>1. CASE Stays
      BY <2>1 DEF MeterInv, MeterSteady
    <2>2. CASE ~Stays
      <3>1. SP!OneUser => ~SP!May("files")
        BY <2>2 DEF Stays, SP!OneUser
      <3> QED  BY <2>2, <3>1 DEF Stays, TimerIsStarted, SP!NothingWrong
    <2> QED  BY <2>1, <2>2
  <1>3. SP!QuietWithoutUser
    <2> SUFFICES ASSUME Stays, ~meterModule, SP!Readers = {}
                 PROVE  /\ gbl.started = 0 /\ ~gbl.timer /\ gbl.samples = 0
                        /\ \A m \in Meter : meter[m].urb # "active"
      BY DEF SP!QuietWithoutUser, Stays
    <2>1. ~\E f \in Fd : fd[f].reads /\ fd[f].step \in {"open", "closing"}
      BY DEF SP!Readers
    <2>2. ~\E f \in Fd : Reading(f)
      BY <2>1 DEF Reading
    <2>3. gbl.started = 0 /\ \A m \in Meter : meter[m].urb # "active"
      BY <2>2 DEF MeterInv, MeterSteady, DevIsThere, UrbHasUser
    <2>4. ~gbl.timer /\ ~(gbl.samples > 0)
      BY <2>1 DEF MeterInv, MeterSteady, TimerHasReader
    <2>5. gbl.samples \in 0 .. BufferSlots /\ BufferSlots \in Nat
      BY DEF MeterInv, MeterTypes, GblRecord, SP!MeterAssumption
    <2> QED  BY <2>3, <2>4, <2>5
  <1>4. SP!ModuleKeepsMeasuring
    <2> SUFFICES ASSUME ~SP!May("files"), ~SP!May("unplug"), meterModule, gbl.started = 1
                 PROVE  gbl.timer /\ (SP!May("refuse") \/ meter[gbl.dev].urb = "active")
      BY DEF SP!ModuleKeepsMeasuring
    <2>1. MeterSteady
      BY DEF MeterInv, Stays
    <2>2. ~stopped
      BY <2>1 DEF MeterSteady, DevIsThere
    <2> QED  BY <2>1, <2>2 DEF MeterSteady, ModuleMeasures
  <1> QED  BY <1>1, <1>2, <1>3, <1>4 DEF SP!SmartPowerIsSound

-----------------------------------------------------------------------------------
(* The sensors of the ARM boards: references to those of TC2, the meter of Juno.    *)

ThreadRecord == [state : {"none", "in", "out"}, first : BOOLEAN, cur : Int, acum : Int]
RanRecord == [energy : Int, idle : Int, told : Int, owed : Int,
              exact : BOOLEAN, sure : BOOLEAN, read : BOOLEAN]

SensorTypes ==
    /\ meter64 \in 1 .. MaxMeter
    /\ thread \in ThreadRecord
    /\ ran \in RanRecord
    /\ kind \in [Device -> {"energy", "other", "bare"}]

(* What the thread has saved, and what it would read now, are what was spent: unless a *)
(* reading was torn, or the meter never read for it.  When it was switched out, what   *)
(* it saved is what was spent while it ran.                                            *)
ThreadKnown ==
    /\ thread.first => thread.acum = 0
    /\ 0 <= ran.energy /\ 0 <= ran.idle /\ ran.energy + ran.idle <= meter64
    /\ thread.state = "in" => ran.idle = 0
    /\ thread.state = "none" => ~ran.read
    /\ ran.sure /\ ran.read =>
          thread.acum + (meter64 - thread.cur) = ran.energy + ran.idle
    /\ ran.sure /\ thread.state = "out" /\ ~thread.first => thread.acum = ran.energy
    /\ ran.exact => ran.told = ran.owed

(* The registers are mapped while the module is enabled on Juno.                    *)
RegionIsOfModule ==
    /\ region \in {"free", "taken", "mapped"}
    /\ region = "mapped" <=> sensorsOn = "juno"
    /\ region = "taken" => VS!Can("fails")

(* The sensors of TC2 are all there is, and each is held once.                      *)
JustSensors == sensorSetup \cap {"others", "bare"} = {} /\ Cardinality(Device) = NrSensors
SensorsAreHeld ==
    JustSensors =>
        /\ \A d \in Device : kind[d] = "energy"
        /\ \A d \in Device : held[d] = IF sensorsOn = "tc2" THEN 1 ELSE 0
        /\ sensorsOn = "tc2" => \A d \in Device : \E i \in 1 .. NrSensors : sensors[i] = d

SensorInv == SensorTypes /\ ThreadKnown /\ RegionIsOfModule /\ SensorsAreHeld

LEMMA SensorCardinality ==
    ASSUME NEW S
    PROVE  VS!Cardinality(S) = Cardinality(S) /\ (VS!IsFiniteSet(S) <=> IsFiniteSet(S))
  <1>1. VS!Cardinality(S) = Cardinality(S)
    BY Zenon DEF VS!Cardinality, Cardinality
  <1>2. VS!IsFiniteSet(S) <=> IsFiniteSet(S)
    BY Zenon DEF VS!IsFiniteSet, IsFiniteSet
  <1> QED  BY <1>1, <1>2

(* A list of as many different devices as there are has them all.                   *)
LEMMA AllAreListed ==
    ASSUME VS!SensorAssumption, JustSensors, NEW D \in SUBSET Device,
           NEW order \in VS!SetToSeqs(D), ~(Len(order) < NrSensors)
    PROVE  \A d \in Device : (\E i \in 1 .. NrSensors : order[i] = d) /\ d \in VS!ToSet(order)
  <1>1. IsFiniteSet(Device) /\ NrSensors \in Nat /\ Cardinality(Device) = NrSensors
    BY SensorCardinality DEF VS!SensorAssumption, JustSensors
  <1>2. IsFiniteSet(D) /\ Cardinality(D) \in Nat /\ Cardinality(D) <= NrSensors
    BY <1>1, FS_Subset, FS_CardinalityType
  <1> DEFINE n == Cardinality(D)
  <1>3. order \in [1 .. n -> D] /\ \A i, j \in 1 .. n : i # j => order[i] # order[j]
    BY SensorCardinality DEF VS!SetToSeqs
  <1>4. n = NrSensors
    <2>1. Len(order) = n
      BY <1>2, <1>3
    <2> QED  BY <1>1, <1>2, <2>1
  <1>5. D = Device
    BY <1>1, <1>4, FS_Subset
  <1>6. order \in Injection(1 .. n, D)
    BY <1>3 DEF Injection, IsInjective
  <1>7. IsFiniteSet(1 .. n) /\ Cardinality(1 .. n) = n
    BY <1>2, FS_Interval
  <1>8. order \in Surjection(1 .. n, D)
    BY <1>2, <1>6, <1>7, FS_Injection
  <1>9. \A d \in Device : \E i \in 1 .. n : order[i] = d
    BY <1>5, <1>8 DEF Surjection
  <1>10. DOMAIN order = 1 .. n
    BY <1>3
  <1> HIDE DEF n
  <1> QED  BY <1>4, <1>9, <1>10 DEF VS!ToSet

(* What a reading says, what moment it is of, and where the meter is then.          *)
LEMMA ReadingIs ==
    ASSUME VS!SensorAssumption, SensorTypes, NEW r \in VS!raw_read_energy_sensor
    PROVE  /\ r.value \in Int /\ r.at \in Int /\ r.meter \in 1 .. MaxMeter
           /\ r.sure \in BOOLEAN
           /\ meter64 <= r.at /\ r.at <= r.meter
           /\ r.sure => r.value = r.at
  <1> DEFINE Halves(hi, lo) == (hi \div Half) * Half + (lo % Half)
             V == {w \in {Halves(meter64, meter64 + 1), Halves(meter64 + 1, meter64)} :
                      meter64 < MaxMeter}
             S(v) == v \in {meter64, meter64 + 1}
             At(v) == IF S(v) THEN v ELSE meter64 + 1
             Of(v, m) == [value |-> v, meter |-> m, sure |-> S(v), at |-> At(v)]
  <1>1. VS!raw_read_energy_sensor
          = {Of(meter64, meter64)} \cup {Of(v, meter64 + 1) : v \in V}
    BY Zenon DEF VS!raw_read_energy_sensor
  <1>2. meter64 \in Nat /\ Half \in Nat \ {0} /\ meter64 \in 1 .. MaxMeter /\ MaxMeter \in Int
    BY DEF SensorTypes, VS!SensorAssumption
  <1>3. Halves(meter64, meter64 + 1) \in Int /\ Halves(meter64 + 1, meter64) \in Int
    BY <1>2
  <1> HIDE DEF Halves
  <1>4. V \subseteq Int /\ (V # {} => meter64 < MaxMeter)
    BY <1>3
  <1> HIDE DEF V
  <1>5. PICK v, m : /\ r = Of(v, m) /\ v \in Int
                    /\ \/ v = meter64 /\ m = meter64
                       \/ m = meter64 + 1 /\ meter64 < MaxMeter
    <2>1. CASE r = Of(meter64, meter64)
      <3>1. meter64 \in Int
        BY <1>2
      <3> WITNESS meter64, meter64
      <3> QED  BY <2>1, <3>1
    <2>2. CASE \E v \in V : r = Of(v, meter64 + 1)
      BY <1>4, <2>2
    <2> QED  BY <1>1, <2>1, <2>2
  <1>6. S(v) \in BOOLEAN /\ At(v) \in Int /\ (S(v) => v = At(v)) /\ meter64 <= At(v) /\ At(v) <= m
    <2>1. CASE S(v)
      BY <1>2, <1>5, <2>1
    <2>2. CASE ~S(v)
      BY <1>2, <1>5, <2>2
    <2> QED  BY <2>1, <2>2
  <1> HIDE DEF S, At
  <1>7. r.value = v /\ r.meter = m /\ r.sure = S(v) /\ r.at = At(v)
    BY <1>5
  <1>8. m \in 1 .. MaxMeter
    BY <1>2, <1>5
  <1> QED  BY <1>5, <1>6, <1>7, <1>8

(* The meter is too wide to wrap: a difference is what was spent.                   *)
LEMMA DifferenceIs ==
    ASSUME VS!SensorAssumption, SensorTypes, NEW value \in Int, NEW acum \in BOOLEAN
    PROVE  LET t == VS!do_read_energy_sensors(thread, value, acum)
               sum == thread.acum + (value - thread.cur)
           IN  /\ t \in ThreadRecord
               /\ t.state = thread.state /\ t.first = thread.first /\ t.cur = value
               /\ ~acum => t.acum = thread.acum
               /\ acum /\ 0 <= sum /\ sum <= MaxMeter => t.acum = sum
  <1> DEFINE W == Half * Half
             d == thread.acum + (value - thread.cur)
             x == thread.acum + value + W - thread.cur
             sum == IF acum THEN x % W ELSE thread.acum
             t == VS!do_read_energy_sensors(thread, value, acum)
  <1>1. t = [thread EXCEPT !.cur = value, !.acum = sum]
    BY Zenon DEF VS!do_read_energy_sensors, VS!Width
  <1>2. W \in Nat \ {0} /\ MaxMeter \in 1 .. W - 1
    <2>1. Half \in Nat \ {0} /\ MaxMeter \in 1 .. W - 1
      BY DEF VS!SensorAssumption
    <2>2. W \in Int
      BY <2>1
    <2> HIDE DEF W
    <2> QED  BY <2>1, <2>2
  <1>3. thread.acum \in Int /\ thread.cur \in Int
    BY DEF SensorTypes, ThreadRecord
  <1> HIDE DEF W
  <1>4. x \in Int /\ x % W \in 0 .. W - 1 /\ d \in Int /\ x = W + d
    BY <1>2, <1>3
  <1> HIDE DEF x, d
  <1>5. ASSUME 0 <= d, d <= MaxMeter
        PROVE  x % W = d
    <2>1. d \in 0 .. W - 1
      BY <1>2, <1>4, <1>5
    <2>2. (W + d) % W = d
      BY <1>2, <2>1, RemainderOfOneMore
    <2> QED  BY <1>4, <2>2
  <1>6. /\ sum \in Int
        /\ ~acum => sum = thread.acum
        /\ acum /\ 0 <= d /\ d <= MaxMeter => sum = d
    BY <1>2, <1>3, <1>4, <1>5
  <1> HIDE DEF sum, t
  <1>7. /\ t \in ThreadRecord /\ t.state = thread.state /\ t.first = thread.first
        /\ t.cur = value /\ t.acum = sum
    BY <1>1, <1>6 DEF SensorTypes, ThreadRecord
  <1> QED  BY <1>6, <1>7 DEF t, d

-----------------------------------------------------------------------------------
(* Steps that have to do with the references and the region leave the thread alone. *)
LEMMA ThreadStays ==
    ASSUME SensorInv, UNCHANGED <<meter64, thread, ran, kind>>
    PROVE  SensorTypes' /\ ThreadKnown'
  BY DEF SensorInv, SensorTypes, ThreadKnown

(* And those of the thread leave the references and the region alone.               *)
LEMMA RestStays ==
    ASSUME SensorInv, UNCHANGED <<sensorSetup, kind, held, sensors, region, sensorsOn>>
    PROVE  RegionIsOfModule' /\ SensorsAreHeld'
  <1>1. RegionIsOfModule'
    BY DEF SensorInv, RegionIsOfModule, VS!Can
  <1>2. SensorsAreHeld'
    BY DEF SensorInv, SensorsAreHeld, JustSensors
  <1> QED  BY <1>1, <1>2

LEMMA SensorInit ==
    ASSUME VS!SensorAssumption, VS!Init
    PROVE  SensorInv
  <1>1. SensorTypes
    <2>1. meter64 \in 1 .. MaxMeter
      <3>1. meter64 = 1 /\ MaxMeter \in 1 .. Half * Half - 1 /\ Half \in Nat
        BY DEF VS!Init, VS!SensorAssumption
      <3>2. Half * Half \in Int
        BY <3>1
      <3> QED  BY <3>1, <3>2
    <2>2. thread \in ThreadRecord /\ ran \in RanRecord
      <3>1. VS!NoThread \in ThreadRecord
        BY DEF VS!NoThread, ThreadRecord
      <3>2. VS!NotRan \in RanRecord
        BY DEF VS!NotRan, RanRecord
      <3>3. thread = VS!NoThread /\ ran = VS!NotRan
        BY DEF VS!Init
      <3> QED  BY <3>1, <3>2, <3>3
    <2>3. kind \in [Device -> {"energy", "other", "bare"}]
      BY DEF VS!Init
    <2> QED  BY <2>1, <2>2, <2>3 DEF SensorTypes
  <1>2. ThreadKnown
    <2>1. /\ ran.energy = 0 /\ ran.idle = 0 /\ ran.told = ran.owed /\ ~ran.read
          /\ thread.state = "none" /\ thread.acum = 0 /\ ~thread.first
      BY DEF VS!Init, VS!NoThread, VS!NotRan
    <2>2. meter64 = 1
      BY DEF VS!Init
    <2> QED  BY <2>1, <2>2 DEF ThreadKnown
  <1>3. RegionIsOfModule
    BY DEF VS!Init, RegionIsOfModule
  <1>4. SensorsAreHeld
    <2>1. JustSensors => ~VS!Can("others") /\ ~VS!Can("bare")
      BY DEF JustSensors, VS!Can
    <2> QED  BY <2>1 DEF VS!Init, SensorsAreHeld
  <1> QED  BY <1>1, <1>2, <1>3, <1>4 DEF SensorInv

LEMMA SensorsFound ==
    ASSUME VS!SensorAssumption, SensorInv, NEW D \in SUBSET Device,
           NEW order \in VS!SetToSeqs(D), VS!initialize_energy_sensors(order)
    PROVE  SensorInv'
  <1>0. /\ sensorsOn = "" /\ region = "free" /\ \A d \in Device : held[d] = 0
        /\ UNCHANGED <<sensorSetup, kind, region, meter64, thread, ran>>
    BY Zenon DEF VS!initialize_energy_sensors
  <1>1. ASSUME NEW d \in Device
        PROVE  VS!find_energy_sensors(order).held[d] =
                 IF d \in VS!ToSet(order) /\ kind[d] # "bare" THEN held[d] + 1 ELSE held[d]
    BY DEF VS!find_energy_sensors
  <1>2. VS!find_energy_sensors(order).found = order
    BY DEF VS!find_energy_sensors
  <1>3. SensorTypes' /\ ThreadKnown'
    BY <1>0, ThreadStays
  <1>4. CASE Len(order) < NrSensors
    <2>1. /\ held' = [d \in Device |->
                        IF d \in VS!ToSet(order) THEN VS!find_energy_sensors(order).held[d] - 1
                        ELSE VS!find_energy_sensors(order).held[d]]
          /\ UNCHANGED <<sensors, sensorsOn>>
      BY <1>4 DEF VS!initialize_energy_sensors
    <2>2. RegionIsOfModule'
      BY <1>0, <2>1 DEF SensorInv, RegionIsOfModule, VS!Can
    <2>3. ASSUME JustSensors, NEW d \in Device
          PROVE  held'[d] = 0
      <3>1. kind[d] = "energy" /\ held[d] = 0
        BY <1>0, <2>3 DEF SensorInv, SensorsAreHeld
      <3> QED  BY <1>1, <2>1, <3>1
    <2>4. SensorsAreHeld'
      BY <1>0, <2>1, <2>3 DEF SensorInv, SensorsAreHeld, JustSensors
    <2> QED  BY <1>3, <2>2, <2>4 DEF SensorInv
  <1>5. CASE ~(Len(order) < NrSensors)
    <2>1. /\ held' = VS!find_energy_sensors(order).held
          /\ sensors' = order /\ sensorsOn' = "tc2"
      BY <1>2, <1>5 DEF VS!initialize_energy_sensors
    <2>2. RegionIsOfModule'
      BY <1>0, <2>1 DEF SensorInv, RegionIsOfModule, VS!Can
    <2>3. ASSUME JustSensors, NEW d \in Device
          PROVE  held'[d] = 1 /\ \E i \in 1 .. NrSensors : sensors'[i] = d
      <3>1. kind[d] = "energy" /\ held[d] = 0
        BY <1>0, <2>3 DEF SensorInv, SensorsAreHeld
      <3>2. d \in VS!ToSet(order) /\ \E i \in 1 .. NrSensors : order[i] = d
        BY <1>5, <2>3, AllAreListed
      <3> QED  BY <1>1, <2>1, <3>1, <3>2
    <2>4. SensorsAreHeld'
      BY <1>0, <2>1, <2>3 DEF SensorInv, SensorsAreHeld, JustSensors
    <2> QED  BY <1>3, <2>2, <2>4 DEF SensorInv
  <1> QED  BY <1>4, <1>5

LEMMA SensorsReleased ==
    ASSUME SensorInv, VS!release_energy_sensors
    PROVE  SensorInv'
  <1>0. /\ sensorsOn = "tc2" /\ sensorsOn' = ""
        /\ held' = [d \in Device |-> IF \E i \in 1 .. NrSensors : sensors[i] = d
                                    THEN held[d] - 1 ELSE held[d]]
        /\ UNCHANGED <<sensorSetup, kind, region, meter64, thread, ran>>
    BY DEF VS!release_energy_sensors
  <1>1. SensorTypes' /\ ThreadKnown'
    BY <1>0, ThreadStays
  <1>2. RegionIsOfModule'
    BY <1>0 DEF SensorInv, RegionIsOfModule, VS!Can
  <1>3. ASSUME JustSensors, NEW d \in Device
        PROVE  held'[d] = 0
    <2>1. held[d] = 1 /\ \E i \in 1 .. NrSensors : sensors[i] = d
      BY <1>0, <1>3 DEF SensorInv, SensorsAreHeld
    <2>2. held'[d] = held[d] - 1
      BY <1>0, <1>3, <2>1 DEF SensorInv
    <2> QED  BY <2>1, <2>2
  <1>4. SensorsAreHeld'
    BY <1>0, <1>3 DEF SensorInv, SensorsAreHeld, JustSensors
  <1> QED  BY <1>1, <1>2, <1>4 DEF SensorInv

LEMMA RegistersMapped ==
    ASSUME SensorInv, VS!MapRegisters \/ VS!UnmapRegisters
    PROVE  SensorInv'
  <1>0. UNCHANGED <<sensorSetup, kind, held, sensors, meter64, thread, ran>>
    BY DEF VS!MapRegisters, VS!UnmapRegisters
  <1>1. SensorTypes' /\ ThreadKnown'
    BY <1>0, ThreadStays
  <1>2. RegionIsOfModule'
    BY DEF VS!MapRegisters, VS!UnmapRegisters, SensorInv, RegionIsOfModule, VS!Can
  <1>3. (sensorsOn' = "tc2") <=> (sensorsOn = "tc2")
    BY DEF VS!MapRegisters, VS!UnmapRegisters
  <1>4. SensorsAreHeld'
    BY <1>0, <1>3 DEF SensorInv, SensorsAreHeld, JustSensors
  <1> QED  BY <1>1, <1>2, <1>4 DEF SensorInv

(* The board spends energy while the thread runs, or while it does not.             *)
LEMMA EnergySpent ==
    ASSUME VS!SensorAssumption, SensorInv, VS!Spend
    PROVE  SensorInv'
  <1>0. /\ meter64 < MaxMeter /\ meter64' = meter64 + 1 /\ thread' = thread
        /\ ran' = CASE thread.state = "in" -> [ran EXCEPT !.energy = @ + 1]
                    [] thread.state = "out" -> [ran EXCEPT !.idle = @ + 1]
                    [] OTHER -> ran
        /\ UNCHANGED <<sensorSetup, kind, held, sensors, region, sensorsOn>>
    BY DEF VS!Spend
  <1>1. /\ meter64 \in 1 .. MaxMeter /\ MaxMeter \in Int /\ thread \in ThreadRecord
        /\ ran \in RanRecord
    BY DEF SensorInv, SensorTypes, VS!SensorAssumption
  <1>2. /\ ran' \in RanRecord /\ ran'.sure = ran.sure /\ ran'.told = ran.told
        /\ ran'.owed = ran.owed /\ ran'.read = ran.read /\ ran'.exact = ran.exact
        /\ ran'.energy = IF thread.state = "in" THEN ran.energy + 1 ELSE ran.energy
        /\ ran'.idle = IF thread.state = "out" THEN ran.idle + 1 ELSE ran.idle
    <2>1. CASE thread.state = "in"
      BY <1>0, <1>1, <2>1 DEF RanRecord
    <2>2. CASE thread.state = "out"
      BY <1>0, <1>1, <2>2 DEF RanRecord
    <2>3. CASE thread.state \notin {"in", "out"}
      BY <1>0, <1>1, <2>3
    <2> QED  BY <2>1, <2>2, <2>3
  <1>3. SensorTypes'
    BY <1>0, <1>1, <1>2 DEF SensorInv, SensorTypes
  <1>4. /\ ran.energy \in Int /\ ran.idle \in Int /\ thread.cur \in Int
        /\ thread.acum \in Int /\ thread.state \in {"none", "in", "out"}
    BY <1>1 DEF RanRecord, ThreadRecord
  <1>5. ThreadKnown'
    <2>1. ThreadKnown
      BY DEF SensorInv
    <2>2. CASE thread.state = "in"
      BY <1>0, <1>1, <1>2, <1>4, <2>1, <2>2 DEF ThreadKnown
    <2>3. CASE thread.state = "out"
      BY <1>0, <1>1, <1>2, <1>4, <2>1, <2>3 DEF ThreadKnown
    <2>4. CASE thread.state = "none"
      BY <1>0, <1>1, <1>2, <1>4, <2>1, <2>4 DEF ThreadKnown
    <2> QED  BY <1>4, <2>2, <2>3, <2>4
  <1> QED  BY <1>0, <1>3, <1>5, RestStays DEF SensorInv

LEMMA ThreadForked ==
    ASSUME SensorInv, NEW running \in BOOLEAN, VS!vexpress_sensors_on_fork(running)
    PROVE  SensorInv'
  <1>0. /\ thread' = [state |-> IF running THEN "in" ELSE "out", first |-> TRUE,
                      cur |-> 0, acum |-> 0]
        /\ ran' = VS!NotRan
        /\ UNCHANGED <<sensorSetup, kind, held, sensors, region, sensorsOn, meter64>>
    BY DEF VS!vexpress_sensors_on_fork
  <1>1. thread' \in ThreadRecord /\ thread'.acum = 0 /\ thread'.first
    BY <1>0 DEF ThreadRecord
  <1>2. /\ ran' \in RanRecord /\ ~ran'.read /\ ran'.told = ran'.owed
        /\ ran'.energy = 0 /\ ran'.idle = 0
    BY <1>0 DEF VS!NotRan, RanRecord
  <1>3. SensorTypes'
    BY <1>0, <1>1, <1>2 DEF SensorInv, SensorTypes
  <1>4. meter64' \in Int /\ meter64' >= 0
    BY <1>3 DEF SensorTypes
  <1>5. ThreadKnown'
    BY <1>1, <1>2, <1>4 DEF ThreadKnown
  <1> QED  BY <1>0, <1>3, <1>5, RestStays DEF SensorInv

LEMMA ThreadFreed ==
    ASSUME SensorInv, VS!vexpress_sensors_on_free_task
    PROVE  SensorInv'
  <1>0. /\ thread' = VS!NoThread /\ ran' = VS!NotRan
        /\ UNCHANGED <<sensorSetup, kind, held, sensors, region, sensorsOn, meter64>>
    BY DEF VS!vexpress_sensors_on_free_task
  <1>1. meter64 \in Int /\ meter64 >= 0
    BY DEF SensorInv, SensorTypes
  <1>2. SensorTypes' /\ ThreadKnown'
    BY <1>0, <1>1 DEF SensorInv, SensorTypes, ThreadKnown, VS!NoThread, VS!NotRan,
      ThreadRecord, RanRecord
  <1> QED  BY <1>0, <1>2, RestStays DEF SensorInv

(* What is known of the numbers when the meter is read.                             *)
LEMMA NumbersOf ==
    ASSUME VS!SensorAssumption, SensorInv, NEW r \in VS!raw_read_energy_sensor
    PROVE  /\ ran \in RanRecord /\ thread \in ThreadRecord
           /\ ran.energy \in Int /\ ran.idle \in Int
           /\ thread.acum \in Int /\ thread.cur \in Int
           /\ meter64 \in 1 .. MaxMeter /\ MaxMeter \in Int
           /\ r.value \in Int /\ r.at \in Int /\ r.meter \in 1 .. MaxMeter
           /\ r.sure \in BOOLEAN
           /\ meter64 <= r.at /\ r.at <= r.meter
           /\ r.sure => r.value = r.at
  BY ReadingIs DEF SensorInv, SensorTypes, RanRecord, ThreadRecord, VS!SensorAssumption

LEMMA ThreadSwitchedIn ==
    ASSUME VS!SensorAssumption, SensorInv, VS!vexpress_sensors_on_switch_in
    PROVE  SensorInv'
  <1>0. thread.state = "out" /\ UNCHANGED <<sensorSetup, kind, held, sensors, region, sensorsOn>>
    BY DEF VS!vexpress_sensors_on_switch_in
  <1>1. PICK r \in VS!raw_read_energy_sensor :
          /\ thread' = [VS!do_read_energy_sensors(thread, r.value, FALSE)
                           EXCEPT !.state = "in", !.first = FALSE]
          /\ meter64' = r.meter
          /\ ran' = [ran EXCEPT !.energy = @ + (r.meter - r.at), !.idle = 0,
                                !.sure = @ /\ (thread.first => ran.energy = 0),
                                !.read = r.sure]
    BY DEF VS!vexpress_sensors_on_switch_in
  <1>2. /\ ran \in RanRecord /\ thread \in ThreadRecord
        /\ ran.energy \in Int /\ ran.idle \in Int
        /\ thread.acum \in Int /\ meter64 \in 1 .. MaxMeter /\ MaxMeter \in Int
        /\ r.value \in Int /\ r.at \in Int /\ r.meter \in 1 .. MaxMeter
        /\ r.sure \in BOOLEAN
        /\ meter64 <= r.at /\ r.at <= r.meter
        /\ r.sure => r.value = r.at
    BY NumbersOf
  <1> DEFINE t == VS!do_read_energy_sensors(thread, r.value, FALSE)
             sure == ran.sure /\ (thread.first => ran.energy = 0)
             e == ran.energy + (r.meter - r.at)
  <1>3. t \in ThreadRecord /\ t.cur = r.value /\ t.acum = thread.acum
    BY <1>2, DifferenceIs DEF SensorInv
  <1>4. ran' = [ran EXCEPT !.energy = e, !.idle = 0, !.sure = sure, !.read = r.sure]
    BY <1>1
  <1>5. thread' = [t EXCEPT !.state = "in", !.first = FALSE]
    BY <1>1
  <1>6. sure \in BOOLEAN /\ (sure => ran.sure /\ (thread.first => ran.energy = 0))
    BY <1>2 DEF RanRecord
  <1>7. e \in Int
    BY <1>2
  <1> HIDE DEF t, sure
  <1>8. /\ thread' \in ThreadRecord /\ thread'.state = "in" /\ ~thread'.first
        /\ thread'.cur = r.value /\ thread'.acum = thread.acum
    BY <1>3, <1>5 DEF ThreadRecord
  <1>9. /\ ran' \in RanRecord /\ ran'.sure = sure /\ ran'.told = ran.told
        /\ ran'.owed = ran.owed /\ ran'.exact = ran.exact /\ ran'.read = r.sure
        /\ ran'.energy = ran.energy + (r.meter - r.at) /\ ran'.idle = 0
    <2> HIDE DEF e
    <2> DEFINE none == 0
    <2>1. none \in Int /\ ran' = [ran EXCEPT !.energy = e, !.idle = none, !.sure = sure,
                                           !.read = r.sure]
      BY <1>4
    <2> HIDE DEF none
    <2>2. /\ ran' \in RanRecord /\ ran'.sure = sure /\ ran'.told = ran.told
          /\ ran'.owed = ran.owed /\ ran'.exact = ran.exact /\ ran'.read = r.sure
          /\ ran'.energy = e /\ ran'.idle = none
      BY <1>2, <1>6, <1>7, <2>1 DEF RanRecord
    <2> QED  BY <2>2 DEF e, none
  <1>10. SensorTypes'
    BY <1>0, <1>1, <1>2, <1>8, <1>9 DEF SensorInv, SensorTypes
  <1>11. ThreadKnown'
    <2>1. /\ 0 <= ran.energy /\ 0 <= ran.idle /\ ran.energy + ran.idle <= meter64
          /\ ran.exact => ran.told = ran.owed
          /\ thread.first => thread.acum = 0
          /\ ran.sure /\ ~thread.first => thread.acum = ran.energy
      BY <1>0 DEF SensorInv, ThreadKnown
    <2>2. sure => thread.acum = ran.energy
      BY <1>2, <1>6, <2>1
    <2>3. 0 <= ran'.energy /\ ran'.idle = 0 /\ ran'.energy + ran'.idle <= meter64'
      BY <1>1, <1>2, <1>9, <2>1
    <2>4. ASSUME ran'.sure, ran'.read
          PROVE  thread'.acum + (meter64' - thread'.cur) = ran'.energy + ran'.idle
      <3>1. r.value = r.at /\ thread.acum = ran.energy
        BY <1>2, <1>9, <2>2, <2>4
      <3>2. /\ thread'.acum = ran.energy /\ thread'.cur = r.at /\ meter64' = r.meter
            /\ ran'.energy = ran.energy + (r.meter - r.at) /\ ran'.idle = 0
        BY <1>1, <1>8, <1>9, <3>1
      <3>3. r.meter \in Int
        BY <1>2
      <3> QED  BY <1>2, <3>2, <3>3
    <2> QED  BY <1>8, <1>9, <2>1, <2>3, <2>4 DEF ThreadKnown
  <1> QED  BY <1>0, <1>10, <1>11, RestStays DEF SensorInv

LEMMA ThreadSwitchedOut ==
    ASSUME VS!SensorAssumption, SensorInv, VS!vexpress_sensors_on_switch_out
    PROVE  SensorInv'
  <1>0. thread.state = "in" /\ UNCHANGED <<sensorSetup, kind, held, sensors, region, sensorsOn>>
    BY DEF VS!vexpress_sensors_on_switch_out
  <1>1. CASE thread.first
    <2>1. thread' = [thread EXCEPT !.state = "out"] /\ UNCHANGED <<meter64, ran>>
      BY <1>1 DEF VS!vexpress_sensors_on_switch_out
    <2>2. /\ thread' \in ThreadRecord /\ thread'.first /\ thread'.state = "out"
          /\ thread'.acum = thread.acum /\ thread'.cur = thread.cur
      BY <1>1, <2>1 DEF SensorInv, SensorTypes, ThreadRecord
    <2>3. SensorTypes'
      BY <1>0, <2>1, <2>2 DEF SensorInv, SensorTypes
    <2>4. ThreadKnown'
      BY <1>1, <2>1, <2>2 DEF SensorInv, ThreadKnown
    <2> QED  BY <1>0, <2>3, <2>4, RestStays DEF SensorInv
  <1>2. CASE ~thread.first
    <2>1. PICK r \in VS!raw_read_energy_sensor :
            /\ thread' = [VS!do_read_energy_sensors(thread, r.value, TRUE)
                             EXCEPT !.state = "out"]
            /\ meter64' = r.meter
            /\ ran' = [ran EXCEPT !.energy = @ + (r.at - meter64),
                                  !.idle = r.meter - r.at,
                                  !.sure = @ /\ ran.read /\ r.sure, !.read = r.sure]
      BY <1>2 DEF VS!vexpress_sensors_on_switch_out
    <2>2. /\ ran \in RanRecord /\ thread \in ThreadRecord
          /\ ran.energy \in Int /\ ran.idle \in Int
          /\ thread.acum \in Int /\ thread.cur \in Int
          /\ meter64 \in 1 .. MaxMeter /\ MaxMeter \in Int
          /\ r.value \in Int /\ r.at \in Int /\ r.meter \in 1 .. MaxMeter
          /\ r.sure \in BOOLEAN
          /\ meter64 <= r.at /\ r.at <= r.meter
          /\ r.sure => r.value = r.at
      BY NumbersOf
    <2> DEFINE t == VS!do_read_energy_sensors(thread, r.value, TRUE)
               sure == ran.sure /\ ran.read /\ r.sure
               e == ran.energy + (r.at - meter64)
               i == r.meter - r.at
               sum == thread.acum + (r.value - thread.cur)
    <2>3. /\ t \in ThreadRecord /\ t.first = thread.first /\ t.cur = r.value
          /\ 0 <= sum /\ sum <= MaxMeter => t.acum = sum
      BY <2>2, DifferenceIs DEF SensorInv
    <2>4. ran' = [ran EXCEPT !.energy = e, !.idle = i, !.sure = sure, !.read = r.sure]
      BY <2>1
    <2>5. thread' = [t EXCEPT !.state = "out"]
      BY <2>1
    <2>6. sure \in BOOLEAN /\ (sure => ran.sure /\ ran.read /\ r.sure)
      BY <2>2 DEF RanRecord
    <2>7. e \in Int /\ i \in Int
      BY <2>2
    <2> HIDE DEF t, sure
    <2>8. /\ thread' \in ThreadRecord /\ thread'.state = "out" /\ thread'.acum = t.acum
          /\ thread'.cur = r.value /\ thread'.first = thread.first
      BY <2>3, <2>5 DEF ThreadRecord
    <2>9. /\ ran' \in RanRecord /\ ran'.sure = sure /\ ran'.told = ran.told
          /\ ran'.owed = ran.owed /\ ran'.exact = ran.exact /\ ran'.read = r.sure
          /\ ran'.energy = ran.energy + (r.at - meter64) /\ ran'.idle = r.meter - r.at
      <3> HIDE DEF e, i
      <3>1. /\ ran' \in RanRecord /\ ran'.sure = sure /\ ran'.told = ran.told
            /\ ran'.owed = ran.owed /\ ran'.exact = ran.exact /\ ran'.read = r.sure
            /\ ran'.energy = e /\ ran'.idle = i
        BY <2>2, <2>4, <2>6, <2>7 DEF RanRecord
      <3> QED  BY <3>1 DEF e, i
    <2>10. SensorTypes'
      BY <1>0, <2>1, <2>2, <2>8, <2>9 DEF SensorInv, SensorTypes
    <2>11. ThreadKnown'
      <3>1. /\ 0 <= ran.energy /\ ran.idle = 0 /\ ran.energy <= meter64
            /\ ran.exact => ran.told = ran.owed
            /\ ran.sure /\ ran.read => thread.acum + (meter64 - thread.cur) = ran.energy
        BY <1>0, <2>2 DEF SensorInv, ThreadKnown
      <3>2. ASSUME sure
            PROVE  thread'.acum = ran'.energy /\ thread'.cur = r.at
        <4>1. r.value = r.at /\ thread.acum + (meter64 - thread.cur) = ran.energy
          BY <2>2, <2>6, <3>1, <3>2
        <4>2. sum = ran.energy + (r.at - meter64) /\ 0 <= sum /\ sum <= MaxMeter
          BY <2>2, <3>1, <4>1
        <4> HIDE DEF sum
        <4> QED  BY <2>3, <2>8, <2>9, <4>1, <4>2
      <3>3. /\ 0 <= ran'.energy /\ 0 <= ran'.idle /\ ran'.energy + ran'.idle <= meter64'
        BY <2>1, <2>2, <2>9, <3>1
      <3>4. sure => thread'.acum + (meter64' - thread'.cur) = ran'.energy + ran'.idle
        BY <2>1, <2>2, <2>7, <2>9, <3>2
      <3> QED  BY <1>2, <2>8, <2>9, <3>1, <3>2, <3>3, <3>4 DEF ThreadKnown
    <2> QED  BY <1>0, <2>10, <2>11, RestStays DEF SensorInv
  <1> QED  BY <1>1, <1>2

(* A sample of a thread that runs, or sleeps.                                       *)
LEMMA ThreadSampled ==
    ASSUME VS!SensorAssumption, SensorInv, VS!vexpress_sensors_on_new_sample
    PROVE  SensorInv'
  <1>0. /\ thread.state # "none"
        /\ UNCHANGED <<sensorSetup, kind, held, sensors, region, sensorsOn>>
    BY DEF VS!vexpress_sensors_on_new_sample
  <1>1. PICK r \in VS!raw_read_energy_sensor :
          /\ thread' = [VS!do_read_energy_sensors(thread, r.value, TRUE) EXCEPT !.acum = 0]
          /\ meter64' = r.meter
          /\ ran' = [energy |-> IF thread.state = "in" THEN r.meter - r.at ELSE 0,
                     idle |-> IF thread.state = "out" THEN r.meter - r.at ELSE 0,
                     owed |-> ran.energy + ran.idle + (r.at - meter64),
                     told |-> VS!do_read_energy_sensors(thread, r.value, TRUE).acum,
                     exact |-> ran.sure /\ ran.read /\ r.sure,
                     sure |-> TRUE, read |-> r.sure]
    BY DEF VS!vexpress_sensors_on_new_sample
  <1>2. /\ ran \in RanRecord /\ thread \in ThreadRecord
        /\ ran.energy \in Int /\ ran.idle \in Int
        /\ thread.acum \in Int /\ thread.cur \in Int
        /\ meter64 \in 1 .. MaxMeter /\ MaxMeter \in Int
        /\ r.value \in Int /\ r.at \in Int /\ r.meter \in 1 .. MaxMeter
        /\ r.sure \in BOOLEAN
        /\ meter64 <= r.at /\ r.at <= r.meter
        /\ r.sure => r.value = r.at
    BY NumbersOf
  <1> DEFINE t == VS!do_read_energy_sensors(thread, r.value, TRUE)
             exact == ran.sure /\ ran.read /\ r.sure
             e == IF thread.state = "in" THEN r.meter - r.at ELSE 0
             i == IF thread.state = "out" THEN r.meter - r.at ELSE 0
             o == ran.energy + ran.idle + (r.at - meter64)
             sum == thread.acum + (r.value - thread.cur)
  <1>3. /\ t \in ThreadRecord /\ t.first = thread.first /\ t.state = thread.state
        /\ t.cur = r.value
        /\ 0 <= sum /\ sum <= MaxMeter => t.acum = sum
    BY <1>2, DifferenceIs DEF SensorInv
  <1>4. ran' = [energy |-> e, idle |-> i, owed |-> o, told |-> t.acum, exact |-> exact,
                sure |-> TRUE, read |-> r.sure]
    BY <1>1
  <1>5. thread' = [t EXCEPT !.acum = 0]
    BY <1>1
  <1>6. exact \in BOOLEAN /\ (exact => ran.sure /\ ran.read /\ r.sure)
    BY <1>2 DEF RanRecord
  <1>7. /\ e \in Int /\ i \in Int /\ o \in Int /\ 0 <= e /\ 0 <= i
        /\ e + i = r.meter - r.at
        /\ thread.state = "in" => i = 0
        /\ thread.state = "out" => e = 0
    <2>1. thread.state \in {"in", "out"} /\ "in" # "out"
      BY <1>0, <1>2 DEF ThreadRecord
    <2> QED  BY <1>2, <2>1
  <1> HIDE DEF t, exact
  <1>8. /\ thread' \in ThreadRecord /\ thread'.state = thread.state
        /\ thread'.first = thread.first
        /\ thread'.acum = 0 /\ thread'.cur = r.value /\ t.acum \in Int
    BY <1>0, <1>3, <1>5 DEF ThreadRecord
  <1> HIDE DEF e, i
  <1>9. /\ ran' \in RanRecord /\ ran'.sure /\ ran'.told = t.acum /\ ran'.exact = exact
        /\ ran'.read = r.sure /\ ran'.energy = e /\ ran'.idle = i
        /\ ran'.owed = ran.energy + ran.idle + (r.at - meter64)
    <2> HIDE DEF o
    <2>1. /\ ran' \in RanRecord /\ ran'.sure /\ ran'.told = t.acum /\ ran'.exact = exact
          /\ ran'.read = r.sure /\ ran'.energy = e /\ ran'.idle = i /\ ran'.owed = o
      BY <1>2, <1>4, <1>6, <1>7, <1>8 DEF RanRecord
    <2> QED  BY <2>1 DEF o
  <1>10. SensorTypes'
    BY <1>0, <1>1, <1>2, <1>8, <1>9 DEF SensorInv, SensorTypes
  <1>11. ThreadKnown'
    <2>1. /\ 0 <= ran.energy /\ 0 <= ran.idle /\ ran.energy + ran.idle <= meter64
          /\ ran.sure /\ ran.read =>
                thread.acum + (meter64 - thread.cur) = ran.energy + ran.idle
      BY DEF SensorInv, ThreadKnown
    <2>2. ASSUME exact
          PROVE  ran'.told = ran'.owed
      <3>1. /\ r.value = r.at
            /\ thread.acum + (meter64 - thread.cur) = ran.energy + ran.idle
        BY <1>2, <1>6, <2>1, <2>2
      <3>2. sum = o /\ 0 <= sum /\ sum <= MaxMeter
        BY <1>2, <2>1, <3>1
      <3> HIDE DEF sum
      <3> QED  BY <1>3, <1>9, <3>2 DEF o
    <2>a. ran'.energy = e /\ ran'.idle = i /\ meter64' = r.meter /\ r.meter \in Int
      BY <1>1, <1>2, <1>9
    <2>3. /\ 0 <= ran'.energy /\ 0 <= ran'.idle /\ ran'.energy + ran'.idle <= meter64'
      BY <1>2, <1>7, <2>a
    <2>b. /\ thread'.state = "in" => ran'.idle = 0
          /\ thread'.state = "out" => ran'.energy = 0
          /\ thread'.state # "none"
      BY <1>0, <1>7, <1>8, <2>a
    <2>4. ASSUME ran'.read
          PROVE  thread'.acum + (meter64' - thread'.cur) = ran'.energy + ran'.idle
      <3>1. thread'.acum = 0 /\ thread'.cur = r.at
        BY <1>2, <1>8, <1>9, <2>4
      <3> QED  BY <1>2, <1>7, <2>a, <3>1
    <2> QED  BY <1>8, <1>9, <2>2, <2>3, <2>b, <2>4 DEF ThreadKnown
  <1> QED  BY <1>0, <1>10, <1>11, RestStays DEF SensorInv

LEMMA SensorsKeep ==
    ASSUME VS!SensorAssumption, SensorInv, [VS!Next]_(VS!sensorVars)
    PROVE  SensorInv'
  <1>1. ASSUME NEW D \in SUBSET Device, NEW order \in VS!SetToSeqs(D),
               VS!initialize_energy_sensors(order)
        PROVE  SensorInv'
    BY <1>1, SensorsFound
  <1>2. CASE VS!release_energy_sensors \/ VS!MapRegisters \/ VS!UnmapRegisters
    BY <1>2, SensorsReleased, RegistersMapped
  <1>3. CASE VS!Spend
    BY <1>3, EnergySpent
  <1>4. ASSUME NEW running \in BOOLEAN, VS!vexpress_sensors_on_fork(running)
        PROVE  SensorInv'
    BY <1>4, ThreadForked
  <1>5. CASE \/ VS!vexpress_sensors_on_switch_in \/ VS!vexpress_sensors_on_switch_out
             \/ VS!vexpress_sensors_on_new_sample \/ VS!vexpress_sensors_on_free_task
    BY <1>5, ThreadSwitchedIn, ThreadSwitchedOut, ThreadSampled, ThreadFreed
  <1>6. CASE UNCHANGED VS!sensorVars
    <2>1. UNCHANGED <<sensorSetup, kind, held, sensors, region, sensorsOn, meter64, thread, ran>>
      BY <1>6 DEF VS!sensorVars
    <2> QED  BY <2>1, ThreadStays, RestStays DEF SensorInv
  <1> QED  BY <1>1, <1>2, <1>3, <1>4, <1>5, <1>6 DEF VS!Next

LEMMA SensorSuffices ==
    ASSUME VS!SensorAssumption, SensorInv
    PROVE  VS!SensorsAreSound
  <1>1. VS!SensorRefsAreExact
    BY SensorCardinality DEF SensorInv, SensorsAreHeld, JustSensors, VS!SensorRefsAreExact
  <1>2. VS!RunningEnergyIsExact
    BY DEF SensorInv, ThreadKnown, VS!RunningEnergyIsExact
  <1>3. VS!CanBeEnabledAgain
    BY DEF SensorInv, RegionIsOfModule, VS!CanBeEnabledAgain
  <1> QED  BY <1>1, <1>2, <1>3 DEF VS!SensorsAreSound

-----------------------------------------------------------------------------------
(* The theorems.                                                                    *)

(* The registers are narrow and wrap, and however often they do, the energy told    *)
(* with the samples of threads and CPUs, and summed up for the energy-delay product, *)
(* is what was spent between two readings of one package (intel_rapl_core.c,         *)
(* edp_core.c); the timer that reads before they wrap is off without a user.         *)
THEOREM EnergyCountersAreAlwaysSound ==
    DevicesSpec => []EnergyCountersAreSound
  <1> DEFINE Inv == subject = "rapl" => RaplInv
  <1>1. DevicesInit => Inv
    BY DevicesAssumption, RaplInit DEF DevicesInit
  <1>2. Inv /\ [DevicesNext]_<<subject, deviceVars>> => Inv'
    <2> SUFFICES ASSUME Inv, [DevicesNext]_<<subject, deviceVars>>, subject' = "rapl"
                 PROVE  RaplInv'
      OBVIOUS
    <2>1. subject = "rapl"
      BY DEF DevicesNext
    <2>2. EC!Next \/ UNCHANGED raplVars
      BY <2>1 DEF DevicesNext, deviceVars
    <2>3. [EC!Next]_(EC!raplVars)
      BY <2>2 DEF raplVars, EC!raplVars
    <2> QED  BY <2>1, <2>3, DevicesAssumption, RaplKeeps
  <1>3. Inv => EnergyCountersAreSound
    BY DevicesAssumption, RaplSuffices DEF EnergyCountersAreSound
  <1> QED  BY <1>1, <1>2, <1>3, PTL DEF DevicesSpec

(* The driver of the Smart Power meters: a meter is freed with its last user and    *)
(* not before, a timer is not added twice nor a freed request used, nothing runs    *)
(* without a user, and only the USB core stops what the module measures, also where *)
(* requests are refused as they are submitted again.                                *)
THEOREM SmartPowerIsAlwaysSound ==
    DevicesSpec => []SmartPowerIsSound
  <1> DEFINE Inv == subject = "meter" => MeterInv /\ TimerIsStarted
  <1>1. DevicesInit => Inv
    <2>1. SP!Init => TimerIsStarted
      BY DEF SP!Init, TimerIsStarted
    <2> QED  BY <2>1, DevicesAssumption, MeterInit DEF DevicesInit
  <1>2. Inv /\ [DevicesNext]_<<subject, deviceVars>> => Inv'
    <2> SUFFICES ASSUME Inv, [DevicesNext]_<<subject, deviceVars>>, subject' = "meter"
                 PROVE  (MeterInv /\ TimerIsStarted)'
      OBVIOUS
    <2>1. subject = "meter"
      BY DEF DevicesNext
    <2>2. SP!Next \/ UNCHANGED meterVars
      BY <2>1 DEF DevicesNext, deviceVars
    <2>3. [SP!Next]_(SP!meterVars)
      BY <2>2 DEF meterVars, SP!meterVars
    <2> QED  BY <2>1, <2>3, DevicesAssumption, MeterKeeps, TimerStaysStarted
  <1>3. Inv => SmartPowerIsSound
    BY DevicesAssumption, MeterSuffices DEF SmartPowerIsSound
  <1> QED  BY <1>1, <1>2, <1>3, PTL DEF DevicesSpec

(* The sensors of the ARM boards: what is held is put again and only that, samples, *)
(* also of a thread that sleeps, have the energy spent while it ran where neither of *)
(* their two readings was torn, and the module can be enabled again.                *)
THEOREM SensorsAreAlwaysSound ==
    DevicesSpec => []SensorsAreSound
  <1> DEFINE Inv == subject = "sensors" => SensorInv
  <1>1. DevicesInit => Inv
    BY DevicesAssumption, SensorInit DEF DevicesInit
  <1>2. Inv /\ [DevicesNext]_<<subject, deviceVars>> => Inv'
    <2> SUFFICES ASSUME Inv, [DevicesNext]_<<subject, deviceVars>>, subject' = "sensors"
                 PROVE  SensorInv'
      OBVIOUS
    <2>1. subject = "sensors"
      BY DEF DevicesNext
    <2>2. VS!Next \/ UNCHANGED sensorVars
      BY <2>1 DEF DevicesNext, deviceVars
    <2>3. [VS!Next]_(VS!sensorVars)
      BY <2>2 DEF sensorVars, VS!sensorVars
    <2> QED  BY <2>1, <2>3, DevicesAssumption, SensorsKeep
  <1>3. Inv => SensorsAreSound
    BY DevicesAssumption, SensorSuffices DEF SensorsAreSound
  <1> QED  BY <1>1, <1>2, <1>3, PTL DEF DevicesSpec

=====================================================================================
