------------------------------ MODULE SchedApps_proofs ------------------------------
(***********************************************************************************)
(* Applications of the scheduler framework and their RMIDs, for any number of       *)
(* threads, control groups, files, structures and RMIDs, in all circumstances at    *)
(* once: references are never fewer than those that refer to an application, and    *)
(* exactly as many unless two threads use a file at a time; the references to an    *)
(* RMID are exactly its users in the circumstances that RmidRefsAreUsers names.     *)
(***********************************************************************************)
EXTENDS SchedApps, FiniteSetTheorems, TLAPS

-----------------------------------------------------------------------------------
(* Counting.                                                                        *)

LEMMA CountType ==
    ASSUME NEW S, IsFiniteSet(S), NEW T, T \subseteq S
    PROVE  IsFiniteSet(T) /\ Cardinality(T) \in Nat /\ (Cardinality(T) = 0 <=> T = {})
  BY FS_Subset, FS_CardinalityType, FS_EmptySet

LEMMA CountMore ==
    ASSUME NEW T, IsFiniteSet(T), NEW x, x \notin T
    PROVE  Cardinality(T \cup {x}) = Cardinality(T) + 1
  BY FS_AddElement

LEMMA CountFewer ==
    ASSUME NEW T, IsFiniteSet(T), NEW x \in T
    PROVE  Cardinality(T \ {x}) = Cardinality(T) - 1 /\ Cardinality(T) > 0
  <1>1. Cardinality(T \ {x}) = Cardinality(T) - 1
    BY FS_RemoveElement
  <1>2. Cardinality(T) \in Nat /\ Cardinality(T) # 0
    BY FS_CardinalityType, FS_EmptySet
  <1> QED  BY <1>1, <1>2

-----------------------------------------------------------------------------------
(* What the operations on an application return.                                    *)

LEMMA GetIs ==
    ASSUME NEW A \in [App -> sched_app_t], NEW a \in App
    PROVE  /\ get_sched_app(A, a) \in [App -> sched_app_t]
           /\ get_sched_app(A, a)[a].refs = A[a].refs + 1
           /\ get_sched_app(A, a)[a].state = A[a].state
           /\ get_sched_app(A, a)[a].rmid = A[a].rmid
           /\ \A b \in App \ {a} : get_sched_app(A, a)[b] = A[b]
  <1> DEFINE r == [A[a] EXCEPT !.refs = @ + 1]
  <1>1. r \in sched_app_t /\ r.refs = A[a].refs + 1 /\ r.state = A[a].state
        /\ r.rmid = A[a].rmid
    BY DEF sched_app_t
  <1>2. get_sched_app(A, a) = [A EXCEPT ![a] = r]
    BY DEF get_sched_app
  <1> HIDE DEF r
  <1> QED  BY <1>1, <1>2

LEMMA PutIs ==
    ASSUME NEW A \in [App -> sched_app_t], NEW a \in App, A[a].refs > 0
    PROVE  /\ put_sched_app(A, a) \in [App -> sched_app_t]
           /\ put_sched_app(A, a)[a].refs = A[a].refs - 1
           /\ put_sched_app(A, a)[a].state = IF A[a].refs = 1 THEN "freed" ELSE A[a].state
           /\ put_sched_app(A, a)[a].rmid = A[a].rmid
           /\ \A b \in App \ {a} : put_sched_app(A, a)[b] = A[b]
  <1> DEFINE s == IF A[a].refs = 1 THEN "freed" ELSE A[a].state
             r == [A[a] EXCEPT !.refs = @ - 1, !.state = s]
  <1>0. A[a].refs \in Nat /\ A[a].refs - 1 \in Nat /\ s \in {"unused", "live", "freed"}
    BY DEF sched_app_t
  <1>1. r \in sched_app_t /\ r.refs = A[a].refs - 1 /\ r.state = s /\ r.rmid = A[a].rmid
    BY <1>0 DEF sched_app_t
  <1>2. put_sched_app(A, a) = [A EXCEPT ![a] = r]
    BY DEF put_sched_app
  <1> HIDE DEF r
  <1> QED  BY <1>1, <1>2

LEMMA CreatedIs ==
    ASSUME NEW A \in [App -> sched_app_t], NEW a \in App
    PROVE  /\ Created(A, a) \in [App -> sched_app_t]
           /\ Created(A, a)[a] = [state |-> "live", refs |-> 1, rmid |-> 0]
           /\ \A b \in App \ {a} : Created(A, a)[b] = A[b]
  <1> DEFINE n == [state |-> "live", refs |-> 1, rmid |-> 0]
  <1>1. n \in sched_app_t /\ Created(A, a) = [A EXCEPT ![a] = n]
    BY DEF sched_app_t, Created
  <1> QED  BY <1>1

LEMMA CreatedWithRmidIs ==
    ASSUME NEW A \in [App -> sched_app_t], NEW a \in App, NEW r \in Rmid \cup {0}
    PROVE  /\ [Created(A, a) EXCEPT ![a].rmid = r] \in [App -> sched_app_t]
           /\ [Created(A, a) EXCEPT ![a].rmid = r][a]
                = [state |-> "live", refs |-> 1, rmid |-> r]
           /\ \A b \in App \ {a} : [Created(A, a) EXCEPT ![a].rmid = r][b] = A[b]
  <1> DEFINE m == [state |-> "live", refs |-> 1, rmid |-> r]
             C == Created(A, a)
  <1>1. C \in [App -> sched_app_t] /\ (\A b \in App \ {a} : C[b] = A[b])
        /\ [C[a] EXCEPT !.rmid = r] = m /\ m \in sched_app_t
    BY CreatedIs DEF sched_app_t
  <1>2. [C EXCEPT ![a].rmid = r] = [C EXCEPT ![a] = [C[a] EXCEPT !.rmid = r]]
    OBVIOUS
  <1> HIDE DEF m, C
  <1>3. [C EXCEPT ![a].rmid = r] = [C EXCEPT ![a] = m]
    BY <1>1, <1>2
  <1> QED  BY <1>1, <1>3 DEF m, C

LEMMA RmidSetIs ==
    ASSUME NEW A \in [App -> sched_app_t], NEW a \in App, NEW r \in Rmid \cup {0}
    PROVE  /\ [A EXCEPT ![a].rmid = r] \in [App -> sched_app_t]
           /\ [A EXCEPT ![a].rmid = r][a].refs = A[a].refs
           /\ [A EXCEPT ![a].rmid = r][a].state = A[a].state
           /\ [A EXCEPT ![a].rmid = r][a].rmid = r
           /\ \A b \in App \ {a} : [A EXCEPT ![a].rmid = r][b] = A[b]
  <1> DEFINE n == [A[a] EXCEPT !.rmid = r]
  <1>1. n \in sched_app_t /\ n.refs = A[a].refs /\ n.state = A[a].state /\ n.rmid = r
    BY DEF sched_app_t
  <1>2. [A EXCEPT ![a].rmid = r] = [A EXCEPT ![a] = n]
    OBVIOUS
  <1> HIDE DEF n
  <1> QED  BY <1>1, <1>2

-----------------------------------------------------------------------------------
(* What the operations on the pool return.                                          *)

PoolType == [refs : [Rmid -> Nat], free : SUBSET Rmid]

\* What is not free is referred to.
PoolIsCounted == \A r \in Rmid : r \in pool.free \/ pool.refs[r] > 0

LEMMA TakeableIs ==
    ASSUME TypeOK, NEW r \in Takeable
    PROVE  r \in Rmid \cup {0} /\ (r \in pool.free \/ r = 0)
  BY DEF TypeOK, Takeable

LEMMA TakenIs ==
    ASSUME TypeOK, NEW r \in Rmid \cup {0}
    PROVE  /\ Taken(r) \in PoolType
           /\ Taken(r).free = pool.free \ {r}
           /\ \A q \in Rmid : Taken(r).refs[q] = IF q = r THEN pool.refs[q] + 1
                                                 ELSE pool.refs[q]
  <1> DEFINE N == [q \in Rmid |-> IF q = r THEN pool.refs[q] + 1 ELSE pool.refs[q]]
             F == pool.free \ {r}
  <1>1. pool \in PoolType /\ Taken(r) = [pool EXCEPT !.refs = N, !.free = F]
    BY DEF TypeOK, Taken, PoolType
  <1>2. N \in [Rmid -> Nat] /\ F \in SUBSET Rmid
    BY <1>1 DEF PoolType
  <1>3. \A q \in Rmid : N[q] = IF q = r THEN pool.refs[q] + 1 ELSE pool.refs[q]
    OBVIOUS
  <1> HIDE DEF N
  <1>4. Taken(r) \in PoolType /\ Taken(r).refs = N /\ Taken(r).free = F
    BY <1>1, <1>2 DEF PoolType
  <1> QED  BY <1>3, <1>4

LEMMA UseIs ==
    ASSUME TypeOK, NEW r \in Rmid \cup {0}
    PROVE  /\ use_rmid(r) \in PoolType
           /\ use_rmid(r).free = pool.free
           /\ \A q \in Rmid : use_rmid(r).refs[q] = IF q = r /\ q \notin pool.free
                                                    THEN pool.refs[q] + 1
                                                    ELSE pool.refs[q]
  BY DEF TypeOK, use_rmid, PoolType

LEMMA RmidPutIs ==
    ASSUME NEW P \in PoolType, \A q \in Rmid : q \in P.free \/ P.refs[q] > 0,
           NEW r \in Rmid \cup {0}
    PROVE  /\ put_rmid(P, r) \in PoolType
           /\ \A q \in Rmid :
                /\ put_rmid(P, r).refs[q] = IF q = r /\ q \notin P.free
                                            THEN P.refs[q] - 1 ELSE P.refs[q]
                /\ q \in put_rmid(P, r).free
                     <=> q \in P.free \/ (q = r /\ P.refs[q] = 1)
  <1> DEFINE N == [q \in Rmid |-> IF q = r /\ q \notin P.free
                                  THEN P.refs[q] - 1 ELSE P.refs[q]]
             F == P.free \cup {q \in Rmid \ P.free : q = r /\ P.refs[q] = 1}
  <1>1. put_rmid(P, r) = [refs |-> N, free |-> F]
    <2>1. \A q \in Rmid : q \in {p \in Rmid \ P.free : p = r} <=> q = r /\ q \notin P.free
      OBVIOUS
    <2> QED  BY <2>1 DEF put_rmid
  <1>2. N \in [Rmid -> Nat]
    <2>1. \A q \in Rmid : P.refs[q] \in Nat /\ (q \notin P.free => P.refs[q] > 0)
      BY DEF PoolType
    <2> QED  BY <2>1
  <1>3. F \in SUBSET Rmid
    BY DEF PoolType
  <1>4. \A q \in Rmid : q \in F <=> q \in P.free \/ (q = r /\ P.refs[q] = 1)
    OBVIOUS
  <1> HIDE DEF N, F
  <1>5. put_rmid(P, r) \in PoolType
    BY <1>1, <1>2, <1>3 DEF PoolType
  <1>6. \A q \in Rmid : N[q] = IF q = r /\ q \notin P.free THEN P.refs[q] - 1 ELSE P.refs[q]
    BY DEF N
  <1> QED  BY <1>1, <1>4, <1>5, <1>6

-----------------------------------------------------------------------------------
(***********************************************************************************)
(* References to applications.                                                      *)
(***********************************************************************************)

\* Whoever has been a thread has an application.
ThreadsHaveApps == \A t \in Thread : th[t].state # "none" => th[t].app \in App

\* Each container has an application of its own.
OwnContainers ==
    \A g, h \in Cgroup : container[g] # NoApp /\ container[g] = container[h] => g = h

RefsCover ==
    \A a \in App : /\ app[a].refs >= Holders(a)
                   /\ "shared" \notin setup => app[a].refs = Holders(a)

\* An application lives as long as it is referred to.
LiveIsCounted == ~bad => \A a \in App : app[a].state = "live" <=> app[a].refs > 0

\* A file that finds an application, or whose reader is about to get one, has none yet;
\* and one reader at most is about to get one, unless two threads use the file.
FileSteps ==
    "shared" \notin setup =>
      \A f \in File :
        /\ file[f].found # NoApp \/ file[f].readers # {} => file[f].app = NoApp
        /\ file[f].found # NoApp => file[f].readers = {}
        /\ \A t, u \in file[f].readers : t = u

\* What a file has found was a living application, and still is one unless it may go away.
FoundIsLive ==
    \A f \in File : file[f].found # NoApp =>
        /\ app[file[f].found].state # "unused"
        /\ "race" \notin setup => app[file[f].found].state = "live"

NothingBad == Harmless({"race", "again"}) => ~bad

AppInv ==
    /\ TypeOK /\ ThreadsHaveApps /\ OwnContainers /\ RefsCover /\ LiveIsCounted
    /\ FileSteps /\ FoundIsLive /\ NothingBad /\ PoolIsCounted

-----------------------------------------------------------------------------------
(* Who holds an application.                                                        *)

LEMMA HoldersType ==
    ASSUME NEW a
    PROVE  /\ IsFiniteSet(ThreadsOf(a)) /\ Cardinality(ThreadsOf(a)) \in Nat
           /\ IsFiniteSet(ContainersOf(a)) /\ Cardinality(ContainersOf(a)) \in Nat
           /\ IsFiniteSet(FilesOf(a)) /\ Cardinality(FilesOf(a)) \in Nat
           /\ Holders(a) \in Nat
           /\ Holders(a) = 0 <=> ThreadsOf(a) = {} /\ ContainersOf(a) = {} /\ FilesOf(a) = {}
  <1>1. /\ IsFiniteSet(ThreadsOf(a)) /\ Cardinality(ThreadsOf(a)) \in Nat
        /\ Cardinality(ThreadsOf(a)) = 0 <=> ThreadsOf(a) = {}
    <2>1. ThreadsOf(a) \subseteq Thread
      BY DEF ThreadsOf
    <2> QED  BY <2>1, CountType, SchedAppsAssumption
  <1>2. /\ IsFiniteSet(ContainersOf(a)) /\ Cardinality(ContainersOf(a)) \in Nat
        /\ Cardinality(ContainersOf(a)) = 0 <=> ContainersOf(a) = {}
    <2>1. ContainersOf(a) \subseteq Cgroup
      BY DEF ContainersOf
    <2> QED  BY <2>1, CountType, SchedAppsAssumption
  <1>3. /\ IsFiniteSet(FilesOf(a)) /\ Cardinality(FilesOf(a)) \in Nat
        /\ Cardinality(FilesOf(a)) = 0 <=> FilesOf(a) = {}
    <2>1. FilesOf(a) \subseteq File
      BY DEF FilesOf
    <2> QED  BY <2>1, CountType, SchedAppsAssumption
  <1> HIDE DEF ThreadsOf, ContainersOf, FilesOf
  <1> QED  BY <1>1, <1>2, <1>3 DEF Holders

(* The lemmas that follow say how holders are counted when one thread, container or *)
(* file comes or goes.                                                              *)

LEMMA ThreadComes ==
    ASSUME NEW t \in Thread, th[t].state = "none" \/ th[t].state = "freed",
           \A u \in Thread \ {t} : th'[u] = th[u],
           th'[t].state \in {"alive", "refused"},
           UNCHANGED <<container, file>>, NEW b
    PROVE  Holders(b)' = Holders(b) + (IF b = th'[t].app THEN 1 ELSE 0)
  <1>1. ContainersOf(b)' = ContainersOf(b) /\ FilesOf(b)' = FilesOf(b)
    BY DEF ContainersOf, FilesOf
  <1>2. t \notin ThreadsOf(b)
    BY DEF ThreadsOf
  <1>3. ThreadsOf(b)' = IF b = th'[t].app THEN ThreadsOf(b) \cup {t} ELSE ThreadsOf(b)
    BY DEF ThreadsOf
  <1>4. Cardinality(ThreadsOf(b)') = Cardinality(ThreadsOf(b)) + (IF b = th'[t].app THEN 1 ELSE 0)
    BY <1>2, <1>3, HoldersType, CountMore
  <1> QED  BY <1>1, <1>4, HoldersType DEF Holders

LEMMA ThreadGoes ==
    ASSUME NEW t \in Thread, th[t].state = "gone", th'[t].state = "freed",
           \A u \in Thread \ {t} : th'[u] = th[u],
           UNCHANGED <<container, file>>, NEW b
    PROVE  /\ Holders(b)' = Holders(b) - (IF b = th[t].app THEN 1 ELSE 0)
           /\ b = th[t].app => Holders(b) > 0
  <1>1. ContainersOf(b)' = ContainersOf(b) /\ FilesOf(b)' = FilesOf(b)
    BY DEF ContainersOf, FilesOf
  <1>2. b = th[t].app => t \in ThreadsOf(b)
    BY DEF ThreadsOf
  <1>3. ThreadsOf(b)' = IF b = th[t].app THEN ThreadsOf(b) \ {t} ELSE ThreadsOf(b)
    BY DEF ThreadsOf
  <1>4. /\ Cardinality(ThreadsOf(b)') = Cardinality(ThreadsOf(b)) - (IF b = th[t].app THEN 1 ELSE 0)
        /\ b = th[t].app => Cardinality(ThreadsOf(b)) > 0
    BY <1>2, <1>3, HoldersType, CountFewer
  <1> QED  BY <1>1, <1>4, HoldersType DEF Holders

LEMMA ThreadStays ==
    ASSUME NEW t \in Thread, th'[t].app = th[t].app,
           th[t].state \in {"alive", "gone"}, th'[t].state \in {"alive", "gone"},
           \A u \in Thread \ {t} : th'[u] = th[u],
           UNCHANGED <<container, file>>, NEW b
    PROVE  Holders(b)' = Holders(b)
  <1>1. ContainersOf(b)' = ContainersOf(b) /\ FilesOf(b)' = FilesOf(b)
    BY DEF ContainersOf, FilesOf
  <1>2. \A u \in Thread : u \in ThreadsOf(b)' <=> u \in ThreadsOf(b)
    BY DEF ThreadsOf
  <1>3. ThreadsOf(b)' = ThreadsOf(b)
    <2>1. ThreadsOf(b)' \subseteq Thread /\ ThreadsOf(b) \subseteq Thread
      BY DEF ThreadsOf
    <2> QED  BY <1>2, <2>1
  <1> QED  BY <1>1, <1>3 DEF Holders

LEMMA ContainerComes ==
    ASSUME TypeOK, NEW g \in Cgroup, container[g] = NoApp, NEW a \in App,
           container' = [container EXCEPT ![g] = a], UNCHANGED <<th, file>>,
           NEW b \in App
    PROVE  Holders(b)' = Holders(b) + (IF b = a THEN 1 ELSE 0)
  <1>1. ThreadsOf(b)' = ThreadsOf(b) /\ FilesOf(b)' = FilesOf(b)
    BY DEF ThreadsOf, FilesOf
  <1>2. g \notin ContainersOf(b)
    BY SchedAppsAssumption DEF ContainersOf
  <1>3. ContainersOf(b)' = IF b = a THEN ContainersOf(b) \cup {g} ELSE ContainersOf(b)
    BY <1>2 DEF ContainersOf, TypeOK
  <1>4. Cardinality(ContainersOf(b)') = Cardinality(ContainersOf(b)) + (IF b = a THEN 1 ELSE 0)
    BY <1>2, <1>3, HoldersType, CountMore
  <1> QED  BY <1>1, <1>4, HoldersType DEF Holders

LEMMA ContainerGoes ==
    ASSUME TypeOK, NEW g \in Cgroup, container[g] # NoApp,
           container' = [container EXCEPT ![g] = NoApp], UNCHANGED <<th, file>>,
           NEW b \in App
    PROVE  /\ Holders(b)' = Holders(b) - (IF b = container[g] THEN 1 ELSE 0)
           /\ b = container[g] => Holders(b) > 0
  <1>1. ThreadsOf(b)' = ThreadsOf(b) /\ FilesOf(b)' = FilesOf(b)
    BY DEF ThreadsOf, FilesOf
  <1>2. b = container[g] => g \in ContainersOf(b)
    BY DEF ContainersOf
  <1>3. ContainersOf(b)' = IF b = container[g] THEN ContainersOf(b) \ {g} ELSE ContainersOf(b)
    BY SchedAppsAssumption DEF ContainersOf, TypeOK
  <1>4. /\ Cardinality(ContainersOf(b)')
             = Cardinality(ContainersOf(b)) - (IF b = container[g] THEN 1 ELSE 0)
        /\ b = container[g] => Cardinality(ContainersOf(b)) > 0
    BY <1>2, <1>3, HoldersType, CountFewer
  <1> QED  BY <1>1, <1>4, HoldersType DEF Holders

LEMMA ContainersGo ==
    ASSUME TypeOK, OwnContainers, container' = [g \in Cgroup |-> NoApp],
           UNCHANGED <<th, file>>, NEW b \in App
    PROVE  LET one == IF \E g \in Cgroup : container[g] = b THEN 1 ELSE 0
           IN  Holders(b)' = Holders(b) - one /\ Holders(b) >= one
  <1>1. ThreadsOf(b)' = ThreadsOf(b) /\ FilesOf(b)' = FilesOf(b)
    BY DEF ThreadsOf, FilesOf
  <1>2. ContainersOf(b)' = {}
    BY SchedAppsAssumption DEF ContainersOf
  <1>3. CASE \E g \in Cgroup : container[g] = b
    <2>1. PICK g \in Cgroup : container[g] = b
      BY <1>3
    <2>2. ContainersOf(b) = {g}
      BY <2>1, SchedAppsAssumption DEF ContainersOf, OwnContainers
    <2>3. Cardinality(ContainersOf(b)) = 1
      BY <2>2, FS_Singleton
    <2> QED  BY <1>1, <1>2, <1>3, <2>3, FS_EmptySet, HoldersType DEF Holders
  <1>4. CASE ~\E g \in Cgroup : container[g] = b
    <2>1. ContainersOf(b) = {}
      BY <1>4 DEF ContainersOf
    <2> QED  BY <1>1, <1>2, <1>4, <2>1, FS_EmptySet, HoldersType DEF Holders
  <1> QED  BY <1>3, <1>4

LEMMA FileChanges ==
    ASSUME NEW f \in File, \A h \in File \ {f} : file'[h] = file[h],
           UNCHANGED <<th, container>>, NEW b
    PROVE  /\ Holders(b)' = Holders(b) + (IF b = file'[f].app THEN 1 ELSE 0)
                                       - (IF b = file[f].app THEN 1 ELSE 0)
           /\ b = file[f].app => Holders(b) > 0
  <1>1. ThreadsOf(b)' = ThreadsOf(b) /\ ContainersOf(b)' = ContainersOf(b)
    BY DEF ThreadsOf, ContainersOf
  <1> DEFINE Rest == FilesOf(b) \ {f}
  <1>2. FilesOf(b)' = IF b = file'[f].app THEN Rest \cup {f} ELSE Rest
    BY DEF FilesOf
  <1>3. FilesOf(b) = IF b = file[f].app THEN Rest \cup {f} ELSE Rest
    BY DEF FilesOf
  <1>4. f \notin Rest /\ IsFiniteSet(Rest) /\ Cardinality(Rest) \in Nat
    BY HoldersType, CountType
  <1> HIDE DEF Rest
  <1>5. /\ Cardinality(FilesOf(b)') = Cardinality(Rest) + (IF b = file'[f].app THEN 1 ELSE 0)
        /\ Cardinality(FilesOf(b)) = Cardinality(Rest) + (IF b = file[f].app THEN 1 ELSE 0)
    BY <1>2, <1>3, <1>4, CountMore
  <1> QED  BY <1>1, <1>4, <1>5, HoldersType DEF Holders

-----------------------------------------------------------------------------------
(* What becomes of references and lives when one reference is taken or put.         *)

LEMMA AfterGet ==
    ASSUME AppInv, NEW a \in App, app' = get_sched_app(app, a),
           app[a].state = "live" \/ bad', ~bad, UNCHANGED setup,
           \A b \in App : /\ Holders(b)' \in Int
                          /\ Holders(b)' =< Holders(b) + (IF b = a THEN 1 ELSE 0)
                          /\ "shared" \notin setup =>
                               Holders(b)' = Holders(b) + (IF b = a THEN 1 ELSE 0)
    PROVE  /\ app' \in [App -> sched_app_t] /\ RefsCover' /\ LiveIsCounted'
           /\ \A b \in App : app'[b].state = app[b].state /\ app'[b].rmid = app[b].rmid
  <1>1. /\ app \in [App -> sched_app_t] /\ app' \in [App -> sched_app_t]
        /\ app'[a].refs = app[a].refs + 1 /\ app'[a].state = app[a].state
        /\ app'[a].rmid = app[a].rmid /\ \A b \in App \ {a} : app'[b] = app[b]
    BY GetIs DEF AppInv, TypeOK
  <1>2. \A b \in App : app[b].refs \in Nat
    BY <1>1 DEF sched_app_t
  <1>3. RefsCover'
    <2> SUFFICES ASSUME NEW b \in App
                 PROVE  /\ app'[b].refs >= Holders(b)'
                        /\ "shared" \notin setup => app'[b].refs = Holders(b)'
      BY DEF RefsCover
    <2>1. app[b].refs >= Holders(b) /\ ("shared" \notin setup => app[b].refs = Holders(b))
      BY DEF AppInv, RefsCover
    <2>2. Holders(b) \in Nat
      BY HoldersType
    <2>3. app'[b].refs = app[b].refs + (IF b = a THEN 1 ELSE 0)
      BY <1>1, <1>2
    <2>4. /\ Holders(b)' \in Int
          /\ Holders(b)' =< Holders(b) + (IF b = a THEN 1 ELSE 0)
          /\ "shared" \notin setup => Holders(b)' = Holders(b) + (IF b = a THEN 1 ELSE 0)
      OBVIOUS
    <2>5. app[b].refs \in Nat
      BY <1>2
    <2> QED  BY <2>1, <2>2, <2>3, <2>4, <2>5
  <1>4. LiveIsCounted'
    BY <1>1, <1>2 DEF AppInv, LiveIsCounted
  <1> QED  BY <1>1, <1>3, <1>4

LEMMA AfterPut ==
    ASSUME AppInv, NEW a \in App, app' = put_sched_app(app, a), Holders(a) > 0,
           ~bad, UNCHANGED setup,
           \A b \in App : Holders(b)' = Holders(b) - (IF b = a THEN 1 ELSE 0)
    PROVE  /\ app' \in [App -> sched_app_t] /\ RefsCover' /\ LiveIsCounted'
           /\ app[a].state = "live"
           /\ \A b \in App : /\ app'[b].rmid = app[b].rmid
                             /\ app'[b].state = IF b = a /\ app[a].refs = 1 THEN "freed"
                                                ELSE app[b].state
  <1>0. app \in [App -> sched_app_t] /\ (\A b \in App : app[b].refs \in Nat) /\ app[a].refs > 0
    <2>1. app \in [App -> sched_app_t] /\ app[a].refs >= Holders(a) /\ Holders(a) \in Nat
      BY HoldersType DEF AppInv, TypeOK, RefsCover
    <2>2. \A b \in App : app[b].refs \in Nat
      BY <2>1 DEF sched_app_t
    <2> QED  BY <2>1, <2>2
  <1>1. /\ app' \in [App -> sched_app_t]
        /\ app'[a].refs = app[a].refs - 1
        /\ app'[a].state = IF app[a].refs = 1 THEN "freed" ELSE app[a].state
        /\ app'[a].rmid = app[a].rmid /\ \A b \in App \ {a} : app'[b] = app[b]
    BY <1>0, PutIs
  <1>3. RefsCover'
    <2> SUFFICES ASSUME NEW b \in App
                 PROVE  /\ app'[b].refs >= Holders(b)'
                        /\ "shared" \notin setup => app'[b].refs = Holders(b)'
      BY DEF RefsCover
    <2>1. app[b].refs >= Holders(b) /\ ("shared" \notin setup => app[b].refs = Holders(b))
      BY DEF AppInv, RefsCover
    <2>2. Holders(b) \in Nat
      BY HoldersType
    <2>3. app'[b].refs = app[b].refs - (IF b = a THEN 1 ELSE 0)
      BY <1>0, <1>1
    <2>4. Holders(b)' = Holders(b) - (IF b = a THEN 1 ELSE 0)
      OBVIOUS
    <2> QED  BY <1>0, <2>1, <2>2, <2>3, <2>4
  <1>4. LiveIsCounted'
    BY <1>0, <1>1 DEF AppInv, LiveIsCounted
  <1>5. app[a].state = "live"
    BY <1>0 DEF AppInv, LiveIsCounted
  <1> QED  BY <1>1, <1>3, <1>4, <1>5

LEMMA UnusedHasNoHolder ==
    ASSUME AppInv, ~bad, NEW a \in Unused
    PROVE  /\ a \in App /\ app[a].refs = 0 /\ Holders(a) = 0
           /\ ThreadsOf(a) = {} /\ ContainersOf(a) = {} /\ FilesOf(a) = {}
  <1>1. a \in App /\ app[a].state = "unused" /\ app[a].refs \in Nat
    BY DEF AppInv, TypeOK, sched_app_t, Unused
  <1>2. app[a].refs = 0
    BY <1>1 DEF AppInv, LiveIsCounted
  <1>3. app[a].refs >= Holders(a)
    BY <1>1 DEF AppInv, RefsCover
  <1> QED  BY <1>1, <1>2, <1>3, HoldersType

LEMMA AfterCreate ==
    ASSUME AppInv, NEW a \in Unused, NEW r \in Rmid \cup {0},
           \/ app' = [Created(app, a) EXCEPT ![a].rmid = r]
           \/ r = 0 /\ app' = Created(app, a),
           ~bad, UNCHANGED setup,
           \A b \in App : Holders(b)' = Holders(b) + (IF b = a THEN 1 ELSE 0)
    PROVE  /\ app' \in [App -> sched_app_t] /\ RefsCover' /\ LiveIsCounted'
           /\ app'[a].state = "live" /\ app'[a].rmid = r
           /\ \A b \in App \ {a} : app'[b] = app[b]
  <1>0. a \in App /\ Holders(a) = 0 /\ app \in [App -> sched_app_t]
    BY UnusedHasNoHolder DEF AppInv, TypeOK
  <1>1. /\ app' \in [App -> sched_app_t]
        /\ app'[a] = [state |-> "live", refs |-> 1, rmid |-> r]
        /\ \A b \in App \ {a} : app'[b] = app[b]
    <2>1. CASE app' = [Created(app, a) EXCEPT ![a].rmid = r]
      BY <1>0, <2>1, CreatedWithRmidIs
    <2>2. CASE r = 0 /\ app' = Created(app, a)
      <3>1. /\ Created(app, a) \in [App -> sched_app_t]
            /\ Created(app, a)[a] = [state |-> "live", refs |-> 1, rmid |-> 0]
            /\ \A b \in App \ {a} : Created(app, a)[b] = app[b]
        BY <1>0, CreatedIs
      <3> QED  BY <2>2, <3>1
    <2> QED  BY <2>1, <2>2
  <1>2. app'[a].state = "live" /\ app'[a].refs = 1 /\ app'[a].rmid = r
    BY <1>1
  <1>3. RefsCover'
    <2> SUFFICES ASSUME NEW b \in App
                 PROVE  /\ app'[b].refs >= Holders(b)'
                        /\ "shared" \notin setup => app'[b].refs = Holders(b)'
      BY DEF RefsCover
    <2>1. app[b].refs >= Holders(b) /\ ("shared" \notin setup => app[b].refs = Holders(b))
      BY DEF AppInv, RefsCover
    <2>2. Holders(b) \in Nat /\ Holders(b)' = Holders(b) + (IF b = a THEN 1 ELSE 0)
      BY HoldersType
    <2>3. CASE b = a
      BY <1>0, <1>2, <2>2, <2>3
    <2>4. CASE b # a
      <3>1. Holders(b)' = Holders(b) /\ app'[b].refs = app[b].refs
        BY <1>1, <2>2, <2>4
      <3> QED  BY <2>1, <3>1
    <2> QED  BY <2>3, <2>4
  <1>4. LiveIsCounted'
    BY <1>1, <1>2 DEF AppInv, LiveIsCounted
  <1> QED  BY <1>1, <1>2, <1>3, <1>4

\* Only the RMID of an application changes, if anything does.
LEMMA AfterRmid ==
    ASSUME AppInv, NEW a \in App, NEW r \in Rmid \cup {0},
           app' = app \/ app' = [app EXCEPT ![a].rmid = r],
           ~bad, UNCHANGED setup,
           \A b \in App : Holders(b)' = Holders(b)
    PROVE  /\ app' \in [App -> sched_app_t] /\ RefsCover' /\ LiveIsCounted'
           /\ \A b \in App : app'[b].state = app[b].state
           /\ \A b \in App \ {a} : app'[b].rmid = app[b].rmid
           /\ app'[a].rmid = IF app' = app THEN app[a].rmid ELSE r
  <1>1. app \in [App -> sched_app_t]
    BY DEF AppInv, TypeOK
  <1>2. /\ app' \in [App -> sched_app_t]
        /\ \A b \in App : app'[b].refs = app[b].refs /\ app'[b].state = app[b].state
        /\ \A b \in App \ {a} : app'[b].rmid = app[b].rmid
        /\ app'[a].rmid = IF app' = app THEN app[a].rmid ELSE r
    <2>1. CASE app' = app
      BY <1>1, <2>1
    <2>2. CASE app' # app /\ app' = [app EXCEPT ![a].rmid = r]
      <3> DEFINE A == [app EXCEPT ![a].rmid = r]
      <3>1. /\ A \in [App -> sched_app_t]
            /\ A[a].refs = app[a].refs /\ A[a].state = app[a].state /\ A[a].rmid = r
            /\ \A b \in App \ {a} : A[b] = app[b]
        BY <1>1, RmidSetIs
      <3> HIDE DEF A
      <3>2. app' = A
        BY <2>2 DEF A
      <3> QED  BY <2>2, <3>1, <3>2
    <2> QED  BY <2>1, <2>2
  <1>3. RefsCover'
    BY <1>2 DEF AppInv, RefsCover
  <1>4. LiveIsCounted'
    BY <1>2 DEF AppInv, LiveIsCounted
  <1> QED  BY <1>2, <1>3, <1>4

\* What a file has found lives on if the states of applications that are used stay ...
LEMMA FoundStays ==
    ASSUME AppInv, UNCHANGED setup, \A f \in File : file'[f].found \in {file[f].found, NoApp},
           \A b \in App : app[b].state # "unused" => app'[b].state = app[b].state
    PROVE  FoundIsLive'
  <1> SUFFICES ASSUME NEW f \in File, file[f].found # NoApp
               PROVE  /\ app'[file[f].found].state # "unused"
                      /\ "race" \notin setup => app'[file[f].found].state = "live"
    BY DEF FoundIsLive
  <1>1. file[f].found \in App
    BY DEF AppInv, TypeOK
  <1>2. /\ app[file[f].found].state # "unused"
        /\ "race" \notin setup => app[file[f].found].state = "live"
    BY DEF AppInv, FoundIsLive
  <1> QED  BY <1>1, <1>2

\* ... and if the last reference is put to none that was found.
LEMMA FoundIsKept ==
    ASSUME AppInv, UNCHANGED setup, \A f \in File : file'[f].found \in {file[f].found, NoApp},
           NEW K \in SUBSET App, \A a \in K : Kept(a),
           \A b \in App : app'[b].state = IF b \in K /\ app[b].refs = 1 THEN "freed"
                                         ELSE app[b].state
    PROVE  FoundIsLive'
  <1> SUFFICES ASSUME NEW f \in File, file[f].found # NoApp
               PROVE  /\ app'[file[f].found].state # "unused"
                      /\ "race" \notin setup => app'[file[f].found].state = "live"
    BY DEF FoundIsLive
  <1> DEFINE b == file[f].found
  <1>1. b \in App
    BY DEF AppInv, TypeOK
  <1>2. /\ app[b].state # "unused"
        /\ "race" \notin setup => app[b].state = "live"
    BY DEF AppInv, FoundIsLive
  <1>3. app'[b].state = IF b \in K /\ app[b].refs = 1 THEN "freed" ELSE app[b].state
    BY <1>1
  <1>4. "race" \notin setup => ~(b \in K /\ app[b].refs = 1)
    BY DEF Kept
  <1> QED  BY <1>2, <1>3, <1>4

-----------------------------------------------------------------------------------
(* Callbacks of threads.                                                            *)

LEMMA CallbackKeeps ==
    ASSUME AppInv, ~bad, NEW t \in Thread, NEW r \in pmcsched_thread_data_t, r.app \in App,
           th' = [th EXCEPT ![t] = r],
           UNCHANGED <<setup, container, file, locked, bad>>,
           app' \in [App -> sched_app_t], RefsCover', LiveIsCounted', FoundIsLive',
           pool' \in PoolType, PoolIsCounted'
    PROVE  AppInv'
  <1>1. TypeOK'
    BY DEF AppInv, TypeOK, PoolType
  <1>2. ThreadsHaveApps'
    BY DEF AppInv, TypeOK, ThreadsHaveApps
  <1>3. OwnContainers' /\ FileSteps' /\ NothingBad'
    BY DEF AppInv, OwnContainers, FileSteps, NothingBad, Harmless
  <1> QED  BY <1>1, <1>2, <1>3 DEF AppInv

\* A thread that is born takes a reference to an application that lives ...
LEMMA JoinKeeps ==
    ASSUME AppInv, ~bad, NEW t \in Thread, th[t].state = "none",
           NEW a \in App, app[a].state = "live",
           NEW r \in pmcsched_thread_data_t, r.state \in {"alive", "refused"}, r.app = a,
           th' = [th EXCEPT ![t] = r],
           app' = get_sched_app(app, a), pool' = use_rmid(app[a].rmid),
           UNCHANGED <<setup, container, file, locked, bad>>
    PROVE  AppInv'
  <1>2. th'[t] = r /\ \A u \in Thread \ {t} : th'[u] = th[u]
    BY DEF AppInv, TypeOK
  <1>3. \A b \in App : Holders(b)' = Holders(b) + (IF b = a THEN 1 ELSE 0)
    BY <1>2, ThreadComes
  <1>4. ASSUME NEW b \in App
        PROVE  /\ Holders(b)' \in Int
               /\ Holders(b)' =< Holders(b) + (IF b = a THEN 1 ELSE 0)
    <2>1. Holders(b) \in Nat
      BY HoldersType
    <2>2. CASE b = a
      BY <1>3, <2>1, <2>2
    <2>3. CASE b # a
      BY <1>3, <2>1, <2>3
    <2> QED  BY <2>2, <2>3
  <1>5. /\ app' \in [App -> sched_app_t] /\ RefsCover' /\ LiveIsCounted'
        /\ \A b \in App : app'[b].state = app[b].state
    BY <1>3, <1>4, AfterGet
  <1>6. FoundIsLive'
    BY <1>5, FoundStays
  <1>7. app[a].rmid \in Rmid \cup {0}
    BY DEF AppInv, TypeOK, sched_app_t
  <1>8. pool' \in PoolType /\ PoolIsCounted'
    <2>1. /\ pool' \in PoolType /\ pool'.free = pool.free
          /\ \A q \in Rmid : pool'.refs[q] = IF q = app[a].rmid /\ q \notin pool.free
                                             THEN pool.refs[q] + 1 ELSE pool.refs[q]
      BY <1>7, UseIs DEF AppInv
    <2>2. \A q \in Rmid : pool.refs[q] \in Nat
      BY DEF AppInv, TypeOK
    <2>3. ASSUME NEW q \in Rmid PROVE q \in pool'.free \/ pool'.refs[q] > 0
      <3>1. q \in pool.free \/ pool.refs[q] > 0
        BY DEF AppInv, PoolIsCounted
      <3>2. pool.refs[q] \in Nat
        BY <2>2
      <3>3. CASE q \in pool.free
        BY <2>1, <3>3
      <3>4. CASE q \notin pool.free
        <4>1. pool'.refs[q] = IF q = app[a].rmid THEN pool.refs[q] + 1 ELSE pool.refs[q]
          BY <2>1, <3>4
        <4> QED  BY <3>1, <3>2, <3>4, <4>1
      <3> QED  BY <3>3, <3>4
    <2> QED  BY <2>1, <2>3 DEF PoolIsCounted
  <1> QED  BY <1>5, <1>6, <1>8, CallbackKeeps

\* ... or the first one to an application that is created for it.
LEMMA FoundKeeps ==
    ASSUME AppInv, ~bad, NEW t \in Thread, th[t].state = "none", NEW a \in Unused,
           NEW r \in pmcsched_thread_data_t, r.state = "alive", r.app = a,
           th' = [th EXCEPT ![t] = r],
           app' = Created(app, a), pool' = pool,
           UNCHANGED <<setup, container, file, locked, bad>>
    PROVE  AppInv'
  <1>0. a \in App
    BY DEF Unused
  <1>2. th'[t] = r /\ \A u \in Thread \ {t} : th'[u] = th[u]
    BY DEF AppInv, TypeOK
  <1>3. \A b \in App : Holders(b)' = Holders(b) + (IF b = a THEN 1 ELSE 0)
    BY <1>2, ThreadComes
  <1>4. 0 \in Rmid \cup {0}
    OBVIOUS
  <1>5. /\ app' \in [App -> sched_app_t] /\ RefsCover' /\ LiveIsCounted'
        /\ \A b \in App \ {a} : app'[b] = app[b]
    BY <1>3, <1>4, AfterCreate
  <1>6. FoundIsLive'
    <2>1. app[a].state = "unused"
      BY DEF Unused
    <2> QED  BY <1>5, <2>1, FoundStays
  <1>8. pool' \in PoolType /\ PoolIsCounted'
    BY DEF AppInv, TypeOK, PoolIsCounted, PoolType
  <1> QED  BY <1>0, <1>5, <1>6, <1>8, CallbackKeeps

\* Who refers to an application refers to a living one.
LEMMA HeldIsLive ==
    ASSUME AppInv, ~bad, NEW a \in App, Holders(a) > 0
    PROVE  app[a].state = "live" /\ app[a].refs > 0
  <1>1. app[a].refs \in Nat /\ app[a].refs >= Holders(a) /\ Holders(a) \in Nat
    BY HoldersType DEF AppInv, TypeOK, sched_app_t, RefsCover
  <1>2. app[a].refs > 0
    BY <1>1
  <1> QED  BY <1>2 DEF AppInv, LiveIsCounted

LEMMA ThreadHolds ==
    ASSUME AppInv, ~bad, NEW t \in Thread, th[t].state \in {"alive", "gone"}
    PROVE  th[t].app \in App /\ Holders(th[t].app) > 0 /\ app[th[t].app].state = "live"
  <1>1. th[t].app \in App
    BY DEF AppInv, ThreadsHaveApps
  <1>2. t \in ThreadsOf(th[t].app)
    BY DEF ThreadsOf
  <1>3. Holders(th[t].app) > 0
    BY <1>2, HoldersType
  <1> QED  BY <1>1, <1>3, HeldIsLive

LEMMA ContainerHolds ==
    ASSUME AppInv, ~bad, NEW g \in Cgroup, container[g] # NoApp
    PROVE  container[g] \in App /\ Holders(container[g]) > 0
           /\ app[container[g]].state = "live"
  <1>1. container[g] \in App
    BY DEF AppInv, TypeOK
  <1>2. g \in ContainersOf(container[g])
    BY DEF ContainersOf
  <1>3. Holders(container[g]) > 0
    BY <1>2, HoldersType
  <1> QED  BY <1>1, <1>3, HeldIsLive

LEMMA FileHolds ==
    ASSUME AppInv, ~bad, NEW f \in File, file[f].app # NoApp
    PROVE  file[f].app \in App /\ Holders(file[f].app) > 0
           /\ app[file[f].app].state = "live"
  <1>1. file[f].app \in App
    BY DEF AppInv, TypeOK
  <1>2. f \in FilesOf(file[f].app)
    BY DEF FilesOf
  <1>3. Holders(file[f].app) > 0
    BY <1>2, HoldersType
  <1> QED  BY <1>1, <1>3, HeldIsLive

\* The parents of a thread and the container of its control group.
LEMMA ParentsAre ==
    ASSUME AppInv, ~bad, NEW t \in Thread
    PROVE  /\ \A p \in Parents(t) : /\ p \in Thread /\ th[p].state = "alive" /\ th[p].enabled
                                    /\ th[p].app \in App /\ app[th[p].app].state = "live"
           /\ pmcsched_retrieve_container(t) # NoApp =>
                /\ pmcsched_retrieve_container(t) \in App
                /\ app[pmcsched_retrieve_container(t)].state = "live"
                /\ \E g \in Cgroup : container[g] = pmcsched_retrieve_container(t)
  <1>1. \A p \in Parents(t) : p \in Thread /\ th[p].state = "alive" /\ th[p].enabled
    BY DEF Parents
  <1>2. \A p \in Parents(t) : th[p].app \in App /\ app[th[p].app].state = "live"
    BY <1>1, ThreadHolds
  <1>3. CgroupOf[t] \in Cgroup
    BY SchedAppsAssumption
  <1> QED  BY <1>1, <1>2, <1>3, ContainerHolds DEF pmcsched_retrieve_container

\* What a thread is when it joins an application.
LEMMA JoinIs ==
    ASSUME AppInv, NEW t \in Thread, NEW a \in App, NEW state \in {"alive", "refused"},
           NEW first \in {"no", "container_no", "container_yes"}, NEW on \in BOOLEAN,
           JoinsApp(t, a, state, first, on)
    PROVE  \E r \in pmcsched_thread_data_t :
             /\ r.state = state /\ r.app = a /\ r.first = first /\ r.enabled = on
             /\ th' = [th EXCEPT ![t] = r]
             /\ app' = get_sched_app(app, a) /\ pool' = use_rmid(app[a].rmid)
  <1> DEFINE r == [state |-> state, enabled |-> on, first |-> first, app |-> a]
  <1>1. /\ r \in pmcsched_thread_data_t /\ r.state = state /\ r.app = a /\ r.first = first
        /\ r.enabled = on
    BY DEF pmcsched_thread_data_t
  <1>2. /\ th' = [th EXCEPT ![t] = r]
        /\ app' = get_sched_app(app, a) /\ pool' = use_rmid(app[a].rmid)
    BY DEF JoinsApp
  <1> QED  BY <1>1, <1>2

\* A thread that is forked joins an application in use, or is the first of a new one.
LEMMA ForkIs ==
    ASSUME AppInv, ~bad, NEW t \in Thread, pmcsched_on_fork(t)
    PROVE  \/ \E a \in App, state \in {"alive", "refused"},
                first \in {"no", "container_no", "container_yes"}, on \in BOOLEAN :
                /\ JoinsApp(t, a, state, first, on) /\ app[a].state = "live"
                /\ \/ \E p \in Parents(t) : th[p].app = a
                   \/ \E g \in Cgroup : container[g] = a
                /\ first = "container_yes" => "dirty" \in setup
           \/ \E a \in Unused, r \in pmcsched_thread_data_t :
                /\ r.state = "alive" /\ r.app = a /\ r.first = "yes" /\ r.enabled = FALSE
                /\ th' = [th EXCEPT ![t] = r]
                /\ app' = Created(app, a) /\ pool' = pool
  <1> DEFINE c == pmcsched_retrieve_container(t)
  <1>1. CASE NewProcess(t) /\ c # NoApp
    <2>1. PICK first \in {"container_no", "container_yes"} :
            /\ JoinsApp(t, c, "alive", first, TRUE)
            /\ first = "container_yes" => "dirty" \in setup
      <3>1. CASE "dirty" \in setup
        BY <1>1, <3>1 DEF NewProcess
      <3>2. CASE "dirty" \notin setup
        BY <1>1, <3>2 DEF NewProcess
      <3> QED  BY <3>1, <3>2
    <2> QED  BY <1>1, <2>1, ParentsAre
  <1>2. CASE NewProcess(t) /\ c = NoApp
    <2> DEFINE a == CHOOSE x \in Unused : TRUE
               r == [state |-> "alive", enabled |-> FALSE, first |-> "yes", app |-> a]
    <2>1. /\ Unused # {} /\ th' = [th EXCEPT ![t] = r]
          /\ app' = Created(app, a) /\ pool' = pool
      BY <1>2 DEF NewProcess
    <2>2. a \in Unused /\ a \in App
      BY <2>1 DEF Unused
    <2> HIDE DEF a
    <2>3. /\ r \in pmcsched_thread_data_t /\ r.state = "alive" /\ r.app = a
          /\ r.first = "yes" /\ r.enabled = FALSE
      BY <2>2 DEF pmcsched_thread_data_t
    <2> HIDE DEF r
    <2> QED  BY <2>1, <2>2, <2>3
  <1>3. CASE NewThread(t)
    <2>1. PICK p \in Parents(t), on \in BOOLEAN : JoinsApp(t, th[p].app, "alive", "no", on)
      BY <1>3 DEF NewThread
    <2>2. th[p].app \in App /\ app[th[p].app].state = "live"
      BY <2>1, ParentsAre
    <2> QED  BY <2>1, <2>2
  <1>4. CASE Refused(t)
    <2>1. PICK a \in {th[p].app : p \in Parents(t)} \cup ({c} \ {NoApp}) :
            JoinsApp(t, a, "refused", "no", FALSE)
      BY <1>4 DEF Refused
    <2>2. /\ a \in App /\ app[a].state = "live"
          /\ (\E p \in Parents(t) : th[p].app = a) \/ (\E g \in Cgroup : container[g] = a)
      BY <2>1, ParentsAre
    <2> QED  BY <2>1, <2>2
  <1> QED  BY <1>1, <1>2, <1>3, <1>4 DEF pmcsched_on_fork

LEMMA ForkKeeps ==
    ASSUME AppInv, ~bad, NEW t \in Thread, pmcsched_on_fork(t)
    PROVE  AppInv'
  <1>1. th[t].state = "none" /\ UNCHANGED <<setup, container, file, locked, bad>>
    BY DEF pmcsched_on_fork
  <1>2. ASSUME NEW a \in App, NEW state \in {"alive", "refused"},
               NEW first \in {"no", "container_no", "container_yes"}, NEW on \in BOOLEAN,
               JoinsApp(t, a, state, first, on), app[a].state = "live"
        PROVE  AppInv'
    <2>1. PICK r \in pmcsched_thread_data_t :
            /\ r.state = state /\ r.app = a /\ th' = [th EXCEPT ![t] = r]
            /\ app' = get_sched_app(app, a) /\ pool' = use_rmid(app[a].rmid)
      BY <1>2, JoinIs
    <2>2. r.state \in {"alive", "refused"}
      BY <2>1
    <2> QED  BY <1>1, <1>2, <2>1, <2>2, JoinKeeps
  <1>3. ASSUME NEW a \in Unused, NEW r \in pmcsched_thread_data_t,
               r.state = "alive", r.app = a, th' = [th EXCEPT ![t] = r],
               app' = Created(app, a), pool' = pool
        PROVE  AppInv'
    BY <1>1, <1>3, FoundKeeps
  <1> QED  BY <1>2, <1>3, ForkIs

LEMMA SetEnabledKeeps ==
    ASSUME AppInv, ~bad, NEW t \in Thread, NEW on \in BOOLEAN, SetEnabled(t, on)
    PROVE  AppInv'
  <1> DEFINE r == [th[t] EXCEPT !.enabled = on]
  <1>0. /\ th' = [th EXCEPT ![t].enabled = on] /\ th[t].state = "alive"
        /\ UNCHANGED <<setup, app, container, file, pool, locked, bad>>
    BY DEF SetEnabled
  <1>a. th[t] \in pmcsched_thread_data_t /\ th[t].app \in App
    BY <1>0, ThreadHolds DEF AppInv, TypeOK
  <1>b. r \in pmcsched_thread_data_t /\ r.state = th[t].state /\ r.app = th[t].app
    BY <1>a DEF pmcsched_thread_data_t
  <1>c. th' = [th EXCEPT ![t] = r]
    BY <1>0
  <1> HIDE DEF r
  <1>1. /\ r \in pmcsched_thread_data_t /\ r.state = "alive" /\ r.app = th[t].app
        /\ th' = [th EXCEPT ![t] = r] /\ th[t].app \in App
    BY <1>0, <1>a, <1>b, <1>c
  <1>2. th'[t] = r /\ \A u \in Thread \ {t} : th'[u] = th[u]
    BY <1>1 DEF AppInv, TypeOK
  <1>3. \A b \in App : Holders(b)' = Holders(b)
    BY <1>0, <1>1, <1>2, ThreadStays
  <1>4. RefsCover' /\ LiveIsCounted'
    BY <1>0, <1>3 DEF AppInv, RefsCover, LiveIsCounted
  <1>5. FoundIsLive' /\ PoolIsCounted' /\ app' \in [App -> sched_app_t] /\ pool' \in PoolType
    BY <1>0 DEF AppInv, FoundIsLive, PoolIsCounted, TypeOK, PoolType
  <1> QED  BY <1>0, <1>1, <1>4, <1>5, CallbackKeeps

LEMMA GiveIs ==
    ASSUME AppInv, NEW t \in Thread, NEW x \in __give_rmid(t)
    PROVE  \/ /\ th[t].first = "yes" /\ x[3] = "no"
              /\ \E r \in Takeable : /\ x[1] = Taken(r)
                                     /\ x[2] = [app EXCEPT ![th[t].app].rmid = r]
           \/ /\ th[t].first # "yes" /\ x[1] = pool /\ x[2] = app
              /\ x[3] = IF th[t].first = "container_yes" THEN "yes" ELSE "no"
  <1>1. th[t].first \in {"no", "yes", "container_no", "container_yes"}
    BY DEF AppInv, TypeOK, pmcsched_thread_data_t
  <1>2. CASE th[t].first = "yes"
    <2>1. __give_rmid(t) =
            {<<Taken(r), [app EXCEPT ![th[t].app].rmid = r], "no">> : r \in Takeable}
      BY <1>2 DEF __give_rmid
    <2>2. PICK r \in Takeable : x = <<Taken(r), [app EXCEPT ![th[t].app].rmid = r], "no">>
      BY <2>1
    <2> QED  BY <1>2, <2>2
  <1>3. CASE th[t].first # "yes"
    <2> DEFINE first == IF th[t].first = "container_yes" THEN "yes" ELSE "no"
    <2>1. __give_rmid(t) = {<<pool, app, first>>}
      BY <1>1, <1>3 DEF __give_rmid
    <2>2. x = <<pool, app, first>>
      BY <2>1
    <2> QED  BY <1>3, <2>2
  <1> QED  BY <1>2, <1>3

\* An RMID is given, and the thread keeps its application.
LEMMA GiveKeeps ==
    ASSUME AppInv, ~bad, NEW t \in Thread, th[t].state = "alive",
           NEW x \in __give_rmid(t), app' = x[2],
           NEW r \in pmcsched_thread_data_t, r.app = th[t].app, r.state \in {"alive", "gone"},
           th' = [th EXCEPT ![t] = r],
           UNCHANGED <<setup, container, file, locked, bad>>,
           pool' = x[1] \/ pool' = put_rmid(x[1], x[2][th[t].app].rmid)
    PROVE  AppInv'
  <1>1. th[t].app \in App
    BY ThreadHolds
  <1>2. th'[t] = r /\ \A u \in Thread \ {t} : th'[u] = th[u]
    BY DEF AppInv, TypeOK
  <1>3. \A b \in App : Holders(b)' = Holders(b)
    BY <1>2, ThreadStays
  <1>4. PICK q \in Rmid \cup {0} : app' = app \/ app' = [app EXCEPT ![th[t].app].rmid = q]
    <2>1. CASE th[t].first = "yes"
      BY <2>1, GiveIs, TakeableIs DEF AppInv
    <2>2. CASE th[t].first # "yes"
      BY <2>2, GiveIs
    <2> QED  BY <2>1, <2>2
  <1>5. /\ app' \in [App -> sched_app_t] /\ RefsCover' /\ LiveIsCounted'
        /\ \A b \in App : app'[b].state = app[b].state
    BY <1>1, <1>3, <1>4, AfterRmid
  <1>6. FoundIsLive'
    BY <1>5, FoundStays
  <1>7. x[1] \in PoolType /\ \A q2 \in Rmid : q2 \in x[1].free \/ x[1].refs[q2] > 0
    <2>1. CASE th[t].first = "yes"
      <3>1. PICK k \in Takeable : x[1] = Taken(k)
        BY <2>1, GiveIs
      <3>2. /\ x[1] \in PoolType /\ x[1].free = pool.free \ {k}
            /\ \A q2 \in Rmid : x[1].refs[q2] = IF q2 = k THEN pool.refs[q2] + 1
                                                ELSE pool.refs[q2]
        BY <3>1, TakeableIs, TakenIs DEF AppInv
      <3>3. ASSUME NEW q2 \in Rmid PROVE q2 \in x[1].free \/ x[1].refs[q2] > 0
        <4>1. pool.refs[q2] \in Nat /\ (q2 \in pool.free \/ pool.refs[q2] > 0)
          BY DEF AppInv, TypeOK, PoolIsCounted
        <4> QED  BY <3>2, <4>1
      <3> QED  BY <3>2, <3>3
    <2>2. CASE th[t].first # "yes"
      BY <2>2, GiveIs DEF AppInv, TypeOK, PoolIsCounted, PoolType
    <2> QED  BY <2>1, <2>2
  <1>8. pool' \in PoolType /\ PoolIsCounted'
    <2>1. CASE pool' = x[1]
      BY <1>7, <2>1 DEF PoolIsCounted
    <2>2. CASE pool' = put_rmid(x[1], x[2][th[t].app].rmid)
      <3> DEFINE k == x[2][th[t].app].rmid
      <3>1. k \in Rmid \cup {0}
        BY <1>1, <1>5 DEF sched_app_t
      <3> HIDE DEF k
      <3>2. pool' = put_rmid(x[1], k)
        BY <2>2 DEF k
      <3>3. /\ pool' \in PoolType
            /\ \A q2 \in Rmid : /\ pool'.refs[q2] = IF q2 = k /\ q2 \notin x[1].free
                                                    THEN x[1].refs[q2] - 1 ELSE x[1].refs[q2]
                                /\ q2 \in pool'.free
                                     <=> q2 \in x[1].free \/ (q2 = k /\ x[1].refs[q2] = 1)
        BY <1>7, <3>1, <3>2, RmidPutIs
      <3>4. ASSUME NEW q2 \in Rmid PROVE q2 \in pool'.free \/ pool'.refs[q2] > 0
        <4>1. x[1].refs[q2] \in Nat /\ (q2 \in x[1].free \/ x[1].refs[q2] > 0)
          BY <1>7 DEF PoolType
        <4> QED  BY <3>3, <4>1
      <3> QED  BY <3>3, <3>4 DEF PoolIsCounted
    <2> QED  BY <2>1, <2>2
  <1> QED  BY <1>1, <1>5, <1>6, <1>8, CallbackKeeps

LEMMA SwitchInKeeps ==
    ASSUME AppInv, ~bad, NEW t \in Thread, pmcsched_on_switch_in(t)
    PROVE  AppInv'
  <1>1. PICK x \in __give_rmid(t) : pool' = x[1] /\ app' = x[2]
                                    /\ th' = [th EXCEPT ![t].first = x[3]]
    BY DEF pmcsched_on_switch_in
  <1>2. th[t].state = "alive" /\ UNCHANGED <<setup, container, file, locked, bad>>
    BY DEF pmcsched_on_switch_in
  <1> DEFINE r == [th[t] EXCEPT !.first = x[3]]
  <1>3. x[3] \in {"yes", "no"}
    BY GiveIs
  <1>a. th[t] \in pmcsched_thread_data_t
    BY DEF AppInv, TypeOK
  <1>b. r \in pmcsched_thread_data_t /\ r.state = th[t].state /\ r.app = th[t].app
    BY <1>3, <1>a DEF pmcsched_thread_data_t
  <1>c. th' = [th EXCEPT ![t] = r]
    BY <1>1
  <1> HIDE DEF r
  <1>4. r.state = "alive"
    BY <1>2, <1>b
  <1> QED  BY <1>1, <1>2, <1>4, <1>b, <1>c, GiveKeeps

LEMMA ExitKeeps ==
    ASSUME AppInv, ~bad, NEW t \in Thread, pmcsched_on_exit(t)
    PROVE  AppInv'
  <1>1. th[t].state = "alive" /\ UNCHANGED <<setup, container, file, locked, bad>>
    BY DEF pmcsched_on_exit
  <1>2. CASE th[t].enabled
    <2>1. PICK x \in __give_rmid(t) :
            /\ pool' = put_rmid(x[1], x[2][th[t].app].rmid) /\ app' = x[2]
            /\ th' = [th EXCEPT ![t].state = "gone", ![t].first = x[3]]
      BY <1>2 DEF pmcsched_on_exit
    <2> DEFINE r == [th[t] EXCEPT !.state = "gone", !.first = x[3]]
    <2>2. x[3] \in {"yes", "no"}
      BY GiveIs
    <2>a. th[t] \in pmcsched_thread_data_t
      BY DEF AppInv, TypeOK
    <2>b. r \in pmcsched_thread_data_t /\ r.state = "gone" /\ r.app = th[t].app
      BY <2>2, <2>a DEF pmcsched_thread_data_t
    <2>c. th' = [th EXCEPT ![t] = r]
      BY <2>1
    <2> HIDE DEF r
    <2>3. /\ r \in pmcsched_thread_data_t /\ r.state = "gone" /\ r.app = th[t].app
          /\ th' = [th EXCEPT ![t] = r]
      BY <2>b, <2>c
    <2> QED  BY <1>1, <2>1, <2>3, GiveKeeps
  <1>3. CASE ~th[t].enabled
    <2> DEFINE r == [th[t] EXCEPT !.state = "gone"]
    <2>1. th' = [th EXCEPT ![t].state = "gone"] /\ pool' = pool /\ app' = app
      BY <1>3 DEF pmcsched_on_exit
    <2>2. /\ r \in pmcsched_thread_data_t /\ r.state = "gone" /\ r.app = th[t].app
          /\ th' = [th EXCEPT ![t] = r] /\ th[t].app \in App
      BY <1>1, <2>1, ThreadHolds DEF AppInv, TypeOK, pmcsched_thread_data_t
    <2> HIDE DEF r
    <2>3. th'[t] = r /\ \A u \in Thread \ {t} : th'[u] = th[u]
      BY <2>2 DEF AppInv, TypeOK
    <2>4. \A b \in App : Holders(b)' = Holders(b)
      BY <1>1, <2>2, <2>3, ThreadStays
    <2>5. RefsCover' /\ LiveIsCounted'
      BY <1>1, <2>1, <2>4 DEF AppInv, RefsCover, LiveIsCounted
    <2>6. FoundIsLive' /\ PoolIsCounted' /\ app' \in [App -> sched_app_t] /\ pool' \in PoolType
      BY <1>1, <2>1 DEF AppInv, FoundIsLive, PoolIsCounted, TypeOK, PoolType
    <2> QED  BY <1>1, <2>2, <2>5, <2>6, CallbackKeeps
  <1> QED  BY <1>2, <1>3

LEMMA FreeKeeps ==
    ASSUME AppInv, ~bad, NEW t \in Thread, pmcsched_on_free_task(t)
    PROVE  AppInv'
  <1> DEFINE a == th[t].app
             r == [th[t] EXCEPT !.state = "freed"]
  <1>1. /\ th[t].state = "gone" /\ Kept(a) /\ th' = [th EXCEPT ![t].state = "freed"]
        /\ app' = put_sched_app(app, a) /\ UNCHANGED <<setup, container, file, pool, locked, bad>>
    BY DEF pmcsched_on_free_task
  <1>2. a \in App /\ Holders(a) > 0
    BY <1>1, ThreadHolds
  <1>3. /\ r \in pmcsched_thread_data_t /\ r.state = "freed" /\ r.app = a
        /\ th' = [th EXCEPT ![t] = r]
    BY <1>1 DEF AppInv, TypeOK, pmcsched_thread_data_t
  <1> HIDE DEF r
  <1>4. th'[t] = r /\ \A u \in Thread \ {t} : th'[u] = th[u]
    BY <1>3 DEF AppInv, TypeOK
  <1>5. \A b \in App : Holders(b)' = Holders(b) - (IF b = a THEN 1 ELSE 0)
    BY <1>1, <1>3, <1>4, ThreadGoes
  <1> HIDE DEF a
  <1>6. /\ app' \in [App -> sched_app_t] /\ RefsCover' /\ LiveIsCounted'
        /\ \A b \in App : app'[b].state = IF b = a /\ app[a].refs = 1 THEN "freed"
                                         ELSE app[b].state
    BY <1>1, <1>2, <1>5, AfterPut
  <1>7. FoundIsLive'
    <2> DEFINE K == {a}
    <2>1. K \in SUBSET App /\ \A c \in K : Kept(c)
      BY <1>1, <1>2
    <2>2. \A b \in App : app'[b].state = IF b \in K /\ app[b].refs = 1 THEN "freed"
                                        ELSE app[b].state
      BY <1>6
    <2> HIDE DEF K
    <2> QED  BY <1>1, <2>1, <2>2, FoundIsKept
  <1>8. pool' \in PoolType /\ PoolIsCounted'
    BY <1>1 DEF AppInv, TypeOK, PoolIsCounted, PoolType
  <1> QED  BY <1>1, <1>2, <1>3, <1>6, <1>7, <1>8, CallbackKeeps

-----------------------------------------------------------------------------------
(* Files.                                                                           *)

FileType == [app : App \cup {NoApp}, found : App \cup {NoApp}, readers : SUBSET Thread]

LEMMA FileKeeps ==
    ASSUME AppInv, ~bad, NEW f \in File, NEW r \in FileType, file' = [file EXCEPT ![f] = r],
           "shared" \notin setup =>
             /\ r.found # NoApp \/ r.readers # {} => r.app = NoApp
             /\ r.found # NoApp => r.readers = {}
             /\ \A t, u \in r.readers : t = u,
           UNCHANGED <<setup, th, container, pool, locked>>, bad' \in BOOLEAN, NothingBad',
           app' \in [App -> sched_app_t], RefsCover', LiveIsCounted', FoundIsLive'
    PROVE  AppInv'
  <1>1. TypeOK'
    BY DEF AppInv, TypeOK, FileType
  <1>2. ThreadsHaveApps' /\ OwnContainers' /\ PoolIsCounted'
    BY DEF AppInv, ThreadsHaveApps, OwnContainers, PoolIsCounted
  <1>3. FileSteps'
    <2>1. file'[f] = r /\ \A h \in File \ {f} : file'[h] = file[h]
      BY DEF AppInv, TypeOK
    <2> QED  BY <2>1 DEF AppInv, FileSteps
  <1> QED  BY <1>1, <1>2, <1>3 DEF AppInv

\* A file that finds something or nothing holds what it held.
LEMMA FileLooks ==
    ASSUME AppInv, ~bad, NEW f \in File, NEW r \in FileType, file' = [file EXCEPT ![f] = r],
           r.app = file[f].app, UNCHANGED <<setup, app, th, container, bad>>
    PROVE  /\ app' \in [App -> sched_app_t] /\ RefsCover' /\ LiveIsCounted' /\ NothingBad'
           /\ bad' \in BOOLEAN
  <1>1. file'[f] = r /\ \A h \in File \ {f} : file'[h] = file[h]
    BY DEF AppInv, TypeOK
  <1>2. ASSUME NEW b \in App PROVE Holders(b)' = Holders(b)
    <2>1. Holders(b) \in Nat
      BY HoldersType
    <2>2. Holders(b)' = Holders(b) + (IF b = r.app THEN 1 ELSE 0) - (IF b = r.app THEN 1 ELSE 0)
      BY <1>1, FileChanges
    <2> QED  BY <2>1, <2>2
  <1>3. RefsCover'
    BY <1>2 DEF AppInv, RefsCover
  <1> QED  BY <1>3 DEF AppInv, TypeOK, LiveIsCounted, NothingBad, Harmless

\* A file that gets an application counts as one more holder of it, unless it had one.
LEMMA FileGets ==
    ASSUME AppInv, ~bad, NEW f \in File, NEW r \in FileType, file' = [file EXCEPT ![f] = r],
           NEW a \in App, r.app = a, r.found \in {file[f].found, NoApp},
           "shared" \notin setup => file[f].app = NoApp,
           app[a].state = "live" \/ bad',
           app' = get_sched_app(app, a), UNCHANGED <<setup, th, container>>
    PROVE  app' \in [App -> sched_app_t] /\ RefsCover' /\ LiveIsCounted' /\ FoundIsLive'
  <1>1. file'[f] = r /\ \A h \in File \ {f} : file'[h] = file[h]
    BY DEF AppInv, TypeOK
  <1>2. ASSUME NEW b \in App
        PROVE  /\ Holders(b)' \in Int
               /\ Holders(b)' =< Holders(b) + (IF b = a THEN 1 ELSE 0)
               /\ "shared" \notin setup => Holders(b)' = Holders(b) + (IF b = a THEN 1 ELSE 0)
    <2>1. Holders(b) \in Nat
      BY HoldersType
    <2>2. Holders(b)' = Holders(b) + (IF b = a THEN 1 ELSE 0)
                                   - (IF b = file[f].app THEN 1 ELSE 0)
      BY <1>1, FileChanges
    <2>3. "shared" \notin setup => b # file[f].app
      BY SchedAppsAssumption
    <2>4. (IF b = a THEN 1 ELSE 0) \in {0, 1} /\ (IF b = file[f].app THEN 1 ELSE 0) \in {0, 1}
      OBVIOUS
    <2> QED  BY <2>1, <2>2, <2>3, <2>4
  <1>3. /\ app' \in [App -> sched_app_t] /\ RefsCover' /\ LiveIsCounted'
        /\ \A b \in App : app'[b].state = app[b].state
    BY <1>2, AfterGet
  <1>4. \A h \in File : file'[h].found \in {file[h].found, NoApp}
    BY <1>1
  <1>5. FoundIsLive'
    BY <1>3, <1>4, FoundStays
  <1> QED  BY <1>3, <1>5

LEMMA TrackKeeps ==
    ASSUME AppInv, ~bad, NEW f \in File, Track(f)
    PROVE  AppInv'
  <1>1. PICK g \in Cgroup : /\ container[g] # NoApp
                            /\ file' = [file EXCEPT ![f].found = container[g]]
    BY DEF Track
  <1>2. /\ file[f].found = NoApp /\ (file[f].readers = {} \/ "shared" \in setup)
        /\ file[f].app = NoApp /\ UNCHANGED <<setup, app, th, container, pool, locked, bad>>
    BY DEF Track, Idle
  <1> DEFINE a == container[g]
             r == [file[f] EXCEPT !.found = a]
  <1>3. a \in App /\ app[a].state = "live"
    BY <1>1, ContainerHolds
  <1>4. /\ r \in FileType /\ r.app = NoApp /\ r.found = a /\ r.readers = file[f].readers
        /\ file' = [file EXCEPT ![f] = r]
    BY <1>1, <1>2, <1>3 DEF AppInv, TypeOK, FileType
  <1> HIDE DEF a, r
  <1>5. /\ app' \in [App -> sched_app_t] /\ RefsCover' /\ LiveIsCounted' /\ NothingBad'
        /\ bad' \in BOOLEAN
    BY <1>2, <1>4, FileLooks
  <1>6. FoundIsLive'
    <2>1. file'[f] = r /\ \A h \in File \ {f} : file'[h] = file[h]
      BY <1>4 DEF AppInv, TypeOK
    <2> QED  BY <1>2, <1>3, <1>4, <2>1 DEF AppInv, FoundIsLive
  <1>7. "shared" \notin setup => r.readers = {}
    BY <1>2, <1>4
  <1> QED  BY <1>2, <1>4, <1>5, <1>6, <1>7, FileKeeps

LEMMA TrackGetKeeps ==
    ASSUME AppInv, ~bad, NEW f \in File, TrackGet(f)
    PROVE  AppInv'
  <1> DEFINE a == file[f].found
             r == [file[f] EXCEPT !.app = a, !.found = NoApp]
  <1>1. /\ a # NoApp /\ file' = [file EXCEPT ![f].app = a, ![f].found = NoApp]
        /\ app' = get_sched_app(app, a) /\ (bad' <=> Freed(a)) /\ bad' \in BOOLEAN
        /\ UNCHANGED <<setup, th, container, pool, locked>>
    BY DEF TrackGet, Freed
  <1>2. a \in App
    BY <1>1 DEF AppInv, TypeOK
  <1>3. /\ app[a].state = "live" \/ bad'
        /\ "race" \notin setup => ~bad'
    <2>1. app[a].state \in {"unused", "live", "freed"} /\ app[a].state # "unused"
          /\ ("race" \notin setup => app[a].state = "live")
      BY <1>1, <1>2 DEF AppInv, TypeOK, sched_app_t, FoundIsLive
    <2> QED  BY <1>1, <2>1 DEF Freed
  <1>4. "shared" \notin setup => file[f].app = NoApp /\ file[f].readers = {}
    BY <1>1 DEF AppInv, FileSteps
  <1>5. /\ r \in FileType /\ r.app = a /\ r.found = NoApp /\ r.readers = file[f].readers
        /\ file' = [file EXCEPT ![f] = r]
    BY <1>1, <1>2 DEF AppInv, TypeOK, FileType
  <1> HIDE DEF a, r
  <1>6. app' \in [App -> sched_app_t] /\ RefsCover' /\ LiveIsCounted' /\ FoundIsLive'
    BY <1>1, <1>2, <1>3, <1>4, <1>5, FileGets
  <1>7. NothingBad'
    BY <1>1, <1>3 DEF NothingBad, Harmless
  <1>8. "shared" \notin setup => r.found = NoApp /\ r.readers = {}
    BY <1>4, <1>5
  <1> QED  BY <1>1, <1>5, <1>6, <1>7, <1>8, FileKeeps

LEMMA ReadKeeps ==
    ASSUME AppInv, ~bad, NEW f \in File, NEW t \in Thread, Read(f, t)
    PROVE  AppInv'
  <1> DEFINE r == [file[f] EXCEPT !.readers = @ \cup {t}]
  <1>1. /\ file' = [file EXCEPT ![f].readers = @ \cup {t}]
        /\ UNCHANGED <<setup, app, th, container, pool, locked, bad>>
        /\ file[f].found = NoApp /\ (file[f].readers = {} \/ "shared" \in setup)
        /\ file[f].app = NoApp
    BY DEF Read, Idle
  <1>2. /\ r \in FileType /\ r.app = NoApp /\ r.found = NoApp
        /\ r.readers = file[f].readers \cup {t} /\ file' = [file EXCEPT ![f] = r]
    BY <1>1 DEF AppInv, TypeOK, FileType
  <1> HIDE DEF r
  <1>3. /\ app' \in [App -> sched_app_t] /\ RefsCover' /\ LiveIsCounted' /\ NothingBad'
        /\ bad' \in BOOLEAN
    BY <1>1, <1>2, FileLooks
  <1>4. FoundIsLive'
    <2>1. file'[f] = r /\ \A h \in File \ {f} : file'[h] = file[h]
      BY <1>2 DEF AppInv, TypeOK
    <2>2. \A h \in File : file'[h].found \in {file[h].found, NoApp}
      BY <1>1, <1>2, <2>1
    <2> QED  BY <1>1, <2>2, FoundStays
  <1>5. "shared" \notin setup => \A u, v \in r.readers : u = v
    BY <1>1, <1>2
  <1> QED  BY <1>1, <1>2, <1>3, <1>4, <1>5, FileKeeps

LEMMA ReadGetKeeps ==
    ASSUME AppInv, ~bad, NEW f \in File, NEW t \in Thread, ReadGet(f, t)
    PROVE  AppInv'
  <1> DEFINE a == th[t].app
             r == [file[f] EXCEPT !.readers = @ \ {t}, !.app = a]
  <1>1. /\ t \in file[f].readers /\ th[t].state = "alive"
        /\ file' = [file EXCEPT ![f].readers = @ \ {t}, ![f].app = a]
        /\ app' = get_sched_app(app, a)
        /\ UNCHANGED <<setup, th, container, pool, locked, bad>>
    BY DEF ReadGet
  <1>2. a \in App /\ app[a].state = "live"
    BY <1>1, ThreadHolds
  <1>3. /\ r \in FileType /\ r.app = a /\ r.found = file[f].found
        /\ r.readers = file[f].readers \ {t} /\ file' = [file EXCEPT ![f] = r]
    BY <1>1, <1>2 DEF AppInv, TypeOK, FileType
  <1> HIDE DEF a, r
  <1>4. "shared" \notin setup =>
          file[f].app = NoApp /\ file[f].found = NoApp /\ \A u \in file[f].readers : u = t
    BY <1>1 DEF AppInv, FileSteps
  <1>5. app' \in [App -> sched_app_t] /\ RefsCover' /\ LiveIsCounted' /\ FoundIsLive'
    BY <1>1, <1>2, <1>3, <1>4, FileGets
  <1>6. NothingBad' /\ bad' \in BOOLEAN
    BY <1>1 DEF AppInv, NothingBad, Harmless, TypeOK
  <1>7. "shared" \notin setup => r.found = NoApp /\ r.readers = {}
    BY <1>3, <1>4
  <1> QED  BY <1>1, <1>3, <1>5, <1>6, <1>7, FileKeeps

LEMMA UntrackKeeps ==
    ASSUME AppInv, ~bad, NEW f \in File, Untrack(f)
    PROVE  AppInv'
  <1> DEFINE a == file[f].app
             r == [file[f] EXCEPT !.app = NoApp]
  <1>1. /\ a # NoApp /\ Kept(a) /\ file[f].found = NoApp
        /\ (file[f].readers = {} \/ "shared" \in setup)
        /\ file' = [file EXCEPT ![f].app = NoApp] /\ app' = put_sched_app(app, a)
        /\ (bad' <=> Freed(a)) /\ bad' \in BOOLEAN
        /\ UNCHANGED <<setup, th, container, pool, locked>>
    BY DEF Untrack, Idle, Freed
  <1>2. a \in App /\ app[a].state = "live" /\ Holders(a) > 0
    BY <1>1, FileHolds
  <1>3. /\ r \in FileType /\ r.app = NoApp /\ r.found = NoApp /\ r.readers = file[f].readers
        /\ file' = [file EXCEPT ![f] = r]
    BY <1>1 DEF AppInv, TypeOK, FileType
  <1>4. file'[f] = r /\ \A h \in File \ {f} : file'[h] = file[h]
    BY <1>3 DEF AppInv, TypeOK
  <1> HIDE DEF r
  <1>5. ASSUME NEW b \in App PROVE Holders(b)' = Holders(b) - (IF b = a THEN 1 ELSE 0)
    <2>1. Holders(b) \in Nat /\ b # r.app
      BY <1>3, HoldersType, SchedAppsAssumption
    <2>2. Holders(b)' = Holders(b) + (IF b = r.app THEN 1 ELSE 0) - (IF b = a THEN 1 ELSE 0)
      BY <1>1, <1>4, FileChanges
    <2> QED  BY <2>1, <2>2
  <1> HIDE DEF a
  <1>6. /\ app' \in [App -> sched_app_t] /\ RefsCover' /\ LiveIsCounted'
        /\ \A b \in App : app'[b].state = IF b = a /\ app[a].refs = 1 THEN "freed"
                                         ELSE app[b].state
    BY <1>1, <1>2, <1>5, AfterPut
  <1>7. FoundIsLive'
    <2> DEFINE K == {a}
    <2>1. K \in SUBSET App /\ \A c \in K : Kept(c)
      BY <1>1, <1>2
    <2>2. \A b \in App : app'[b].state = IF b \in K /\ app[b].refs = 1 THEN "freed"
                                        ELSE app[b].state
      BY <1>6
    <2> HIDE DEF K
    <2>3. \A h \in File : file'[h].found \in {file[h].found, NoApp}
      BY <1>3, <1>4
    <2> QED  BY <1>1, <2>1, <2>2, <2>3, FoundIsKept
  <1>8. NothingBad'
    BY <1>1, <1>2 DEF NothingBad, Freed
  <1>9. "shared" \notin setup => r.found = NoApp /\ r.readers = {}
    BY <1>1, <1>3
  <1> QED  BY <1>1, <1>3, <1>6, <1>7, <1>8, <1>9, FileKeeps

-----------------------------------------------------------------------------------
(* Writes to /proc/pmc/sched.                                                       *)

LEMMA WriteKeeps ==
    ASSUME AppInv, UNCHANGED <<setup, th, file>>, bad' \in BOOLEAN, locked' \in BOOLEAN,
           NothingBad', container' \in [Cgroup -> App \cup {NoApp}], OwnContainers',
           app' \in [App -> sched_app_t], RefsCover', LiveIsCounted', FoundIsLive',
           pool' \in PoolType, PoolIsCounted'
    PROVE  AppInv'
  <1>1. TypeOK'
    BY DEF AppInv, TypeOK, PoolType
  <1>2. ThreadsHaveApps' /\ FileSteps'
    BY DEF AppInv, ThreadsHaveApps, FileSteps
  <1> QED  BY <1>1, <1>2 DEF AppInv

LEMMA RegisterKeeps ==
    ASSUME AppInv, ~bad, NEW g \in Cgroup, pmcsched_register_container(g)
    PROVE  AppInv'
  <1>0. UNCHANGED <<setup, th, file, locked>>
    BY DEF pmcsched_register_container
  <1>1. CASE container[g] = NoApp
    <2> DEFINE a == CHOOSE x \in Unused : TRUE
    <2>1. Unused # {} /\ container' = [container EXCEPT ![g] = a] /\ bad' = bad
      BY <1>1 DEF pmcsched_register_container
    <2>2. PICK r \in Takeable : /\ app' = [Created(app, a) EXCEPT ![a].rmid = r]
                                /\ pool' = Taken(r)
      BY <1>1 DEF pmcsched_register_container
    <2>3. a \in Unused
      BY <2>1
    <2> HIDE DEF a
    <2>4. r \in Rmid \cup {0} /\ a \in App /\ ContainersOf(a) = {}
      BY <2>3, TakeableIs, UnusedHasNoHolder DEF AppInv
    <2>5. \A b \in App : Holders(b)' = Holders(b) + (IF b = a THEN 1 ELSE 0)
      BY <1>0, <1>1, <2>1, <2>4, ContainerComes DEF AppInv
    <2>6. /\ app' \in [App -> sched_app_t] /\ RefsCover' /\ LiveIsCounted'
          /\ \A b \in App \ {a} : app'[b] = app[b]
      BY <1>0, <2>2, <2>3, <2>4, <2>5, AfterCreate
    <2>7. FoundIsLive'
      <3>1. app[a].state = "unused"
        BY <2>3 DEF Unused
      <3>2. \A f \in File : file'[f].found \in {file[f].found, NoApp}
        BY <1>0
      <3> QED  BY <1>0, <2>6, <3>1, <3>2, FoundStays
    <2>8. container' \in [Cgroup -> App \cup {NoApp}] /\ OwnContainers'
      <3>1. \A h \in Cgroup : container[h] # a
        BY <2>4 DEF ContainersOf
      <3> QED  BY <2>1, <2>4, <3>1 DEF AppInv, TypeOK, OwnContainers
    <2>9. pool' \in PoolType /\ PoolIsCounted'
      <3>1. /\ pool' \in PoolType /\ pool'.free = pool.free \ {r}
            /\ \A q \in Rmid : pool'.refs[q] = IF q = r THEN pool.refs[q] + 1 ELSE pool.refs[q]
        BY <2>2, <2>4, TakenIs DEF AppInv
      <3>2. ASSUME NEW q \in Rmid PROVE q \in pool'.free \/ pool'.refs[q] > 0
        <4>1. pool.refs[q] \in Nat /\ (q \in pool.free \/ pool.refs[q] > 0)
          BY DEF AppInv, TypeOK, PoolIsCounted
        <4> QED  BY <3>1, <4>1
      <3> QED  BY <3>1, <3>2 DEF PoolIsCounted
    <2>10. bad' \in BOOLEAN /\ NothingBad' /\ locked' \in BOOLEAN
      BY <1>0, <2>1 DEF AppInv, TypeOK, NothingBad, Harmless
    <2> QED  BY <1>0, <2>6, <2>7, <2>8, <2>9, <2>10, WriteKeeps
  <1>2. CASE container[g] # NoApp
    <2>1. "again" \in setup /\ bad' \in BOOLEAN /\ UNCHANGED <<app, container, pool>>
      BY <1>2 DEF pmcsched_register_container
    <2>2. Holders(0)' = Holders(0) /\ \A b \in App : Holders(b)' = Holders(b)
      BY <1>0, <2>1 DEF Holders, ThreadsOf, ContainersOf, FilesOf
    <2>3. RefsCover' /\ LiveIsCounted' /\ FoundIsLive' /\ OwnContainers'
      BY <1>0, <2>1, <2>2 DEF AppInv, RefsCover, LiveIsCounted, FoundIsLive, OwnContainers
    <2>4. /\ NothingBad' /\ locked' \in BOOLEAN /\ container' \in [Cgroup -> App \cup {NoApp}]
          /\ app' \in [App -> sched_app_t] /\ pool' \in PoolType /\ PoolIsCounted'
      BY <1>0, <2>1 DEF AppInv, TypeOK, NothingBad, Harmless, PoolIsCounted, PoolType
    <2> QED  BY <1>0, <2>1, <2>3, <2>4, WriteKeeps
  <1> QED  BY <1>1, <1>2

LEMMA UnregisterKeeps ==
    ASSUME AppInv, ~bad, NEW g \in Cgroup, pmcsched_unregister_container(g)
    PROVE  AppInv'
  <1> DEFINE a == container[g]
             k == app[a].rmid
  <1>1. /\ a # NoApp /\ Kept(a) /\ container' = [container EXCEPT ![g] = NoApp]
        /\ pool' = put_rmid(pool, k) /\ app' = put_sched_app(app, a)
        /\ UNCHANGED <<setup, th, file, locked, bad>>
    BY DEF pmcsched_unregister_container, pmcsched_free_container
  <1>2. a \in App /\ Holders(a) > 0
    BY <1>1, ContainerHolds
  <1>3. \A b \in App : Holders(b)' = Holders(b) - (IF b = a THEN 1 ELSE 0)
    BY <1>1, ContainerGoes DEF AppInv
  <1>4. container' \in [Cgroup -> App \cup {NoApp}] /\ OwnContainers'
    BY <1>1 DEF AppInv, TypeOK, OwnContainers
  <1>5. k \in Rmid \cup {0}
    BY <1>2 DEF AppInv, TypeOK, sched_app_t
  <1> HIDE DEF a, k
  <1>6. /\ app' \in [App -> sched_app_t] /\ RefsCover' /\ LiveIsCounted'
        /\ \A b \in App : app'[b].state = IF b = a /\ app[a].refs = 1 THEN "freed"
                                         ELSE app[b].state
    BY <1>1, <1>2, <1>3, AfterPut
  <1>7. FoundIsLive'
    <2> DEFINE K == {a}
    <2>1. K \in SUBSET App /\ \A c \in K : Kept(c)
      BY <1>1, <1>2
    <2>2. \A b \in App : app'[b].state = IF b \in K /\ app[b].refs = 1 THEN "freed"
                                        ELSE app[b].state
      BY <1>6
    <2> HIDE DEF K
    <2>3. \A h \in File : file'[h].found \in {file[h].found, NoApp}
      BY <1>1
    <2> QED  BY <1>1, <2>1, <2>2, <2>3, FoundIsKept
  <1>8. pool' \in PoolType /\ PoolIsCounted'
    <2>1. pool \in PoolType /\ \A q \in Rmid : q \in pool.free \/ pool.refs[q] > 0
      BY DEF AppInv, TypeOK, PoolIsCounted, PoolType
    <2>2. /\ pool' \in PoolType
          /\ \A q \in Rmid : /\ pool'.refs[q] = IF q = k /\ q \notin pool.free
                                                THEN pool.refs[q] - 1 ELSE pool.refs[q]
                             /\ q \in pool'.free
                                  <=> q \in pool.free \/ (q = k /\ pool.refs[q] = 1)
      BY <1>1, <1>5, <2>1, RmidPutIs
    <2>3. ASSUME NEW q \in Rmid PROVE q \in pool'.free \/ pool'.refs[q] > 0
      <3>1. pool.refs[q] \in Nat /\ (q \in pool.free \/ pool.refs[q] > 0)
        BY <2>1 DEF PoolType
      <3> QED  BY <2>2, <3>1
    <2> QED  BY <2>2, <2>3 DEF PoolIsCounted
  <1>9. NothingBad' /\ bad' \in BOOLEAN /\ locked' \in BOOLEAN
    BY <1>1 DEF AppInv, NothingBad, Harmless, TypeOK
  <1> QED  BY <1>1, <1>4, <1>6, <1>7, <1>8, <1>9, WriteKeeps

LEMMA UsingContainersType ==
    ASSUME NEW r
    PROVE  IsFiniteSet(UsingContainers(r)) /\ Cardinality(UsingContainers(r)) \in Nat
           /\ (Cardinality(UsingContainers(r)) = 0 <=> UsingContainers(r) = {})
  <1>1. UsingContainers(r) \subseteq Cgroup
    BY DEF UsingContainers
  <1> HIDE DEF UsingContainers
  <1> QED  BY <1>1, CountType, SchedAppsAssumption

\* What becomes of the pool when all containers go.
LEMMA PoolAfterAll ==
    ASSUME TypeOK, PoolIsCounted, pmcsched_unregister_all_containers
    PROVE  /\ pool' \in PoolType
           /\ \A r \in Rmid :
                LET puts == Cardinality(UsingContainers(r))
                IN  /\ r \in pool'.free
                         <=> r \in pool.free \/ (0 < puts /\ pool.refs[r] =< puts)
                    /\ pool'.refs[r] = IF r \in pool.free THEN pool.refs[r]
                                       ELSE IF 0 < puts /\ pool.refs[r] =< puts THEN 0
                                       ELSE pool.refs[r] - puts
  <1> DEFINE puts(r) == Cardinality(UsingContainers(r))
             gone == {r \in Rmid \ pool.free : 0 < puts(r) /\ pool.refs[r] =< puts(r)}
             N == [r \in Rmid |-> IF r \in gone THEN 0
                                  ELSE IF r \in pool.free THEN pool.refs[r]
                                  ELSE pool.refs[r] - puts(r)]
  <1>1. pool' = [refs |-> N, free |-> pool.free \cup gone]
    BY DEF pmcsched_unregister_all_containers
  <1>2. \A r \in Rmid : puts(r) \in Nat /\ pool.refs[r] \in Nat
    BY UsingContainersType DEF TypeOK
  <1>3. gone \subseteq Rmid /\ pool.free \subseteq Rmid
        /\ \A r \in Rmid : r \in gone <=> r \notin pool.free /\ 0 < puts(r) /\ pool.refs[r] =< puts(r)
    BY DEF TypeOK
  <1>4. \A r \in Rmid : N[r] = IF r \in gone THEN 0
                               ELSE IF r \in pool.free THEN pool.refs[r]
                               ELSE pool.refs[r] - puts(r)
    OBVIOUS
  <1> HIDE DEF puts, gone
  <1>5. ASSUME NEW r \in Rmid PROVE N[r] \in Nat
    <2>1. puts(r) \in Nat /\ pool.refs[r] \in Nat
      BY <1>2
    <2>2. CASE r \in gone \/ r \in pool.free
      BY <1>4, <2>1, <2>2
    <2>3. CASE r \notin gone /\ r \notin pool.free
      <3>1. puts(r) = 0 \/ pool.refs[r] > puts(r)
        BY <1>3, <2>1, <2>3
      <3> QED  BY <1>4, <2>1, <2>3, <3>1
    <2> QED  BY <2>2, <2>3
  <1>6. N \in [Rmid -> Nat]
    BY <1>5
  <1> HIDE DEF N
  <1>7. pool' \in PoolType /\ pool'.refs = N /\ pool'.free = pool.free \cup gone
    BY <1>1, <1>3, <1>6 DEF PoolType
  <1>8. ASSUME NEW r \in Rmid
        PROVE  /\ r \in pool'.free <=> r \in pool.free \/ (0 < puts(r) /\ pool.refs[r] =< puts(r))
               /\ pool'.refs[r] = IF r \in pool.free THEN pool.refs[r]
                                  ELSE IF 0 < puts(r) /\ pool.refs[r] =< puts(r) THEN 0
                                  ELSE pool.refs[r] - puts(r)
    BY <1>3, <1>4, <1>7
  <1> QED  BY <1>7, <1>8 DEF puts

LEMMA UnregisterAllKeeps ==
    ASSUME AppInv, ~bad, pmcsched_unregister_all_containers
    PROVE  AppInv'
  <1> DEFINE all == {container[g] : g \in Cgroup} \ {NoApp}
  <1>1. /\ \A a \in all : Kept(a)
        /\ container' = [g \in Cgroup |-> NoApp]
        /\ app' = [a \in App |-> IF a \in all THEN put_sched_app(app, a)[a] ELSE app[a]]
        /\ UNCHANGED <<setup, th, file, locked, bad>>
    BY DEF pmcsched_unregister_all_containers
  <1>2. all \subseteq App /\ \A b \in App : b \in all <=> \E g \in Cgroup : container[g] = b
    BY SchedAppsAssumption DEF AppInv, TypeOK
  <1>3. ASSUME NEW a \in App, a \in all
        PROVE  Holders(a) > 0 /\ app[a].refs > 0 /\ app[a].state = "live"
    <2>1. PICK g \in Cgroup : container[g] = a /\ a # NoApp
      BY <1>3
    <2> QED  BY <1>3, <2>1, ContainerHolds, HeldIsLive
  <1> HIDE DEF all
  <1>4. ASSUME NEW b \in App
        PROVE  /\ Holders(b)' = Holders(b) - (IF b \in all THEN 1 ELSE 0)
               /\ Holders(b) \in Nat
    BY <1>1, <1>2, ContainersGo, HoldersType DEF AppInv
  <1>5. app \in [App -> sched_app_t] /\ \A b \in App : app[b].refs \in Nat
    BY DEF AppInv, TypeOK, sched_app_t
  <1>6. ASSUME NEW b \in App
        PROVE  /\ app'[b] \in sched_app_t
               /\ app'[b].refs = app[b].refs - (IF b \in all THEN 1 ELSE 0)
               /\ app'[b].state = IF b \in all /\ app[b].refs = 1 THEN "freed" ELSE app[b].state
    <2>1. CASE b \in all
      <3>1. app'[b] = put_sched_app(app, b)[b]
        BY <1>1, <2>1
      <3> QED  BY <1>3, <1>5, <2>1, <3>1, PutIs
    <2>2. CASE b \notin all
      <3>1. app'[b] = app[b]
        BY <1>1, <2>2
      <3> QED  BY <1>5, <2>2, <3>1
    <2> QED  BY <2>1, <2>2
  <1>7. app' \in [App -> sched_app_t]
    BY <1>1, <1>6
  <1>8. RefsCover'
    <2> SUFFICES ASSUME NEW b \in App
                 PROVE  /\ app'[b].refs >= Holders(b)'
                        /\ "shared" \notin setup => app'[b].refs = Holders(b)'
      BY <1>1 DEF RefsCover
    <2>1. app[b].refs >= Holders(b) /\ ("shared" \notin setup => app[b].refs = Holders(b))
      BY DEF AppInv, RefsCover
    <2> QED  BY <1>4, <1>5, <1>6, <2>1
  <1>9. LiveIsCounted'
    <2> SUFFICES ASSUME NEW b \in App PROVE app'[b].state = "live" <=> app'[b].refs > 0
      BY DEF LiveIsCounted
    <2>1. app[b].state = "live" <=> app[b].refs > 0
      BY DEF AppInv, LiveIsCounted
    <2>2. app[b].refs \in Nat
      BY <1>5
    <2> QED  BY <1>3, <1>6, <2>1, <2>2
  <1>10. FoundIsLive'
    <2>1. \A h \in File : file'[h].found \in {file[h].found, NoApp}
      BY <1>1
    <2>2. all \in SUBSET App
      BY <1>2
    <2> QED  BY <1>1, <1>6, <2>1, <2>2, FoundIsKept
  <1>11. pool' \in PoolType /\ PoolIsCounted'
    <2>1. pool' \in PoolType
      BY PoolAfterAll DEF AppInv
    <2>2. ASSUME NEW r \in Rmid PROVE r \in pool'.free \/ pool'.refs[r] > 0
      <3> DEFINE puts == Cardinality(UsingContainers(r))
      <3>1. /\ r \in pool'.free <=> r \in pool.free \/ (0 < puts /\ pool.refs[r] =< puts)
            /\ pool'.refs[r] = IF r \in pool.free THEN pool.refs[r]
                               ELSE IF 0 < puts /\ pool.refs[r] =< puts THEN 0
                               ELSE pool.refs[r] - puts
        BY PoolAfterAll DEF AppInv
      <3>2. puts \in Nat /\ pool.refs[r] \in Nat /\ (r \in pool.free \/ pool.refs[r] > 0)
        BY UsingContainersType DEF AppInv, TypeOK, PoolIsCounted
      <3> HIDE DEF puts
      <3> QED  BY <3>1, <3>2
    <2> QED  BY <2>1, <2>2 DEF PoolIsCounted
  <1>12. /\ container' \in [Cgroup -> App \cup {NoApp}] /\ OwnContainers'
         /\ NothingBad' /\ bad' \in BOOLEAN /\ locked' \in BOOLEAN
    BY <1>1 DEF AppInv, TypeOK, OwnContainers, NothingBad, Harmless
  <1> QED  BY <1>1, <1>7, <1>8, <1>9, <1>10, <1>11, <1>12, WriteKeeps

\* The new scheduler and the periods leave applications alone.
LEMMA SettingsKeep ==
    ASSUME AppInv, ~bad, SetScheduler \/ SetPeriods
    PROVE  AppInv'
  <1>1. /\ UNCHANGED <<setup, app, th, container, file, bad>> /\ locked' \in BOOLEAN
        /\ pool' \in PoolType /\ PoolIsCounted'
    <2>1. CASE SetScheduler
      BY <2>1 DEF SetScheduler, AppInv, TypeOK, PoolType, PoolIsCounted
    <2>2. CASE SetPeriods
      <3>1. UNCHANGED <<setup, app, th, container, file, pool, bad>>
        BY <2>2 DEF SetPeriods
      <3>2. locked' = locked \/ locked' = ("invalid" \in setup)
        BY <2>2 DEF SetPeriods, SetPeriod, SetProfilingPeriod
      <3>3. locked' \in BOOLEAN
        <4>1. CASE locked' = locked
          BY <4>1 DEF AppInv, TypeOK
        <4>2. CASE locked' = ("invalid" \in setup)
          <5>1. ("invalid" \in setup) \in BOOLEAN
            OBVIOUS
          <5> QED  BY <4>2, <5>1, Zenon
        <4> QED  BY <3>2, <4>1, <4>2
      <3>4. pool' \in PoolType /\ PoolIsCounted'
        BY <3>1 DEF AppInv, TypeOK, PoolType, PoolIsCounted
      <3> QED  BY <3>1, <3>3, <3>4
    <2> QED  BY <2>1, <2>2
  <1>2. \A b \in App : Holders(b)' = Holders(b)
    BY <1>1 DEF Holders, ThreadsOf, ContainersOf, FilesOf
  <1>3. RefsCover' /\ LiveIsCounted' /\ FoundIsLive' /\ OwnContainers' /\ NothingBad'
    BY <1>1, <1>2 DEF AppInv, RefsCover, LiveIsCounted, FoundIsLive, OwnContainers,
                      NothingBad, Harmless
  <1>4. /\ container' \in [Cgroup -> App \cup {NoApp}] /\ app' \in [App -> sched_app_t]
        /\ bad' \in BOOLEAN
    BY <1>1 DEF AppInv, TypeOK
  <1> QED  BY <1>1, <1>3, <1>4, WriteKeeps

-----------------------------------------------------------------------------------
LEMMA AppInvAtFirst ==
    ASSUME Init
    PROVE  AppInv
  <1>1. TypeOK /\ ThreadsHaveApps /\ OwnContainers /\ LiveIsCounted /\ FileSteps
        /\ FoundIsLive /\ NothingBad /\ PoolIsCounted
    <2>1. TypeOK
      <3>1. app \in [App -> sched_app_t] /\ th \in [Thread -> pmcsched_thread_data_t]
        BY DEF Init, sched_app_t, pmcsched_thread_data_t
      <3>2. pool \in [refs : [Rmid -> Nat], free : SUBSET Rmid]
        BY DEF Init
      <3> QED  BY <3>1, <3>2 DEF Init, TypeOK
    <2>2. ThreadsHaveApps /\ OwnContainers /\ LiveIsCounted
      BY DEF Init, ThreadsHaveApps, OwnContainers, LiveIsCounted
    <2>3. FileSteps /\ FoundIsLive /\ NothingBad /\ PoolIsCounted
      BY DEF Init, FileSteps, FoundIsLive, NothingBad, PoolIsCounted
    <2> QED  BY <2>1, <2>2, <2>3
  <1>2. ASSUME NEW a \in App PROVE Holders(a) = 0 /\ app[a].refs = 0
    <2>1. ThreadsOf(a) = {} /\ ContainersOf(a) = {} /\ FilesOf(a) = {}
      BY SchedAppsAssumption DEF Init, ThreadsOf, ContainersOf, FilesOf
    <2> QED  BY <2>1, HoldersType DEF Init
  <1>3. RefsCover
    BY <1>2 DEF RefsCover
  <1> QED  BY <1>1, <1>3 DEF AppInv

LEMMA AppInvIsKept ==
    ASSUME AppInv, [Next]_vars
    PROVE  AppInv'
  <1>1. CASE UNCHANGED vars
    <2>1. \A b \in App : Holders(b)' = Holders(b)
      BY <1>1 DEF vars, Holders, ThreadsOf, ContainersOf, FilesOf
    <2>2. TypeOK' /\ ThreadsHaveApps' /\ OwnContainers' /\ RefsCover' /\ LiveIsCounted'
      BY <1>1, <2>1 DEF vars, AppInv, TypeOK, ThreadsHaveApps, OwnContainers, RefsCover,
                        LiveIsCounted
    <2>3. FileSteps' /\ FoundIsLive' /\ NothingBad' /\ PoolIsCounted'
      BY <1>1 DEF vars, AppInv, FileSteps, FoundIsLive, NothingBad, PoolIsCounted, Harmless
    <2> QED  BY <2>2, <2>3 DEF AppInv
  <1>2. ASSUME ~bad, NEW t \in Thread, Callbacks(t) PROVE AppInv'
    BY <1>2, ForkKeeps, SwitchInKeeps, ExitKeeps, FreeKeeps, SetEnabledKeeps DEF Callbacks
  <1>3. ASSUME ~bad, pmcsched_proc_write PROVE AppInv'
    BY <1>3, RegisterKeeps, UnregisterKeeps, UnregisterAllKeeps, SettingsKeep
    DEF pmcsched_proc_write
  <1>4. ASSUME ~bad, NEW f \in File, FileOperation(f) PROVE AppInv'
    BY <1>4, TrackKeeps, TrackGetKeeps, UntrackKeeps, ReadKeeps, ReadGetKeeps
    DEF FileOperation
  <1> QED  BY <1>1, <1>2, <1>3, <1>4 DEF Next

-----------------------------------------------------------------------------------
(***********************************************************************************)
(* References to RMIDs, in the circumstances in which their users are counted.      *)
(***********************************************************************************)

Ordinary == Harmless({"early", "dirty", "again", "change"})

RmidsCounted ==
    \A r \in Rmid :
      /\ pool.refs[r] = Cardinality(UsingThreads(r)) + Cardinality(UsingContainers(r))
      /\ r \in pool.free <=> pool.refs[r] = 0

\* A thread that was given no RMID yet is alone with its application, which has none,
\* and was never that of another thread.
AloneIfFirst(t) ==
    /\ th[t].first # "container_yes"
    /\ th[t].first = "yes" =>
         /\ app[th[t].app].rmid = 0
         /\ \A u \in Thread \ {t} : th[u].state # "none" => th[u].app # th[t].app
         /\ \A g \in Cgroup : container[g] # th[t].app
FirstIsAlone == \A t \in Thread : th[t].state = "alive" => AloneIfFirst(t)

UsedBy(a) ==
    \/ \E t \in Thread : th[t].state = "alive" /\ th[t].app = a
    \/ \E g \in Cgroup : container[g] = a

UsedApart ==
    \A a, b \in App : UsedBy(a) /\ UsedBy(b) /\ a # b /\ app[a].rmid # 0 =>
                        app[a].rmid # app[b].rmid

RmidInv == RmidsCounted /\ FirstIsAlone /\ UsedApart

\* The application of whoever has been a thread is not one that was never used, even
\* when it is freed: a new application is that of no thread, and takes no RMID from one.
Started == \A t \in Thread : th[t].state # "none" => app[th[t].app].state # "unused"

-----------------------------------------------------------------------------------
(* Who uses an RMID.                                                                *)

LEMMA HasApp ==
    ASSUME AppInv, NEW t \in Thread, th[t].state # "none"
    PROVE  th[t].app \in App /\ th[t] \in pmcsched_thread_data_t
  BY DEF AppInv, ThreadsHaveApps, TypeOK

LEMMA UsingThreadsType ==
    ASSUME NEW r
    PROVE  IsFiniteSet(UsingThreads(r)) /\ Cardinality(UsingThreads(r)) \in Nat
           /\ (Cardinality(UsingThreads(r)) = 0 <=> UsingThreads(r) = {})
  <1>1. UsingThreads(r) \subseteq Thread
    BY DEF UsingThreads
  <1> HIDE DEF UsingThreads
  <1> QED  BY <1>1, CountType, SchedAppsAssumption

\* The users of an RMID among threads when one thread changes.
LEMMA ThreadUses ==
    ASSUME NEW t \in Thread, NEW r,
           \A u \in Thread \ {t} : th'[u] = th[u],
           \A u \in Thread \ {t} : th[u].state # "none" =>
             app'[th[u].app].rmid = app[th[u].app].rmid
    PROVE  /\ Cardinality(UsingThreads(r)') = Cardinality(UsingThreads(r))
                + (IF t \in UsingThreads(r)' THEN 1 ELSE 0)
                - (IF t \in UsingThreads(r) THEN 1 ELSE 0)
           /\ t \in UsingThreads(r) => Cardinality(UsingThreads(r)) > 0
           /\ Cardinality(UsingThreads(r)) \in Nat
  <1> DEFINE Rest == UsingThreads(r) \ {t}
  <1>1. \A u \in Thread \ {t} : u \in UsingThreads(r)' <=> u \in UsingThreads(r)
    BY DEF UsingThreads, LeavesRmid
  <1>2. UsingThreads(r)' \subseteq Thread /\ UsingThreads(r) \subseteq Thread
    BY DEF UsingThreads
  <1> HIDE DEF UsingThreads
  <1>3. UsingThreads(r)' = IF t \in UsingThreads(r)' THEN Rest \cup {t} ELSE Rest
    BY <1>1, <1>2
  <1>4. UsingThreads(r) = IF t \in UsingThreads(r) THEN Rest \cup {t} ELSE Rest
    OBVIOUS
  <1>5. t \notin Rest /\ IsFiniteSet(Rest) /\ Cardinality(Rest) \in Nat
    BY UsingThreadsType, CountType
  <1> HIDE DEF Rest
  <1>6. Cardinality(Rest \cup {t}) = Cardinality(Rest) + 1
    BY <1>5, CountMore
  <1>7. Cardinality(UsingThreads(r)')
          = Cardinality(Rest) + (IF t \in UsingThreads(r)' THEN 1 ELSE 0)
    <2>1. CASE t \in UsingThreads(r)'
      BY <1>3, <1>6, <2>1
    <2>2. CASE t \notin UsingThreads(r)'
      BY <1>3, <1>5, <2>2
    <2> QED  BY <2>1, <2>2
  <1>8. Cardinality(UsingThreads(r))
          = Cardinality(Rest) + (IF t \in UsingThreads(r) THEN 1 ELSE 0)
    BY <1>4, <1>5, <1>6
  <1> QED  BY <1>5, <1>7, <1>8

\* The users of an RMID among containers when one container changes.
LEMMA ContainerUses ==
    ASSUME NEW g \in Cgroup, NEW r,
           \A h \in Cgroup \ {g} : container'[h] = container[h],
           \A h \in Cgroup \ {g} : container[h] # NoApp =>
             app'[container[h]].rmid = app[container[h]].rmid
    PROVE  /\ Cardinality(UsingContainers(r)') = Cardinality(UsingContainers(r))
                + (IF g \in UsingContainers(r)' THEN 1 ELSE 0)
                - (IF g \in UsingContainers(r) THEN 1 ELSE 0)
           /\ g \in UsingContainers(r) => Cardinality(UsingContainers(r)) > 0
           /\ Cardinality(UsingContainers(r)) \in Nat
  <1> DEFINE Rest == UsingContainers(r) \ {g}
  <1>1. \A h \in Cgroup \ {g} : h \in UsingContainers(r)' <=> h \in UsingContainers(r)
    BY DEF UsingContainers
  <1>2. UsingContainers(r)' \subseteq Cgroup /\ UsingContainers(r) \subseteq Cgroup
    BY DEF UsingContainers
  <1> HIDE DEF UsingContainers
  <1>3. UsingContainers(r)' = IF g \in UsingContainers(r)' THEN Rest \cup {g} ELSE Rest
    BY <1>1, <1>2
  <1>4. UsingContainers(r) = IF g \in UsingContainers(r) THEN Rest \cup {g} ELSE Rest
    OBVIOUS
  <1>5. g \notin Rest /\ IsFiniteSet(Rest) /\ Cardinality(Rest) \in Nat
    BY UsingContainersType, CountType
  <1> HIDE DEF Rest
  <1>6. Cardinality(Rest \cup {g}) = Cardinality(Rest) + 1
    BY <1>5, CountMore
  <1>7. Cardinality(UsingContainers(r)')
          = Cardinality(Rest) + (IF g \in UsingContainers(r)' THEN 1 ELSE 0)
    <2>1. CASE g \in UsingContainers(r)'
      BY <1>3, <1>6, <2>1
    <2>2. CASE g \notin UsingContainers(r)'
      BY <1>3, <1>5, <2>2
    <2> QED  BY <2>1, <2>2
  <1>8. Cardinality(UsingContainers(r))
          = Cardinality(Rest) + (IF g \in UsingContainers(r) THEN 1 ELSE 0)
    BY <1>4, <1>5, <1>6
  <1> QED  BY <1>5, <1>7, <1>8

LEMMA ContainersUse ==
    ASSUME NEW r, UNCHANGED container,
           \A g \in Cgroup : container[g] # NoApp =>
             app'[container[g]].rmid = app[container[g]].rmid
    PROVE  UsingContainers(r)' = UsingContainers(r)
  <1>1. \A g \in Cgroup : g \in UsingContainers(r)' <=> g \in UsingContainers(r)
    BY DEF UsingContainers
  <1>2. UsingContainers(r)' \subseteq Cgroup /\ UsingContainers(r) \subseteq Cgroup
    BY DEF UsingContainers
  <1> QED  BY <1>1, <1>2

\* What has users is not free; so a free RMID is that of no application in use.
LEMMA UsedIsTaken ==
    ASSUME AppInv, RmidInv, NEW a \in App, UsedBy(a), app[a].rmid # 0
    PROVE  /\ app[a].rmid \in Rmid /\ app[a].rmid \notin pool.free
           /\ pool.refs[app[a].rmid] > 0
  <1> DEFINE k == app[a].rmid
  <1>1. k \in Rmid
    BY DEF AppInv, TypeOK, sched_app_t
  <1>2. UsingThreads(k) # {} \/ UsingContainers(k) # {}
    <2>1. CASE \E g \in Cgroup : container[g] = a
      BY <2>1, SchedAppsAssumption DEF UsingContainers
    <2>2. ASSUME NEW t \in Thread, th[t].state = "alive" /\ th[t].app = a
          PROVE  UsingThreads(k) # {}
      <3>1. th[t].first # "yes"
        BY <2>2 DEF RmidInv, FirstIsAlone, AloneIfFirst
      <3>2. t \in UsingThreads(k)
        BY <2>2, <3>1 DEF UsingThreads
      <3> QED  BY <3>2
    <2> QED  BY <2>1, <2>2 DEF UsedBy
  <1> HIDE DEF k
  <1>3. /\ pool.refs[k] = Cardinality(UsingThreads(k)) + Cardinality(UsingContainers(k))
        /\ k \in pool.free <=> pool.refs[k] = 0
    BY <1>1 DEF RmidInv, RmidsCounted
  <1>4. pool.refs[k] > 0
    BY <1>2, <1>3, UsingThreadsType, UsingContainersType
  <1> QED  BY <1>1, <1>3, <1>4 DEF k

\* Applications in use stay apart if no others come, but with no RMID ...
LEMMA ApartStays ==
    ASSUME UsedApart,
           \A a \in App : UsedBy(a)' =>
             \/ UsedBy(a) /\ app'[a].rmid = app[a].rmid
             \/ app'[a].rmid = 0
    PROVE  UsedApart'
  <1> SUFFICES ASSUME NEW a \in App, NEW b \in App, UsedBy(a)', UsedBy(b)', a # b,
                      app'[a].rmid # 0, app'[a].rmid = app'[b].rmid
               PROVE  FALSE
    BY DEF UsedApart
  <1>1. UsedBy(a) /\ app'[a].rmid = app[a].rmid /\ UsedBy(b) /\ app'[b].rmid = app[b].rmid
    OBVIOUS
  <1> QED  BY <1>1 DEF UsedApart

\* ... or one with an RMID that was free.
LEMMA ApartTaken ==
    ASSUME AppInv, RmidInv, NEW c \in App, NEW r \in Takeable, app'[c].rmid = r,
           \A a \in App \ {c} : UsedBy(a)' => UsedBy(a) /\ app'[a].rmid = app[a].rmid
    PROVE  UsedApart'
  <1> SUFFICES ASSUME NEW a \in App, NEW b \in App, UsedBy(a)', UsedBy(b)', a # b,
                      app'[a].rmid # 0, app'[a].rmid = app'[b].rmid
               PROVE  FALSE
    BY DEF UsedApart
  <1>1. r = 0 \/ r \in pool.free
    BY TakeableIs DEF AppInv
  <1>2. CASE a # c /\ b # c
    <2>1. UsedBy(a) /\ app'[a].rmid = app[a].rmid /\ UsedBy(b) /\ app'[b].rmid = app[b].rmid
      BY <1>2
    <2> QED  BY <2>1 DEF RmidInv, UsedApart
  <1>3. ASSUME NEW d \in App \ {c}, UsedBy(d)', app'[d].rmid = r, r # 0
        PROVE  FALSE
    <2>1. UsedBy(d) /\ app[d].rmid = r /\ r \in pool.free
      BY <1>1, <1>3
    <2> QED  BY <1>3, <2>1, UsedIsTaken
  <1>4. CASE a = c
    BY <1>3, <1>4
  <1>5. CASE b = c
    BY <1>3, <1>5
  <1> QED  BY <1>2, <1>4, <1>5

\* What leaves threads, containers, RMIDs and the pool alone, or frees a thread that
\* exited.
LEMMA NothingMoves ==
    ASSUME AppInv, RmidInv, UNCHANGED <<container, pool>>,
           \A a \in App : app'[a].rmid = app[a].rmid,
           \A t \in Thread : \/ th'[t] = th[t]
                             \/ /\ th[t].state = "gone"
                                /\ th'[t] = [th[t] EXCEPT !.state = "freed"]
    PROVE  RmidInv'
  <1>0. \A t \in Thread : /\ th[t].state # "none" => th[t].app \in App
                          /\ th[t] \in pmcsched_thread_data_t
    BY HasApp DEF AppInv, TypeOK
  <1>1. \A t \in Thread :
          /\ th'[t].state = "alive" <=> th[t].state = "alive"
          /\ th'[t].state = "none" <=> th[t].state = "none"
          /\ th'[t].state \in {"gone", "freed"} <=> th[t].state \in {"gone", "freed"}
          /\ th'[t].state = "refused" <=> th[t].state = "refused"
          /\ th'[t].app = th[t].app /\ th'[t].first = th[t].first
          /\ th'[t].enabled = th[t].enabled
    BY <1>0 DEF pmcsched_thread_data_t
  <1>2. ASSUME NEW r \in Rmid
        PROVE  UsingThreads(r)' = UsingThreads(r) /\ UsingContainers(r)' = UsingContainers(r)
    <2>1. \A t \in Thread : t \in UsingThreads(r)' <=> t \in UsingThreads(r)
      BY <1>0, <1>1 DEF UsingThreads, LeavesRmid
    <2>2. UsingThreads(r)' \subseteq Thread /\ UsingThreads(r) \subseteq Thread
      BY DEF UsingThreads
    <2>3. \A g \in Cgroup : container[g] # NoApp => container[g] \in App
      BY DEF AppInv, TypeOK
    <2> QED  BY <2>1, <2>2, <2>3, ContainersUse
  <1>3. RmidsCounted'
    BY <1>2 DEF RmidInv, RmidsCounted
  <1>4. FirstIsAlone'
    <2> SUFFICES ASSUME NEW t \in Thread, th'[t].state = "alive"
                 PROVE  AloneIfFirst(t)'
      BY DEF FirstIsAlone
    <2>1. AloneIfFirst(t) /\ app'[th[t].app].rmid = app[th[t].app].rmid
      BY <1>0, <1>1 DEF RmidInv, FirstIsAlone
    <2> QED  BY <1>1, <2>1 DEF AloneIfFirst
  <1>5. UsedApart'
    <2>1. \A a \in App : UsedBy(a)' => UsedBy(a)
      BY <1>1 DEF UsedBy
    <2> QED  BY <2>1, ApartStays DEF RmidInv
  <1> QED  BY <1>3, <1>4, <1>5 DEF RmidInv

-----------------------------------------------------------------------------------
(* Callbacks of threads.                                                            *)

LEMMA ThreadMoves ==
    ASSUME AppInv, RmidInv, NEW t \in Thread, \A u \in Thread \ {t} : th'[u] = th[u],
           UNCHANGED container,
           \A u \in Thread \ {t} : th[u].state # "none" =>
             app'[th[u].app].rmid = app[th[u].app].rmid,
           \A g \in Cgroup : container[g] # NoApp =>
             app'[container[g]].rmid = app[container[g]].rmid,
           th'[t].state = "alive" => AloneIfFirst(t)',
           \A u \in Thread \ {t} : th[u].state = "alive" /\ th[u].first = "yes" =>
                                        th'[t].app # th[u].app,
           \A r \in Rmid :
             /\ pool'.refs[r] = pool.refs[r] + (IF t \in UsingThreads(r)' THEN 1 ELSE 0)
                                             - (IF t \in UsingThreads(r) THEN 1 ELSE 0)
             /\ r \in pool'.free <=> pool'.refs[r] = 0,
           UsedApart'
    PROVE  RmidInv'
  <1>1. RmidsCounted'
    <2> SUFFICES ASSUME NEW r \in Rmid
                 PROVE  pool'.refs[r]
                          = Cardinality(UsingThreads(r)') + Cardinality(UsingContainers(r)')
      BY DEF RmidsCounted
    <2> DEFINE come == IF t \in UsingThreads(r)' THEN 1 ELSE 0
               leave == IF t \in UsingThreads(r) THEN 1 ELSE 0
    <2>1. UsingContainers(r)' = UsingContainers(r)
      BY ContainersUse
    <2>2. /\ Cardinality(UsingThreads(r)') = Cardinality(UsingThreads(r)) + come - leave
          /\ Cardinality(UsingThreads(r)) \in Nat
      BY ThreadUses
    <2>3. /\ pool.refs[r] = Cardinality(UsingThreads(r)) + Cardinality(UsingContainers(r))
          /\ Cardinality(UsingContainers(r)) \in Nat
      BY UsingContainersType DEF RmidInv, RmidsCounted
    <2>4. pool'.refs[r] = pool.refs[r] + come - leave
      OBVIOUS
    <2>5. come \in {0, 1} /\ leave \in {0, 1}
      OBVIOUS
    <2> HIDE DEF come, leave
    <2> QED  BY <2>1, <2>2, <2>3, <2>4, <2>5
  <1>2. FirstIsAlone'
    <2> SUFFICES ASSUME NEW u \in Thread, th'[u].state = "alive", u # t
                 PROVE  AloneIfFirst(u)'
      BY DEF FirstIsAlone
    <2>1. th'[u] = th[u] /\ th[u].state = "alive"
      OBVIOUS
    <2>2. AloneIfFirst(u) /\ app'[th[u].app].rmid = app[th[u].app].rmid
      BY <2>1 DEF RmidInv, FirstIsAlone
    <2>3. ASSUME NEW v \in Thread \ {u}, th'[v].state # "none", th[u].first = "yes"
          PROVE  th'[v].app # th[u].app
      <3>1. CASE v = t
        BY <2>1, <2>3, <3>1
      <3>2. CASE v # t
        <4>1. th'[v] = th[v]
          BY <3>2
        <4> QED  BY <2>2, <2>3, <4>1 DEF AloneIfFirst
      <3> QED  BY <3>1, <3>2
    <2> QED  BY <2>1, <2>2, <2>3 DEF AloneIfFirst
  <1> QED  BY <1>1, <1>2 DEF RmidInv

LEMMA JoinCounts ==
    ASSUME AppInv, RmidInv, NEW t \in Thread, th[t].state = "none",
           NEW a \in App, UsedBy(a),
           \A u \in Thread : th[u].state = "alive" /\ th[u].first = "yes" => th[u].app # a,
           NEW r \in pmcsched_thread_data_t, r.state \in {"alive", "refused"}, r.app = a,
           r.first \in {"no", "container_no"},
           th' = [th EXCEPT ![t] = r],
           app' = get_sched_app(app, a), pool' = use_rmid(app[a].rmid),
           UNCHANGED container
    PROVE  RmidInv'
  <1> DEFINE k == app[a].rmid
  <1>1. th'[t] = r /\ \A u \in Thread \ {t} : th'[u] = th[u]
    BY DEF AppInv, TypeOK
  <1>2. \A b \in App : app'[b].rmid = app[b].rmid
    <2>1. app'[a].rmid = app[a].rmid /\ \A b \in App \ {a} : app'[b] = app[b]
      BY GetIs DEF AppInv, TypeOK
    <2> QED  BY <2>1
  <1>3. k \in Rmid \cup {0}
    BY DEF AppInv, TypeOK, sched_app_t
  <1>4. ASSUME NEW q \in Rmid
        PROVE  /\ pool'.refs[q] = pool.refs[q] + (IF t \in UsingThreads(q)' THEN 1 ELSE 0)
                                               - (IF t \in UsingThreads(q) THEN 1 ELSE 0)
               /\ q \in pool'.free <=> pool'.refs[q] = 0
    <2>1. t \notin UsingThreads(q) /\ (t \in UsingThreads(q)' <=> q = k)
      BY <1>1, <1>2 DEF UsingThreads, LeavesRmid
    <2>2. q = k => q \notin pool.free
      BY UsedIsTaken, SchedAppsAssumption
    <2>3. /\ pool.refs[q] \in Nat
          /\ q \in pool.free <=> pool.refs[q] = 0
      BY DEF RmidInv, RmidsCounted, AppInv, TypeOK
    <2> HIDE DEF k
    <2>4. /\ pool'.free = pool.free
          /\ pool'.refs[q] = IF q = k /\ q \notin pool.free THEN pool.refs[q] + 1
                             ELSE pool.refs[q]
      BY <1>3, UseIs DEF AppInv, k
    <2>5. CASE q = k
      <3>1. pool'.refs[q] = pool.refs[q] + 1
        BY <2>2, <2>4, <2>5
      <3>2. t \notin UsingThreads(q) /\ t \in UsingThreads(q)'
        BY <2>1, <2>5
      <3>3. pool'.refs[q] # 0 /\ q \notin pool'.free
        BY <2>2, <2>3, <2>4, <2>5, <3>1
      <3> QED  BY <2>3, <3>1, <3>2, <3>3
    <2>6. CASE q # k
      <3>1. pool'.refs[q] = pool.refs[q]
        BY <2>4, <2>6
      <3>2. t \notin UsingThreads(q) /\ t \notin UsingThreads(q)'
        BY <2>1, <2>6
      <3> QED  BY <2>3, <2>4, <3>1, <3>2
    <2> QED  BY <2>5, <2>6
  <1>5. UsedApart'
    <2>1. ASSUME NEW b \in App, UsedBy(b)' PROVE UsedBy(b)
      BY <1>1, <2>1 DEF UsedBy
    <2> QED  BY <1>2, <2>1, ApartStays DEF RmidInv
  <1>6. \A u \in Thread \ {t} : th[u].state # "none" =>
          app'[th[u].app].rmid = app[th[u].app].rmid
    BY <1>2, HasApp
  <1>7. \A g \in Cgroup : container[g] # NoApp =>
          app'[container[g]].rmid = app[container[g]].rmid
    BY <1>2 DEF AppInv, TypeOK
  <1>8. /\ AloneIfFirst(t)'
        /\ \A u \in Thread \ {t} : th[u].state = "alive" /\ th[u].first = "yes" =>
                                     th'[t].app # th[u].app
    BY <1>1 DEF AloneIfFirst
  <1> QED  BY <1>1, <1>4, <1>5, <1>6, <1>7, <1>8, ThreadMoves

LEMMA FoundCounts ==
    ASSUME AppInv, ~bad, RmidInv, Started,
           NEW t \in Thread, th[t].state = "none", NEW a \in Unused,
           NEW r \in pmcsched_thread_data_t, r.state = "alive", r.app = a,
           r.first = "yes", th' = [th EXCEPT ![t] = r],
           app' = Created(app, a), pool' = pool, UNCHANGED container
    PROVE  RmidInv'
  <1>1. th'[t] = r /\ \A u \in Thread \ {t} : th'[u] = th[u]
    BY DEF AppInv, TypeOK
  <1>2. /\ a \in App /\ (\A u \in Thread : th[u].state # "none" => th[u].app # a)
        /\ \A g \in Cgroup : container[g] # a
    BY UnusedHasNoHolder DEF ContainersOf, Started, Unused
  <1>3. app'[a].rmid = 0 /\ \A b \in App \ {a} : app'[b] = app[b]
    BY <1>2, CreatedIs DEF AppInv, TypeOK
  <1>4. ASSUME NEW q \in Rmid
        PROVE  /\ pool'.refs[q] = pool.refs[q] + (IF t \in UsingThreads(q)' THEN 1 ELSE 0)
                                               - (IF t \in UsingThreads(q) THEN 1 ELSE 0)
               /\ q \in pool'.free <=> pool'.refs[q] = 0
    <2>1. t \notin UsingThreads(q) /\ t \notin UsingThreads(q)'
      BY <1>1 DEF UsingThreads, LeavesRmid
    <2>2. /\ pool.refs[q] \in Nat
          /\ q \in pool.free <=> pool.refs[q] = 0
      BY DEF RmidInv, RmidsCounted, AppInv, TypeOK
    <2> QED  BY <2>1, <2>2
  <1>5. UsedApart'
    <2>1. ASSUME NEW b \in App, UsedBy(b)' PROVE UsedBy(b) \/ b = a
      BY <1>1, <1>2, <2>1 DEF UsedBy
    <2> QED  BY <1>3, <2>1, ApartStays DEF RmidInv
  <1>6. \A u \in Thread \ {t} : th[u].state # "none" =>
          app'[th[u].app].rmid = app[th[u].app].rmid
    BY <1>2, <1>3, HasApp
  <1>7. \A g \in Cgroup : container[g] # NoApp =>
          app'[container[g]].rmid = app[container[g]].rmid
    BY <1>2, <1>3 DEF AppInv, TypeOK
  <1>8. /\ AloneIfFirst(t)'
        /\ \A u \in Thread \ {t} : th[u].state = "alive" /\ th[u].first = "yes" =>
                                     th'[t].app # th[u].app
    BY <1>1, <1>2, <1>3 DEF AloneIfFirst
  <1> QED  BY <1>1, <1>4, <1>5, <1>6, <1>7, <1>8, ThreadMoves

LEMMA ForkCounts ==
    ASSUME AppInv, ~bad, Ordinary, RmidInv, Started, NEW t \in Thread, pmcsched_on_fork(t)
    PROVE  RmidInv'
  <1>1. th[t].state = "none" /\ UNCHANGED container
    BY DEF pmcsched_on_fork
  <1>2. ASSUME NEW a \in App, NEW state \in {"alive", "refused"},
               NEW first \in {"no", "container_no", "container_yes"}, NEW on \in BOOLEAN,
               JoinsApp(t, a, state, first, on),
               (\E p \in Parents(t) : th[p].app = a) \/ (\E g \in Cgroup : container[g] = a),
               first = "container_yes" => "dirty" \in setup
        PROVE  RmidInv'
    <2>1. PICK r \in pmcsched_thread_data_t :
            /\ r.state = state /\ r.app = a /\ r.first = first
            /\ th' = [th EXCEPT ![t] = r]
            /\ app' = get_sched_app(app, a) /\ pool' = use_rmid(app[a].rmid)
      BY <1>2, JoinIs
    <2>2. r.state \in {"alive", "refused"} /\ r.first \in {"no", "container_no"}
      BY <1>2, <2>1 DEF Ordinary, Harmless
    <2>3. UsedBy(a) /\ \A u \in Thread : th[u].state = "alive" /\ th[u].first = "yes" => th[u].app # a
      <3>1. CASE \E g \in Cgroup : container[g] = a
        BY <3>1 DEF UsedBy, RmidInv, FirstIsAlone, AloneIfFirst
      <3>2. ASSUME NEW p \in Parents(t), th[p].app = a
            PROVE  UsedBy(a) /\ \A u \in Thread : th[u].state = "alive" /\ th[u].first = "yes"
                                                    => th[u].app # a
        <4>1. p \in Thread /\ th[p].state = "alive" /\ th[p].first = "no"
          BY DEF Parents, Ordinary, Harmless
        <4>2. UsedBy(a)
          BY <3>2, <4>1 DEF UsedBy
        <4>3. ASSUME NEW u \in Thread, th[u].state = "alive", th[u].first = "yes"
              PROVE  th[u].app # a
          <5>1. u # p /\ AloneIfFirst(u)
            BY <4>1, <4>3 DEF RmidInv, FirstIsAlone
          <5>2. th[p].state # "none"
            BY <4>1
          <5> QED  BY <3>2, <4>1, <4>3, <5>1, <5>2 DEF AloneIfFirst
        <4> QED  BY <4>2, <4>3
      <3> QED  BY <1>2, <3>1, <3>2
    <2> QED  BY <1>1, <2>1, <2>2, <2>3, JoinCounts
  <1>3. ASSUME NEW a \in Unused, NEW r \in pmcsched_thread_data_t,
               r.state = "alive", r.app = a, r.first = "yes", th' = [th EXCEPT ![t] = r],
               app' = Created(app, a), pool' = pool
        PROVE  RmidInv'
    BY <1>1, <1>3, FoundCounts
  <1>4. CASE \E a \in App, state \in {"alive", "refused"},
                first \in {"no", "container_no", "container_yes"}, on \in BOOLEAN :
                /\ JoinsApp(t, a, state, first, on) /\ app[a].state = "live"
                /\ \/ \E p \in Parents(t) : th[p].app = a
                   \/ \E g \in Cgroup : container[g] = a
                /\ first = "container_yes" => "dirty" \in setup
    <2>1. PICK a \in App, state \in {"alive", "refused"},
               first \in {"no", "container_no", "container_yes"}, on \in BOOLEAN :
                /\ JoinsApp(t, a, state, first, on)
                /\ \/ \E p \in Parents(t) : th[p].app = a
                   \/ \E g \in Cgroup : container[g] = a
                /\ first = "container_yes" => "dirty" \in setup
      BY <1>4
    <2> QED  BY <1>2, <2>1
  <1> QED  BY <1>3, <1>4, ForkIs

LEMMA SetEnabledCounts ==
    ASSUME AppInv, ~bad, RmidInv, NEW t \in Thread, NEW on \in BOOLEAN, SetEnabled(t, on)
    PROVE  RmidInv'
  <1> DEFINE r == [th[t] EXCEPT !.enabled = on]
  <1>1. /\ th[t].state = "alive" /\ th' = [th EXCEPT ![t].enabled = on]
        /\ UNCHANGED <<app, container, pool>>
    BY DEF SetEnabled
  <1>2. th[t].app \in App /\ th[t] \in pmcsched_thread_data_t
    BY <1>1, HasApp
  <1>3. /\ r.state = "alive" /\ r.app = th[t].app /\ r.first = th[t].first
        /\ th' = [th EXCEPT ![t] = r]
    BY <1>1, <1>2 DEF pmcsched_thread_data_t
  <1> HIDE DEF r
  <1>4. th'[t] = r /\ \A u \in Thread \ {t} : th'[u] = th[u]
    BY <1>3 DEF AppInv, TypeOK
  <1>5. ASSUME NEW q \in Rmid
        PROVE  /\ pool'.refs[q] = pool.refs[q] + (IF t \in UsingThreads(q)' THEN 1 ELSE 0)
                                               - (IF t \in UsingThreads(q) THEN 1 ELSE 0)
               /\ q \in pool'.free <=> pool'.refs[q] = 0
    <2>1. t \in UsingThreads(q)' <=> t \in UsingThreads(q)
      BY <1>1, <1>3, <1>4 DEF UsingThreads
    <2>2. /\ pool.refs[q] \in Nat
          /\ q \in pool.free <=> pool.refs[q] = 0
      BY DEF RmidInv, RmidsCounted, AppInv, TypeOK
    <2>3. CASE t \in UsingThreads(q)
      BY <1>1, <2>1, <2>2, <2>3
    <2>4. CASE t \notin UsingThreads(q)
      BY <1>1, <2>1, <2>2, <2>4
    <2> QED  BY <2>3, <2>4
  <1>6. UsedApart'
    <2>1. ASSUME NEW b \in App, UsedBy(b)' PROVE UsedBy(b)
      BY <1>1, <1>3, <1>4, <2>1 DEF UsedBy
    <2> QED  BY <1>1, <2>1, ApartStays DEF RmidInv
  <1>7. AloneIfFirst(t)
    BY <1>1 DEF RmidInv, FirstIsAlone
  <1>8. AloneIfFirst(t)'
    BY <1>1, <1>3, <1>4, <1>7 DEF AloneIfFirst
  <1>9. \A u \in Thread \ {t} : th[u].state = "alive" /\ th[u].first = "yes" =>
                                  th'[t].app # th[u].app
    <2>1. th[t].state # "none"
      BY <1>1
    <2> QED  BY <1>3, <1>4, <2>1 DEF RmidInv, FirstIsAlone, AloneIfFirst
  <1> QED  BY <1>1, <1>4, <1>5, <1>6, <1>8, <1>9, ThreadMoves

\* Threads whose application is that of no other thread, nor of a container.
LEMMA AloneLeavesOthers ==
    ASSUME AppInv, NEW t \in Thread, th[t].state = "alive", th[t].first = "yes",
           AloneIfFirst(t), \A b \in App \ {th[t].app} : app'[b].rmid = app[b].rmid
    PROVE  /\ \A u \in Thread \ {t} : th[u].state # "none" =>
                th[u].app # th[t].app /\ app'[th[u].app].rmid = app[th[u].app].rmid
           /\ \A g \in Cgroup : container[g] # NoApp =>
                container[g] # th[t].app /\ app'[container[g]].rmid = app[container[g]].rmid
  <1>1. \A u \in Thread : th[u].state # "none" => th[u].app \in App
    BY HasApp
  <1>2. \A g \in Cgroup : container[g] # NoApp => container[g] \in App
    BY DEF AppInv, TypeOK
  <1> QED  BY <1>1, <1>2 DEF AloneIfFirst

LEMMA SwitchInCounts ==
    ASSUME AppInv, ~bad, RmidInv, NEW t \in Thread, pmcsched_on_switch_in(t)
    PROVE  RmidInv'
  <1> DEFINE a == th[t].app
             r == [th[t] EXCEPT !.first = "no"]
  <1>1. PICK x \in __give_rmid(t) : pool' = x[1] /\ app' = x[2]
                                    /\ th' = [th EXCEPT ![t].first = x[3]]
    BY DEF pmcsched_on_switch_in
  <1>2. th[t].state = "alive" /\ th[t].enabled /\ UNCHANGED container
    BY DEF pmcsched_on_switch_in
  <1>3. a \in App /\ th[t] \in pmcsched_thread_data_t /\ AloneIfFirst(t)
    BY <1>2, HasApp DEF RmidInv, FirstIsAlone
  <1>4. x[3] = "no"
    BY <1>3, GiveIs DEF AloneIfFirst
  <1>5. /\ r.state = "alive" /\ r.app = a /\ r.first = "no" /\ r.enabled = TRUE
        /\ th' = [th EXCEPT ![t] = r]
    BY <1>1, <1>2, <1>3, <1>4 DEF pmcsched_thread_data_t
  <1> HIDE DEF r
  <1>6. th'[t] = r /\ \A u \in Thread \ {t} : th'[u] = th[u]
    BY <1>5 DEF AppInv, TypeOK
  <1>7. AloneIfFirst(t)'
    BY <1>5, <1>6 DEF AloneIfFirst
  <1>8. \A u \in Thread \ {t} : th[u].state = "alive" /\ th[u].first = "yes" =>
                                  th'[t].app # th[u].app
    BY <1>2, <1>5, <1>6 DEF RmidInv, FirstIsAlone, AloneIfFirst
  <1>9. CASE th[t].first = "yes"
    <2>1. PICK k \in Takeable : pool' = Taken(k) /\ app' = [app EXCEPT ![a].rmid = k]
      BY <1>1, <1>9, GiveIs
    <2>2. k \in Rmid \cup {0} /\ (k \in pool.free \/ k = 0)
      BY TakeableIs DEF AppInv
    <2>3. app'[a].rmid = k /\ \A b \in App \ {a} : app'[b] = app[b]
      BY <1>3, <2>1, <2>2, RmidSetIs DEF AppInv, TypeOK
    <2>4. ASSUME NEW q \in Rmid
          PROVE  /\ pool'.refs[q] = pool.refs[q] + (IF t \in UsingThreads(q)' THEN 1 ELSE 0)
                                                 - (IF t \in UsingThreads(q) THEN 1 ELSE 0)
                 /\ q \in pool'.free <=> pool'.refs[q] = 0
      <3>1. t \notin UsingThreads(q) /\ (t \in UsingThreads(q)' <=> q = k)
        BY <1>5, <1>6, <1>9, <2>3 DEF UsingThreads
      <3>2. /\ pool.refs[q] \in Nat
            /\ q \in pool.free <=> pool.refs[q] = 0
        BY DEF RmidInv, RmidsCounted, AppInv, TypeOK
      <3>3. /\ pool'.free = pool.free \ {k}
            /\ pool'.refs[q] = IF q = k THEN pool.refs[q] + 1 ELSE pool.refs[q]
        BY <2>1, <2>2, TakenIs DEF AppInv
      <3>4. CASE q = k
        BY <3>1, <3>2, <3>3, <3>4
      <3>5. CASE q # k
        BY <3>1, <3>2, <3>3, <3>5
      <3> QED  BY <3>4, <3>5
    <2>5. UsedApart'
      <3>1. ASSUME NEW b \in App \ {a}, UsedBy(b)' PROVE UsedBy(b)
        BY <1>2, <1>5, <1>6, <3>1 DEF UsedBy
      <3> QED  BY <1>3, <2>3, <3>1, ApartTaken
    <2>6. \A b \in App \ {a} : app'[b].rmid = app[b].rmid
      BY <2>3
    <2>7. /\ \A u \in Thread \ {t} : th[u].state # "none" =>
               app'[th[u].app].rmid = app[th[u].app].rmid
          /\ \A g \in Cgroup : container[g] # NoApp =>
               app'[container[g]].rmid = app[container[g]].rmid
      BY <1>2, <1>3, <1>9, <2>6, AloneLeavesOthers
    <2> QED  BY <1>2, <1>6, <1>7, <1>8, <2>4, <2>5, <2>7, ThreadMoves
  <1>10. CASE th[t].first # "yes"
    <2>1. pool' = pool /\ app' = app
      BY <1>1, <1>10, GiveIs
    <2>2. ASSUME NEW q \in Rmid
          PROVE  /\ pool'.refs[q] = pool.refs[q] + (IF t \in UsingThreads(q)' THEN 1 ELSE 0)
                                                 - (IF t \in UsingThreads(q) THEN 1 ELSE 0)
                 /\ q \in pool'.free <=> pool'.refs[q] = 0
      <3>1. t \in UsingThreads(q)' <=> t \in UsingThreads(q)
        BY <1>2, <1>5, <1>6, <1>10, <2>1 DEF UsingThreads
      <3>2. /\ pool.refs[q] \in Nat
            /\ q \in pool.free <=> pool.refs[q] = 0
        BY DEF RmidInv, RmidsCounted, AppInv, TypeOK
      <3>3. CASE t \in UsingThreads(q)
        BY <2>1, <3>1, <3>2, <3>3
      <3>4. CASE t \notin UsingThreads(q)
        BY <2>1, <3>1, <3>2, <3>4
      <3> QED  BY <3>3, <3>4
    <2>3. UsedApart'
      <3>1. ASSUME NEW b \in App, UsedBy(b)' PROVE UsedBy(b)
        BY <1>2, <1>5, <1>6, <3>1 DEF UsedBy
      <3> QED  BY <2>1, <3>1, ApartStays DEF RmidInv
    <2> QED  BY <1>2, <1>6, <1>7, <1>8, <2>1, <2>2, <2>3, ThreadMoves
  <1> QED  BY <1>9, <1>10

LEMMA ExitCounts ==
    ASSUME AppInv, ~bad, RmidInv, NEW t \in Thread, pmcsched_on_exit(t)
    PROVE  RmidInv'
  <1> DEFINE a == th[t].app
  <1>1. th[t].state = "alive" /\ UNCHANGED container
    BY DEF pmcsched_on_exit
  <1>2. a \in App /\ th[t] \in pmcsched_thread_data_t /\ AloneIfFirst(t)
    BY <1>1, HasApp DEF RmidInv, FirstIsAlone
  <1>3. /\ th'[t].state = "gone" /\ th'[t].app = a /\ th'[t].enabled = th[t].enabled
        /\ ~th[t].enabled => th'[t].first = th[t].first
        /\ \A u \in Thread \ {t} : th'[u] = th[u]
    <2>1. CASE th[t].enabled
      <3>1. PICK f : th' = [th EXCEPT ![t].state = "gone", ![t].first = f]
        BY <2>1 DEF pmcsched_on_exit
      <3> QED  BY <1>2, <3>1 DEF AppInv, TypeOK, pmcsched_thread_data_t
    <2>2. CASE ~th[t].enabled
      <3>1. th' = [th EXCEPT ![t].state = "gone"]
        BY <2>2 DEF pmcsched_on_exit
      <3> QED  BY <1>2, <3>1 DEF AppInv, TypeOK, pmcsched_thread_data_t
    <2> QED  BY <2>1, <2>2
  <1>4. \A q \in Rmid : th[t].enabled => t \notin UsingThreads(q)'
    BY <1>3 DEF UsingThreads, LeavesRmid
  <1>5. ASSUME NEW b \in App, UsedBy(b)'
        PROVE  UsedBy(b) /\ (th[t].first = "yes" => b # a)
    BY <1>1, <1>2, <1>3, <1>5 DEF UsedBy, AloneIfFirst
  <1>a. \A u \in Thread \ {t} : th[u].state = "alive" /\ th[u].first = "yes" =>
                                  th'[t].app # th[u].app
    <2>1. th[t].state # "none"
      BY <1>1
    <2> QED  BY <1>3, <2>1 DEF RmidInv, FirstIsAlone, AloneIfFirst
  <1>6. CASE ~th[t].enabled
    <2>1. pool' = pool /\ app' = app
      BY <1>6 DEF pmcsched_on_exit
    <2>2. ASSUME NEW q \in Rmid
          PROVE  /\ pool'.refs[q] = pool.refs[q] + (IF t \in UsingThreads(q)' THEN 1 ELSE 0)
                                                 - (IF t \in UsingThreads(q) THEN 1 ELSE 0)
                 /\ q \in pool'.free <=> pool'.refs[q] = 0
      <3>1. t \in UsingThreads(q)' <=> t \in UsingThreads(q)
        BY <1>1, <1>3, <1>6, <2>1 DEF UsingThreads, LeavesRmid
      <3>2. /\ pool.refs[q] \in Nat
            /\ q \in pool.free <=> pool.refs[q] = 0
        BY DEF RmidInv, RmidsCounted, AppInv, TypeOK
      <3>3. CASE t \in UsingThreads(q)
        BY <2>1, <3>1, <3>2, <3>3
      <3>4. CASE t \notin UsingThreads(q)
        BY <2>1, <3>1, <3>2, <3>4
      <3> QED  BY <3>3, <3>4
    <2>3. UsedApart'
      BY <1>5, <2>1, ApartStays DEF RmidInv
    <2> QED  BY <1>1, <1>3, <1>a, <2>1, <2>2, <2>3, ThreadMoves
  <1>7. CASE th[t].enabled
    <2>1. PICK x \in __give_rmid(t) : pool' = put_rmid(x[1], x[2][a].rmid) /\ app' = x[2]
      BY <1>7 DEF pmcsched_on_exit
    <2>2. CASE th[t].first = "yes"
      <3>1. PICK k \in Takeable : x[1] = Taken(k) /\ app' = [app EXCEPT ![a].rmid = k]
        BY <2>1, <2>2, GiveIs
      <3>2. k \in Rmid \cup {0} /\ (k \in pool.free \/ k = 0)
        BY TakeableIs DEF AppInv
      <3>3. app'[a].rmid = k /\ \A b \in App \ {a} : app'[b] = app[b]
        BY <1>2, <3>1, <3>2, RmidSetIs DEF AppInv, TypeOK
      <3> DEFINE P == Taken(k)
      <3>4. /\ P \in PoolType /\ P.free = pool.free \ {k}
            /\ \A q \in Rmid : P.refs[q] = IF q = k THEN pool.refs[q] + 1 ELSE pool.refs[q]
        BY <3>2, TakenIs DEF AppInv
      <3> HIDE DEF P
      <3>5. pool' = put_rmid(P, k)
        BY <2>1, <3>1, <3>3 DEF P
      <3>6. \A q \in Rmid : pool.refs[q] \in Nat /\ (q \in pool.free <=> pool.refs[q] = 0)
        BY DEF RmidInv, RmidsCounted, AppInv, TypeOK
      <3>7. \A q \in Rmid : q \in P.free \/ P.refs[q] > 0
        BY <3>4, <3>6
      <3>8. \A q \in Rmid :
              /\ pool'.refs[q] = IF q = k /\ q \notin P.free THEN P.refs[q] - 1 ELSE P.refs[q]
              /\ q \in pool'.free <=> q \in P.free \/ (q = k /\ P.refs[q] = 1)
        BY <3>2, <3>4, <3>5, <3>7, RmidPutIs
      <3>9. ASSUME NEW q \in Rmid
            PROVE  /\ pool'.refs[q] = pool.refs[q]
                                        + (IF t \in UsingThreads(q)' THEN 1 ELSE 0)
                                        - (IF t \in UsingThreads(q) THEN 1 ELSE 0)
                   /\ q \in pool'.free <=> pool'.refs[q] = 0
        <4>1. t \notin UsingThreads(q)' /\ t \notin UsingThreads(q)
          BY <1>1, <1>4, <1>7, <2>2 DEF UsingThreads
        <4>2. pool'.refs[q] = pool.refs[q] /\ (q \in pool'.free <=> pool.refs[q] = 0)
          <5>1. CASE q = k
            <6>1. q \in pool.free /\ pool.refs[q] = 0 /\ P.refs[q] = 1 /\ q \notin P.free
              BY <3>2, <3>4, <3>6, <5>1, SchedAppsAssumption
            <6> QED  BY <3>8, <5>1, <6>1
          <5>2. CASE q # k
            BY <3>4, <3>6, <3>8, <5>2
          <5> QED  BY <5>1, <5>2
        <4>3. pool.refs[q] \in Nat
          BY <3>6
        <4> QED  BY <4>1, <4>2, <4>3
      <3>10. UsedApart'
        BY <1>5, <2>2, <3>3, ApartStays DEF RmidInv
      <3>11. \A b \in App \ {a} : app'[b].rmid = app[b].rmid
        BY <3>3
      <3>12. /\ \A u \in Thread \ {t} : th[u].state # "none" =>
                  app'[th[u].app].rmid = app[th[u].app].rmid
             /\ \A g \in Cgroup : container[g] # NoApp =>
                  app'[container[g]].rmid = app[container[g]].rmid
        BY <1>1, <1>2, <2>2, <3>11, AloneLeavesOthers
      <3> QED  BY <1>1, <1>3, <1>a, <3>9, <3>10, <3>12, ThreadMoves
    <2>3. CASE th[t].first # "yes"
      <3> DEFINE k == app[a].rmid
      <3>1. app' = app /\ pool' = put_rmid(pool, k)
        BY <2>1, <2>3, GiveIs
      <3>2. k \in Rmid \cup {0}
        BY <1>2 DEF AppInv, TypeOK, sched_app_t
      <3>3. \A q \in Rmid : pool.refs[q] \in Nat /\ (q \in pool.free <=> pool.refs[q] = 0)
        BY DEF RmidInv, RmidsCounted, AppInv, TypeOK
      <3>4. \A q \in Rmid : q = k => pool.refs[q] > 0
        <4>1. UsedBy(a)
          BY <1>1, <1>7 DEF UsedBy
        <4> QED  BY <1>2, <4>1, UsedIsTaken, SchedAppsAssumption
      <3>5. \A q \in Rmid : t \in UsingThreads(q) <=> q = k
        BY <1>1, <1>7, <2>3 DEF UsingThreads
      <3> HIDE DEF k
      <3>6. \A q \in Rmid :
              /\ pool'.refs[q] = IF q = k /\ q \notin pool.free THEN pool.refs[q] - 1
                                 ELSE pool.refs[q]
              /\ q \in pool'.free <=> q \in pool.free \/ (q = k /\ pool.refs[q] = 1)
        <4>1. pool \in PoolType /\ \A q \in Rmid : q \in pool.free \/ pool.refs[q] > 0
          BY DEF AppInv, TypeOK, PoolIsCounted, PoolType
        <4> QED  BY <3>1, <3>2, <4>1, RmidPutIs
      <3>7. ASSUME NEW q \in Rmid
            PROVE  /\ pool'.refs[q] = pool.refs[q]
                                        + (IF t \in UsingThreads(q)' THEN 1 ELSE 0)
                                        - (IF t \in UsingThreads(q) THEN 1 ELSE 0)
                   /\ q \in pool'.free <=> pool'.refs[q] = 0
        <4>1. t \notin UsingThreads(q)' /\ pool.refs[q] \in Nat
              /\ (q \in pool.free <=> pool.refs[q] = 0)
          BY <1>4, <1>7, <3>3
        <4>2. CASE q = k
          <5>1. /\ pool'.refs[q] = pool.refs[q] - 1
                /\ q \in pool'.free <=> pool.refs[q] = 1
            BY <3>3, <3>4, <3>6, <4>1, <4>2
          <5>2. t \in UsingThreads(q)
            BY <3>5, <4>2
          <5> QED  BY <4>1, <5>1, <5>2
        <4>3. CASE q # k
          <5>1. pool'.refs[q] = pool.refs[q] /\ (q \in pool'.free <=> q \in pool.free)
            BY <3>6, <4>3
          <5>2. t \notin UsingThreads(q)
            BY <3>5, <4>3
          <5> QED  BY <4>1, <5>1, <5>2
        <4> QED  BY <4>2, <4>3
      <3>8. UsedApart'
        BY <1>5, <3>1, ApartStays DEF RmidInv
      <3> QED  BY <1>1, <1>3, <1>a, <3>1, <3>7, <3>8, ThreadMoves
    <2> QED  BY <2>2, <2>3
  <1> QED  BY <1>6, <1>7

-----------------------------------------------------------------------------------
(* Writes to /proc/pmc/sched.                                                       *)

\* One container comes or goes.
LEMMA ContainerMoves ==
    ASSUME AppInv, RmidInv, NEW g \in Cgroup, UNCHANGED th,
           \A h \in Cgroup \ {g} : container'[h] = container[h],
           \A t \in Thread : th[t].state # "none" =>
             /\ app'[th[t].app].rmid = app[th[t].app].rmid
             /\ container'[g] # th[t].app \/ container'[g] = container[g],
           \A h \in Cgroup \ {g} : container[h] # NoApp =>
             app'[container[h]].rmid = app[container[h]].rmid,
           \A r \in Rmid :
             /\ pool'.refs[r] = pool.refs[r] + (IF g \in UsingContainers(r)' THEN 1 ELSE 0)
                                             - (IF g \in UsingContainers(r) THEN 1 ELSE 0)
             /\ r \in pool'.free <=> pool'.refs[r] = 0,
           UsedApart'
    PROVE  RmidInv'
  <1>1. RmidsCounted'
    <2> SUFFICES ASSUME NEW r \in Rmid
                 PROVE  pool'.refs[r]
                          = Cardinality(UsingThreads(r)') + Cardinality(UsingContainers(r)')
      BY DEF RmidsCounted
    <2> DEFINE come == IF g \in UsingContainers(r)' THEN 1 ELSE 0
               leave == IF g \in UsingContainers(r) THEN 1 ELSE 0
    <2>1. UsingThreads(r)' = UsingThreads(r)
      <3>1. \A t \in Thread : t \in UsingThreads(r)' <=> t \in UsingThreads(r)
        BY DEF UsingThreads, LeavesRmid
      <3>2. UsingThreads(r)' \subseteq Thread /\ UsingThreads(r) \subseteq Thread
        BY DEF UsingThreads
      <3> QED  BY <3>1, <3>2
    <2>2. /\ Cardinality(UsingContainers(r)') = Cardinality(UsingContainers(r)) + come - leave
          /\ Cardinality(UsingContainers(r)) \in Nat
      BY ContainerUses
    <2>3. /\ pool.refs[r] = Cardinality(UsingThreads(r)) + Cardinality(UsingContainers(r))
          /\ Cardinality(UsingThreads(r)) \in Nat
      BY UsingThreadsType DEF RmidInv, RmidsCounted
    <2>4. pool'.refs[r] = pool.refs[r] + come - leave
      OBVIOUS
    <2>5. come \in {0, 1} /\ leave \in {0, 1}
      OBVIOUS
    <2> HIDE DEF come, leave
    <2> QED  BY <2>1, <2>2, <2>3, <2>4, <2>5
  <1>2. FirstIsAlone'
    <2> SUFFICES ASSUME NEW t \in Thread, th[t].state = "alive"
                 PROVE  AloneIfFirst(t)'
      BY DEF FirstIsAlone
    <2>1. AloneIfFirst(t) /\ app'[th[t].app].rmid = app[th[t].app].rmid
      BY DEF RmidInv, FirstIsAlone
    <2>2. \A h \in Cgroup : container'[h] # th[t].app \/ container'[h] = container[h]
      OBVIOUS
    <2> QED  BY <2>1, <2>2 DEF AloneIfFirst
  <1> QED  BY <1>1, <1>2 DEF RmidInv

LEMMA RegisteredIs ==
    ASSUME AppInv, NEW a \in App, NEW r \in Rmid \cup {0},
           app' = [Created(app, a) EXCEPT ![a].rmid = r]
    PROVE  /\ app'[a].rmid = r /\ app'[a].state = "live"
           /\ \A b \in App \ {a} : app'[b] = app[b]
  <1>1. app \in [App -> sched_app_t]
    BY DEF AppInv, TypeOK
  <1>2. /\ app' \in [App -> sched_app_t]
        /\ app'[a] = [state |-> "live", refs |-> 1, rmid |-> r]
        /\ \A b \in App \ {a} : app'[b] = app[b]
    BY <1>1, CreatedWithRmidIs
  <1> QED  BY <1>2

LEMMA RegisterCounts ==
    ASSUME AppInv, ~bad, Ordinary, RmidInv, Started, NEW g \in Cgroup,
           pmcsched_register_container(g)
    PROVE  RmidInv'
  <1> DEFINE a == CHOOSE x \in Unused : TRUE
  <1>0. container[g] = NoApp
    BY DEF pmcsched_register_container, Ordinary, Harmless
  <1>1. Unused # {} /\ container' = [container EXCEPT ![g] = a] /\ th' = th
    BY <1>0 DEF pmcsched_register_container
  <1>2. PICK k \in Takeable : /\ app' = [Created(app, a) EXCEPT ![a].rmid = k]
                              /\ pool' = Taken(k)
    BY <1>0 DEF pmcsched_register_container
  <1>3. a \in Unused
    BY <1>1
  <1> HIDE DEF a
  <1>4. /\ a \in App /\ (\A t \in Thread : th[t].state # "none" => th[t].app # a)
        /\ \A h \in Cgroup : container[h] # a
    BY <1>3, UnusedHasNoHolder DEF ContainersOf, Started, Unused
  <1>5. k \in Rmid \cup {0} /\ (k \in pool.free \/ k = 0)
    BY TakeableIs DEF AppInv
  <1>6. app'[a].rmid = k /\ \A b \in App \ {a} : app'[b] = app[b]
    BY <1>2, <1>4, <1>5, RegisteredIs
  <1>7. container'[g] = a /\ \A h \in Cgroup \ {g} : container'[h] = container[h]
    BY <1>1 DEF AppInv, TypeOK
  <1>8. ASSUME NEW q \in Rmid
        PROVE  /\ pool'.refs[q] = pool.refs[q] + (IF g \in UsingContainers(q)' THEN 1 ELSE 0)
                                               - (IF g \in UsingContainers(q) THEN 1 ELSE 0)
               /\ q \in pool'.free <=> pool'.refs[q] = 0
    <2>1. g \notin UsingContainers(q)
      BY <1>0 DEF UsingContainers
    <2>2. g \in UsingContainers(q)' <=> q = k
      BY <1>4, <1>6, <1>7, SchedAppsAssumption DEF UsingContainers
    <2>3. /\ pool.refs[q] \in Nat
          /\ q \in pool.free <=> pool.refs[q] = 0
      BY DEF RmidInv, RmidsCounted, AppInv, TypeOK
    <2>4. /\ pool'.free = pool.free \ {k}
          /\ pool'.refs[q] = IF q = k THEN pool.refs[q] + 1 ELSE pool.refs[q]
      BY <1>2, <1>5, TakenIs DEF AppInv
    <2>5. CASE q = k
      BY <2>1, <2>2, <2>3, <2>4, <2>5
    <2>6. CASE q # k
      BY <2>1, <2>2, <2>3, <2>4, <2>6
    <2> QED  BY <2>5, <2>6
  <1>9. UsedApart'
    <2>1. ASSUME NEW b \in App \ {a}, UsedBy(b)' PROVE UsedBy(b)
      BY <1>1, <1>7, <2>1 DEF UsedBy
    <2> QED  BY <1>4, <1>6, <2>1, ApartTaken
  <1>10. \A t \in Thread : th[t].state # "none" =>
           /\ app'[th[t].app].rmid = app[th[t].app].rmid
           /\ container'[g] # th[t].app
    BY <1>4, <1>6, <1>7, HasApp
  <1>11. \A h \in Cgroup \ {g} : container[h] # NoApp =>
           app'[container[h]].rmid = app[container[h]].rmid
    BY <1>4, <1>6 DEF AppInv, TypeOK
  <1> QED  BY <1>1, <1>7, <1>8, <1>9, <1>10, <1>11, ContainerMoves

LEMMA UnregisterCounts ==
    ASSUME AppInv, ~bad, RmidInv, NEW g \in Cgroup, pmcsched_unregister_container(g)
    PROVE  RmidInv'
  <1> DEFINE a == container[g]
             k == app[a].rmid
  <1>1. /\ a # NoApp /\ container' = [container EXCEPT ![g] = NoApp]
        /\ pool' = put_rmid(pool, k) /\ app' = put_sched_app(app, a)
        /\ th' = th
    BY DEF pmcsched_unregister_container, pmcsched_free_container
  <1>2. a \in App /\ app[a].refs > 0 /\ app \in [App -> sched_app_t] /\ UsedBy(a)
    BY <1>1, ContainerHolds, HeldIsLive DEF AppInv, TypeOK, UsedBy
  <1>3. container'[g] = NoApp /\ \A h \in Cgroup \ {g} : container'[h] = container[h]
    BY <1>1 DEF AppInv, TypeOK
  <1>4. \A q \in Rmid : g \in UsingContainers(q) <=> q = k
    BY <1>1 DEF UsingContainers
  <1>5. \A q \in Rmid : g \notin UsingContainers(q)'
    BY <1>3 DEF UsingContainers
  <1>6. \A q \in Rmid : q = k => pool.refs[q] > 0
    BY <1>2, UsedIsTaken, SchedAppsAssumption
  <1>7. k \in Rmid \cup {0}
    BY <1>2 DEF sched_app_t
  <1> HIDE DEF a, k
  <1>8. \A b \in App : app'[b].rmid = app[b].rmid
    <2>1. app'[a].rmid = app[a].rmid /\ \A b \in App \ {a} : app'[b] = app[b]
      BY <1>1, <1>2, PutIs
    <2> QED  BY <2>1
  <1>9. \A q \in Rmid : pool.refs[q] \in Nat /\ (q \in pool.free <=> pool.refs[q] = 0)
    BY DEF RmidInv, RmidsCounted, AppInv, TypeOK
  <1>10. \A q \in Rmid :
           /\ pool'.refs[q] = IF q = k /\ q \notin pool.free THEN pool.refs[q] - 1
                              ELSE pool.refs[q]
           /\ q \in pool'.free <=> q \in pool.free \/ (q = k /\ pool.refs[q] = 1)
    <2>1. pool \in PoolType /\ \A q \in Rmid : q \in pool.free \/ pool.refs[q] > 0
      BY DEF AppInv, TypeOK, PoolIsCounted, PoolType
    <2> QED  BY <1>1, <1>7, <2>1, RmidPutIs
  <1>11. ASSUME NEW q \in Rmid
         PROVE  /\ pool'.refs[q] = pool.refs[q] + (IF g \in UsingContainers(q)' THEN 1 ELSE 0)
                                                - (IF g \in UsingContainers(q) THEN 1 ELSE 0)
                /\ q \in pool'.free <=> pool'.refs[q] = 0
    <2>1. g \notin UsingContainers(q)' /\ pool.refs[q] \in Nat
          /\ (q \in pool.free <=> pool.refs[q] = 0)
      BY <1>5, <1>9
    <2>2. CASE q = k
      <3>1. /\ pool'.refs[q] = pool.refs[q] - 1
            /\ q \in pool'.free <=> pool.refs[q] = 1
        BY <1>6, <1>10, <2>1, <2>2
      <3>2. g \in UsingContainers(q)
        BY <1>4, <2>2
      <3> QED  BY <2>1, <3>1, <3>2
    <2>3. CASE q # k
      <3>1. pool'.refs[q] = pool.refs[q] /\ (q \in pool'.free <=> q \in pool.free)
        BY <1>10, <2>3
      <3>2. g \notin UsingContainers(q)
        BY <1>4, <2>3
      <3> QED  BY <2>1, <3>1, <3>2
    <2> QED  BY <2>2, <2>3
  <1>12. UsedApart'
    <2>1. ASSUME NEW b \in App, UsedBy(b)' PROVE UsedBy(b)
      <3>1. b # NoApp
        BY SchedAppsAssumption
      <3> QED  BY <1>1, <1>3, <2>1, <3>1 DEF UsedBy
    <2> QED  BY <1>8, <2>1, ApartStays DEF RmidInv
  <1>13. \A t \in Thread : th[t].state # "none" =>
           /\ app'[th[t].app].rmid = app[th[t].app].rmid
           /\ container'[g] # th[t].app
    BY <1>3, <1>8, HasApp, SchedAppsAssumption
  <1>14. \A h \in Cgroup \ {g} : container[h] # NoApp =>
           app'[container[h]].rmid = app[container[h]].rmid
    BY <1>8 DEF AppInv, TypeOK
  <1> QED  BY <1>1, <1>3, <1>11, <1>12, <1>13, <1>14, ContainerMoves

LEMMA UnregisterAllCounts ==
    ASSUME AppInv, ~bad, RmidInv, pmcsched_unregister_all_containers
    PROVE  RmidInv'
  <1> DEFINE all == {container[g] : g \in Cgroup} \ {NoApp}
  <1>1. /\ container' = [g \in Cgroup |-> NoApp] /\ th' = th
        /\ app' = [a \in App |-> IF a \in all THEN put_sched_app(app, a)[a] ELSE app[a]]
    BY DEF pmcsched_unregister_all_containers
  <1>2. ASSUME NEW a \in App, a \in all PROVE app[a].refs > 0
    <2>1. PICK g \in Cgroup : container[g] = a /\ a # NoApp
      BY <1>2
    <2> QED  BY <2>1, ContainerHolds, HeldIsLive
  <1> HIDE DEF all
  <1>3. ASSUME NEW a \in App PROVE app'[a].rmid = app[a].rmid
    <2>1. CASE a \in all
      <3>1. app'[a] = put_sched_app(app, a)[a]
        BY <1>1, <2>1
      <3> QED  BY <1>2, <2>1, <3>1, PutIs DEF AppInv, TypeOK
    <2>2. CASE a \notin all
      BY <1>1, <2>2
    <2> QED  BY <2>1, <2>2
  <1>4. \A t \in Thread : th[t].state # "none" =>
          th[t].app \in App /\ app'[th[t].app].rmid = app[th[t].app].rmid
    BY <1>3, HasApp
  <1>5. ASSUME NEW r \in Rmid
        PROVE  /\ UsingThreads(r)' = UsingThreads(r)
               /\ Cardinality(UsingContainers(r)') = 0
    <2>1. \A t \in Thread : t \in UsingThreads(r)' <=> t \in UsingThreads(r)
      BY <1>1, <1>4 DEF UsingThreads, LeavesRmid
    <2>2. UsingThreads(r)' \subseteq Thread /\ UsingThreads(r) \subseteq Thread
      BY DEF UsingThreads
    <2>3. UsingContainers(r)' = {}
      BY <1>1 DEF UsingContainers
    <2> QED  BY <2>1, <2>2, <2>3, FS_EmptySet
  <1>6. RmidsCounted'
    <2> SUFFICES ASSUME NEW r \in Rmid
                 PROVE  /\ pool'.refs[r] = Cardinality(UsingThreads(r))
                        /\ r \in pool'.free <=> pool'.refs[r] = 0
      BY <1>5, UsingThreadsType DEF RmidsCounted
    <2> DEFINE puts == Cardinality(UsingContainers(r))
               users == Cardinality(UsingThreads(r))
    <2>1. /\ r \in pool'.free <=> r \in pool.free \/ (0 < puts /\ pool.refs[r] =< puts)
          /\ pool'.refs[r] = IF r \in pool.free THEN pool.refs[r]
                             ELSE IF 0 < puts /\ pool.refs[r] =< puts THEN 0
                             ELSE pool.refs[r] - puts
      BY PoolAfterAll DEF AppInv
    <2>2. pool.refs[r] = users + puts /\ (r \in pool.free <=> pool.refs[r] = 0)
      BY DEF RmidInv, RmidsCounted
    <2>3. puts \in Nat /\ users \in Nat
      BY UsingContainersType, UsingThreadsType
    <2> HIDE DEF puts, users
    <2>4. pool'.refs[r] = users /\ (r \in pool'.free <=> users = 0)
      <3>1. CASE r \in pool.free
        BY <2>1, <2>2, <2>3, <3>1
      <3>2. CASE r \notin pool.free /\ 0 < puts /\ pool.refs[r] =< puts
        BY <2>1, <2>2, <2>3, <3>2
      <3>3. CASE r \notin pool.free /\ ~(0 < puts /\ pool.refs[r] =< puts)
        BY <2>1, <2>2, <2>3, <3>3
      <3> QED  BY <3>1, <3>2, <3>3
    <2> QED  BY <2>4 DEF users
  <1>7. FirstIsAlone'
    <2> SUFFICES ASSUME NEW t \in Thread, th[t].state = "alive" PROVE AloneIfFirst(t)'
      BY <1>1 DEF FirstIsAlone
    <2>1. AloneIfFirst(t) /\ th[t].app # NoApp
      BY <1>4, SchedAppsAssumption DEF RmidInv, FirstIsAlone
    <2>2. \A g \in Cgroup : container'[g] # th[t].app
      BY <1>1, <2>1
    <2> QED  BY <1>1, <1>4, <2>1, <2>2 DEF AloneIfFirst
  <1>8. UsedApart'
    <2>1. ASSUME NEW b \in App, UsedBy(b)' PROVE UsedBy(b)
      <3>1. b # NoApp
        BY SchedAppsAssumption
      <3> QED  BY <1>1, <2>1, <3>1 DEF UsedBy
    <2> QED  BY <1>3, <2>1, ApartStays DEF RmidInv
  <1> QED  BY <1>6, <1>7, <1>8 DEF RmidInv

-----------------------------------------------------------------------------------
(* What remains leaves RMIDs alone.                                                 *)

LEMMA FreeCounts ==
    ASSUME AppInv, ~bad, RmidInv, NEW t \in Thread, pmcsched_on_free_task(t)
    PROVE  RmidInv'
  <1> DEFINE a == th[t].app
  <1>1. /\ th[t].state = "gone" /\ th' = [th EXCEPT ![t].state = "freed"]
        /\ app' = put_sched_app(app, a) /\ UNCHANGED <<container, pool>>
    BY DEF pmcsched_on_free_task
  <1>2. a \in App /\ app[a].refs > 0
    BY <1>1, ThreadHolds, HeldIsLive
  <1> HIDE DEF a
  <1>3. \A b \in App : app'[b].rmid = app[b].rmid
    <2>1. app'[a].rmid = app[a].rmid /\ \A b \in App \ {a} : app'[b] = app[b]
      BY <1>1, <1>2, PutIs DEF AppInv, TypeOK
    <2> QED  BY <2>1
  <1>4. \A u \in Thread : \/ th'[u] = th[u]
                          \/ /\ th[u].state = "gone"
                             /\ th'[u] = [th[u] EXCEPT !.state = "freed"]
    BY <1>1 DEF AppInv, TypeOK
  <1> QED  BY <1>1, <1>3, <1>4, NothingMoves

LEMMA FilesCount ==
    ASSUME AppInv, ~bad, RmidInv, NEW f \in File, FileOperation(f)
    PROVE  RmidInv'
  <1>1. UNCHANGED <<th, container, pool>>
    BY DEF FileOperation, Track, TrackGet, Untrack, Read, ReadGet
  <1>2. ASSUME NEW a \in App, app' = get_sched_app(app, a)
        PROVE  \A b \in App : app'[b].rmid = app[b].rmid
    <2>1. app'[a].rmid = app[a].rmid /\ \A b \in App \ {a} : app'[b] = app[b]
      BY <1>2, GetIs DEF AppInv, TypeOK
    <2> QED  BY <2>1
  <1>3. CASE Track(f) \/ \E t \in Thread : Read(f, t)
    BY <1>3, <1>1, NothingMoves DEF Track, Read
  <1>4. CASE TrackGet(f)
    <2>1. file[f].found \in App /\ app' = get_sched_app(app, file[f].found)
      BY <1>4 DEF TrackGet, AppInv, TypeOK
    <2>2. \A b \in App : app'[b].rmid = app[b].rmid
      BY <1>2, <2>1
    <2> QED  BY <1>1, <2>2, NothingMoves
  <1>5. ASSUME NEW t \in Thread, ReadGet(f, t) PROVE RmidInv'
    <2>1. th[t].app \in App /\ app' = get_sched_app(app, th[t].app)
      BY <1>5, HasApp DEF ReadGet
    <2>2. \A b \in App : app'[b].rmid = app[b].rmid
      BY <1>2, <2>1
    <2> QED  BY <1>1, <2>2, NothingMoves
  <1>6. CASE Untrack(f)
    <2> DEFINE a == file[f].app
    <2>1. a # NoApp /\ app' = put_sched_app(app, a)
      BY <1>6 DEF Untrack
    <2>2. a \in App /\ app[a].refs > 0
      BY <2>1, FileHolds, HeldIsLive
    <2> HIDE DEF a
    <2>3. app'[a].rmid = app[a].rmid /\ \A b \in App \ {a} : app'[b] = app[b]
      BY <2>1, <2>2, PutIs DEF AppInv, TypeOK
    <2>4. \A b \in App : app'[b].rmid = app[b].rmid
      BY <2>3
    <2> QED  BY <1>1, <2>4, NothingMoves
  <1> QED  BY <1>3, <1>4, <1>5, <1>6 DEF FileOperation

LEMMA RmidInvAtFirst ==
    ASSUME Init
    PROVE  RmidInv
  <1>1. ASSUME NEW r \in Rmid
        PROVE  Cardinality(UsingThreads(r)) = 0 /\ Cardinality(UsingContainers(r)) = 0
    <2>1. UsingThreads(r) = {} /\ UsingContainers(r) = {}
      BY DEF Init, UsingThreads, UsingContainers, LeavesRmid
    <2> QED  BY <2>1, FS_EmptySet
  <1>2. RmidsCounted
    <2>1. \A r \in Rmid : pool.refs[r] = 0 /\ r \in pool.free
      BY DEF Init
    <2> QED  BY <1>1, <2>1 DEF RmidsCounted
  <1>3. FirstIsAlone
    BY DEF Init, FirstIsAlone
  <1>4. UsedApart
    <2>1. \A a \in App : ~UsedBy(a)
      BY SchedAppsAssumption DEF Init, UsedBy
    <2> QED  BY <2>1 DEF UsedApart
  <1> QED  BY <1>2, <1>3, <1>4 DEF RmidInv

LEMMA RmidInvIsKept ==
    ASSUME AppInv, Ordinary, RmidInv, Started, [Next]_vars
    PROVE  RmidInv'
  <1>1. CASE UNCHANGED vars
    BY <1>1, NothingMoves DEF vars
  <1>2. ASSUME ~bad, NEW t \in Thread, Callbacks(t) PROVE RmidInv'
    BY <1>2, ForkCounts, SwitchInCounts, ExitCounts, FreeCounts, SetEnabledCounts DEF Callbacks
  <1>3. ASSUME ~bad, SetScheduler \/ SetPeriods PROVE RmidInv'
    <2>1. UNCHANGED <<app, th, container, pool>>
      BY <1>3 DEF SetScheduler, SetPeriods, Ordinary, Harmless
    <2> QED  BY <2>1, NothingMoves
  <1>4. ASSUME ~bad, pmcsched_proc_write PROVE RmidInv'
    BY <1>3, <1>4, RegisterCounts, UnregisterCounts, UnregisterAllCounts DEF pmcsched_proc_write
  <1>5. ASSUME ~bad, NEW f \in File, FileOperation(f) PROVE RmidInv'
    BY <1>5, FilesCount DEF FileOperation
  <1> QED  BY <1>1, <1>2, <1>4, <1>5 DEF Next

-----------------------------------------------------------------------------------
(* Applications that were used once.                                                *)

LEMMA ChangeIsOnce ==
    ASSUME AppInv, NEW a \in App,
           app' = get_sched_app(app, a) \/ (app[a].refs > 0 /\ app' = put_sched_app(app, a))
    PROVE  \A b \in App : app[b].state # "unused" => app'[b].state # "unused"
  <1>1. app \in [App -> sched_app_t]
    BY DEF AppInv, TypeOK
  <1>2. CASE app' = get_sched_app(app, a)
    <2>1. app'[a].state = app[a].state /\ \A b \in App \ {a} : app'[b] = app[b]
      BY <1>1, <1>2, GetIs
    <2> QED  BY <2>1
  <1>3. CASE app[a].refs > 0 /\ app' = put_sched_app(app, a)
    <2>1. /\ app'[a].state = "freed" \/ app'[a].state = app[a].state
          /\ \A b \in App \ {a} : app'[b] = app[b]
      BY <1>1, <1>3, PutIs
    <2> QED  BY <2>1
  <1> QED  BY <1>2, <1>3

\* An application that was used is never one that was not.
LEMMA UsedOnce ==
    ASSUME AppInv, [Next]_vars
    PROVE  \A b \in App : app[b].state # "unused" => app'[b].state # "unused"
  <1>0. app \in [App -> sched_app_t]
    BY DEF AppInv, TypeOK
  <1>1. CASE UNCHANGED app
    BY <1>1
  <1>2. ASSUME ~bad, NEW t \in Thread, pmcsched_on_fork(t)
        PROVE  \A b \in App : app[b].state # "unused" => app'[b].state # "unused"
    <2>1. ASSUME NEW a \in App, app' = get_sched_app(app, a)
          PROVE  \A b \in App : app[b].state # "unused" => app'[b].state # "unused"
      BY <2>1, ChangeIsOnce
    <2>2. ASSUME NEW a \in App, app' = Created(app, a)
          PROVE  \A b \in App : app[b].state # "unused" => app'[b].state # "unused"
      BY <1>0, <2>2, CreatedIs
    <2> QED  BY <1>2, <2>1, <2>2, ForkIs DEF JoinsApp, Unused
  <1>3. ASSUME ~bad, NEW t \in Thread, pmcsched_on_switch_in(t) \/ pmcsched_on_exit(t)
        PROVE  \A b \in App : app[b].state # "unused" => app'[b].state # "unused"
    <2>1. th[t].state = "alive" /\ (app' = app \/ \E x \in __give_rmid(t) : app' = x[2])
      BY <1>3 DEF pmcsched_on_switch_in, pmcsched_on_exit
    <2>2. th[t].app \in App
      BY <2>1, HasApp
    <2>3. CASE app' = app
      BY <2>3
    <2>4. ASSUME NEW x \in __give_rmid(t), app' = x[2], app' # app
          PROVE  \A b \in App : app[b].state # "unused" => app'[b].state # "unused"
      <3>1. PICK r \in Takeable : app' = [app EXCEPT ![th[t].app].rmid = r]
        BY <2>4, GiveIs
      <3>2. r \in Rmid \cup {0}
        BY TakeableIs DEF AppInv
      <3> QED  BY <1>0, <2>2, <3>1, <3>2, RmidSetIs
    <2> QED  BY <2>1, <2>3, <2>4
  <1>4. ASSUME ~bad, NEW t \in Thread, pmcsched_on_free_task(t)
        PROVE  \A b \in App : app[b].state # "unused" => app'[b].state # "unused"
    <2>1. th[t].state = "gone" /\ app' = put_sched_app(app, th[t].app)
      BY <1>4 DEF pmcsched_on_free_task
    <2>2. th[t].app \in App /\ app[th[t].app].refs > 0
      BY <2>1, <1>4, ThreadHolds, HeldIsLive
    <2> QED  BY <2>1, <2>2, ChangeIsOnce
  <1>5. ASSUME ~bad, NEW g \in Cgroup, pmcsched_register_container(g), app' # app
        PROVE  \A b \in App : app[b].state # "unused" => app'[b].state # "unused"
    <2> DEFINE a == CHOOSE x \in Unused : TRUE
    <2>1. Unused # {} /\ \E r \in Takeable : app' = [Created(app, a) EXCEPT ![a].rmid = r]
      BY <1>5 DEF pmcsched_register_container
    <2>2. a \in App
      BY <2>1 DEF Unused
    <2> HIDE DEF a
    <2>3. PICK r \in Takeable : app' = [Created(app, a) EXCEPT ![a].rmid = r]
      BY <2>1
    <2>4. r \in Rmid \cup {0}
      BY TakeableIs DEF AppInv
    <2>5. app'[a].state = "live" /\ \A b \in App \ {a} : app'[b] = app[b]
      BY <2>2, <2>3, <2>4, RegisteredIs
    <2> QED  BY <2>5
  <1>6. ASSUME ~bad, NEW g \in Cgroup, pmcsched_unregister_container(g)
        PROVE  \A b \in App : app[b].state # "unused" => app'[b].state # "unused"
    <2>1. container[g] # NoApp /\ app' = put_sched_app(app, container[g])
      BY <1>6 DEF pmcsched_unregister_container, pmcsched_free_container
    <2>2. container[g] \in App /\ app[container[g]].refs > 0
      BY <1>6, <2>1, ContainerHolds, HeldIsLive
    <2> QED  BY <2>1, <2>2, ChangeIsOnce
  <1>7. ASSUME ~bad, pmcsched_unregister_all_containers, NEW b \in App, app[b].state # "unused"
        PROVE  app'[b].state # "unused"
    <2> DEFINE all == {container[g] : g \in Cgroup} \ {NoApp}
    <2>1. app' = [a \in App |-> IF a \in all THEN put_sched_app(app, a)[a] ELSE app[a]]
      BY <1>7 DEF pmcsched_unregister_all_containers
    <2>2. b \in all => app[b].refs > 0
      BY <1>7, ContainerHolds, HeldIsLive
    <2> HIDE DEF all
    <2>3. b \in all => put_sched_app(app, b)[b].state \in {"freed", app[b].state}
      BY <1>0, <2>2, PutIs
    <2> QED  BY <1>7, <2>1, <2>3
  <1>8. ASSUME ~bad, NEW f \in File, FileOperation(f), app' # app
        PROVE  \A b \in App : app[b].state # "unused" => app'[b].state # "unused"
    <2>1. CASE TrackGet(f)
      <3>1. file[f].found \in App /\ app' = get_sched_app(app, file[f].found)
        BY <2>1 DEF TrackGet, AppInv, TypeOK
      <3> QED  BY <3>1, ChangeIsOnce
    <2>2. ASSUME NEW t \in Thread, ReadGet(f, t)
          PROVE  \A b \in App : app[b].state # "unused" => app'[b].state # "unused"
      <3>1. th[t].app \in App /\ app' = get_sched_app(app, th[t].app)
        BY <2>2, HasApp DEF ReadGet
      <3> QED  BY <3>1, ChangeIsOnce
    <2>3. CASE Untrack(f)
      <3>1. file[f].app # NoApp /\ app' = put_sched_app(app, file[f].app)
        BY <2>3 DEF Untrack
      <3>2. file[f].app \in App /\ app[file[f].app].refs > 0
        BY <1>8, <3>1, FileHolds, HeldIsLive
      <3> QED  BY <3>1, <3>2, ChangeIsOnce
    <2> QED  BY <1>8, <2>1, <2>2, <2>3 DEF FileOperation, Track, Read
  <1>9. ASSUME ~bad, NEW t \in Thread, Callbacks(t), app' # app
        PROVE  \A b \in App : app[b].state # "unused" => app'[b].state # "unused"
    BY <1>9, <1>2, <1>3, <1>4 DEF Callbacks, SetEnabled
  <1>10. ASSUME ~bad, pmcsched_proc_write, app' # app
         PROVE  \A b \in App : app[b].state # "unused" => app'[b].state # "unused"
    BY <1>10, <1>5, <1>6, <1>7 DEF pmcsched_proc_write, SetScheduler, SetPeriods
  <1> QED  BY <1>1, <1>8, <1>9, <1>10 DEF Next, vars

LEMMA StartedIsKept ==
    ASSUME AppInv, Started, [Next]_vars
    PROVE  Started'
  <1> SUFFICES ASSUME NEW t \in Thread, th'[t].state # "none"
               PROVE  app'[th'[t].app].state # "unused"
    BY DEF Started
  <1>1. CASE th[t].state # "none" /\ th'[t].app = th[t].app
    BY <1>1, HasApp, UsedOnce DEF Started
  <1>2. CASE th[t].state = "none" \/ th'[t].app # th[t].app
    <2>0. th'[t] # th[t] /\ th[t] \in pmcsched_thread_data_t
      BY <1>2 DEF AppInv, TypeOK
    <2>1. ~bad /\ Next
      BY <2>0 DEF Next, vars
    <2>2. PICK u \in Thread : Callbacks(u)
      BY <2>0, <2>1 DEF Next, pmcsched_proc_write, pmcsched_register_container,
            pmcsched_unregister_container, pmcsched_unregister_all_containers,
            SetScheduler, SetPeriods, FileOperation, Track, TrackGet, Untrack, Read, ReadGet
    <2>3. pmcsched_on_fork(t)
      <3>1. CASE u # t
        <4>1. th'[t] = th[t]
          BY <2>2, <3>1 DEF Callbacks, pmcsched_on_fork, NewProcess, NewThread, Refused,
               JoinsApp, pmcsched_on_switch_in, pmcsched_on_exit, pmcsched_on_free_task,
               SetEnabled, AppInv, TypeOK
        <4> QED  BY <2>0, <4>1
      <3>2. CASE u = t
        <4>1. ~pmcsched_on_fork(t) => th[t].state # "none" /\ th'[t].app = th[t].app
          BY <2>0, <2>2, <3>2 DEF Callbacks, pmcsched_on_switch_in, pmcsched_on_exit,
               pmcsched_on_free_task, SetEnabled, AppInv, TypeOK, pmcsched_thread_data_t
        <4> QED  BY <1>2, <4>1
      <3> QED  BY <3>1, <3>2
    <2>4. ASSUME NEW a \in App, NEW state \in {"alive", "refused"},
                 NEW first \in {"no", "container_no", "container_yes"}, NEW on \in BOOLEAN,
                 JoinsApp(t, a, state, first, on), app[a].state = "live"
          PROVE  app'[th'[t].app].state # "unused"
      <3>1. th'[t].app = a
        BY <2>4, JoinIs DEF AppInv, TypeOK
      <3> QED  BY <2>4, <3>1, UsedOnce
    <2>5. ASSUME NEW a \in Unused, NEW r \in pmcsched_thread_data_t, r.app = a,
                 th' = [th EXCEPT ![t] = r], app' = Created(app, a)
          PROVE  app'[th'[t].app].state # "unused"
      <3>1. th'[t].app = a /\ a \in App
        BY <2>5 DEF AppInv, TypeOK, Unused
      <3> QED  BY <2>5, <3>1, CreatedIs DEF AppInv, TypeOK
    <2> QED  BY <2>1, <2>3, <2>4, <2>5, ForkIs
  <1> QED  BY <1>1, <1>2

-----------------------------------------------------------------------------------
(***********************************************************************************)
(* The invariants.                                                                  *)
(***********************************************************************************)

Inv == AppInv /\ Started /\ (Ordinary => RmidInv)

LEMMA InvAlways == Spec => []Inv
  <1>1. Init => Inv
    <2>1. Init => Started
      BY DEF Started, Init
    <2> QED  BY <2>1, AppInvAtFirst, RmidInvAtFirst DEF Inv
  <1>2. ASSUME Inv, [Next]_vars PROVE Inv'
    <2>1. AppInv'
      BY <1>2, AppInvIsKept DEF Inv
    <2>2. setup' = setup
      BY <1>2 DEF Next, vars, Callbacks, pmcsched_on_fork, pmcsched_on_switch_in,
                  pmcsched_on_exit, pmcsched_on_free_task, SetEnabled,
                  pmcsched_proc_write, pmcsched_register_container,
                  pmcsched_unregister_container, pmcsched_unregister_all_containers,
                  SetScheduler, SetPeriods, FileOperation, Track, TrackGet, Untrack, Read,
                  ReadGet
    <2>3. Ordinary' => Ordinary
      BY <2>2 DEF Ordinary, Harmless
    <2>4. Ordinary' => RmidInv'
      BY <1>2, <2>3, RmidInvIsKept DEF Inv
    <2>5. Started'
      BY <1>2, StartedIsKept DEF Inv
    <2> QED  BY <2>1, <2>4, <2>5 DEF Inv
  <1>3. Inv /\ [Next]_vars => Inv'
    BY <1>2
  <1> QED  BY <1>1, <1>3, PTL DEF Spec

LEMMA RefsAreHolders ==
    ASSUME AppInv
    PROVE  AppRefsAreHolders
  <1> SUFFICES ASSUME Harmless({"shared", "race", "again"}), NEW a \in App
               PROVE  /\ app[a].refs = Holders(a)
                      /\ app[a].state = "live" <=> Holders(a) > 0
    BY DEF AppRefsAreHolders
  <1>1. "shared" \notin setup /\ Harmless({"race", "again"})
    BY DEF Harmless
  <1>2. app[a].refs = Holders(a)
    BY <1>1 DEF AppInv, RefsCover
  <1>3. ~bad
    BY <1>1 DEF AppInv, NothingBad
  <1>4. app[a].state = "live" <=> app[a].refs > 0
    BY <1>3 DEF AppInv, LiveIsCounted
  <1> QED  BY <1>2, <1>4

LEMMA FilesHold ==
    ASSUME AppInv
    PROVE  FilesHoldLiveApps
  <1> SUFFICES ASSUME Harmless({"race", "again"}), NEW f \in File,
                      NEW a \in {file[f].app, file[f].found} \ {NoApp}
               PROVE  app[a].state = "live"
    BY DEF FilesHoldLiveApps, Freed
  <1>1. ~bad /\ "race" \notin setup
    BY DEF AppInv, NothingBad, Harmless
  <1>2. CASE a = file[f].app
    BY <1>1, <1>2, FileHolds
  <1>3. CASE a = file[f].found
    BY <1>1, <1>3 DEF AppInv, FoundIsLive
  <1> QED  BY <1>2, <1>3

LEMMA RmidsAreUsed ==
    ASSUME AppInv, Ordinary => RmidInv
    PROVE  RmidRefsAreUsers /\ RmidsAreApart
  <1>1. RmidRefsAreUsers
    BY DEF RmidRefsAreUsers, Ordinary, RmidInv, RmidsCounted
  <1>2. RmidsAreApart
    <2> DEFINE used == {th[t].app : t \in {u \in Thread : th[u].state = "alive" /\ th[u].enabled}}
                         \cup ({container[g] : g \in Cgroup} \ {NoApp})
    <2>1. ASSUME NEW a \in used PROVE a \in App /\ UsedBy(a)
      <3>1. CASE \E g \in Cgroup : container[g] = a /\ a # NoApp
        BY <3>1 DEF UsedBy, AppInv, TypeOK
      <3>2. ASSUME NEW t \in Thread, th[t].state = "alive" /\ th[t].app = a
            PROVE  a \in App /\ UsedBy(a)
        BY <3>2, HasApp DEF UsedBy
      <3> QED  BY <3>1, <3>2
    <2> HIDE DEF used
    <2>2. Ordinary => \A a, b \in used : a # b /\ app[a].rmid # 0 => app[a].rmid # app[b].rmid
      BY <2>1 DEF RmidInv, UsedApart
    <2> QED  BY <2>2 DEF RmidsAreApart, Ordinary, used
  <1> QED  BY <1>1, <1>2

\* An application of the scheduler lasts as long as a thread, a container or a file refers
\* to it, and no longer; its RMID is in use as long as it has users; and no two applications
\* in use have the same: for any number of threads, control groups, files and RMIDs.
THEOREM AppsAndRmidsAreAlwaysHeld == Spec => []AppsAndRmidsAreHeld
  <1>1. Inv => AppsAndRmidsAreHeld
    BY RefsAreHolders, RmidsAreUsed, FilesHold DEF Inv, AppsAndRmidsAreHeld, AppInv
  <1> QED  BY <1>1, InvAlways, PTL

\* Whatever the order of callbacks, of writes to /proc/pmc/sched and of operations on files
\* of sched_qos, even of two threads on one file, no freed application is used, unless one
\* can go away while a file finds it or a container is registered twice.
THEOREM WildPointersAreNeverFollowed ==
    Spec => [](Harmless({"race", "again"}) => NoWildPointer)
  <1>1. Inv => (Harmless({"race", "again"}) => NoWildPointer)
    BY DEF Inv, AppInv, NothingBad, NoWildPointer
  <1> QED  BY <1>1, InvAlways, PTL
=====================================================================================
