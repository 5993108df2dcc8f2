------------------------------- MODULE MCScheduler -------------------------------
(* The two halves of the scheduler framework, each by itself: applications, for two   *)
(* threads of a control group that is registered and unregistered again and again,     *)
(* while structures last; and the lists of groups, on two CPUs of the big group and    *)
(* one of the small one, for two threads of an application, one of them where the      *)
(* group plugin meets anything.  The half that is not the subject stays as it began.   *)
EXTENDS SchedApps

CONSTANTS
    t1, t2, a1,
    Listed, ListedApp, Big, Small, NoGroup, NrCpus     \* SchedGroups

VARIABLES
    subject,    \* "groups" or "apps"
    circumstances, l, d, run, where, allowed, enabled, woken, kthread

-----------------------------------------------------------------------------------
McAppOf == [t \in Listed |-> a1]
McNrCpus == [g \in {Big, Small} |-> IF g = Big THEN 2 ELSE 1]
FewBigCores == [g \in {Big, Small} |-> IF g = Big THEN 1 ELSE 2]

Steady == [exist |-> Listed, plugin |-> "group", hooked |-> TRUE, steady |-> TRUE,
           detaches |-> FALSE]
Unsteady == [Steady EXCEPT !.steady = FALSE]
McGroupSetups ==
    {[c EXCEPT !.plugin = "busybcs"] : c \in {Steady, Unsteady}}
      \cup {Steady, [Unsteady EXCEPT !.exist = {t1}]}
      \cup {[Unsteady EXCEPT !.exist = {t1}, !.plugin = "busybcs", !.detaches = TRUE]}

\* One circumstance at a time, in place of McGroupSetups ...
UserMode == {[Steady EXCEPT !.hooked = FALSE]}
OnlyUnsteady == {Unsteady}
OnlyBusybcs == {[Steady EXCEPT !.plugin = "busybcs"]}

McCgroupOf == [t \in Thread |-> CHOOSE g \in Cgroup : TRUE]
McSetups == {{"detach", "refused"}, {"early"}, {"dirty"}, {"change"}, {"again"},
             {"race", "invalid"}}

\* ... or of McSetups.
Shared == {{"shared"}}
Dirty == {{"dirty"}}
Early == {{"early"}}
Change == {{"change"}}
Race == {{"race"}}
Again == {{"again"}}
Invalid == {{"invalid"}}

SG == INSTANCE SchedGroups WITH Thread <- Listed, App <- ListedApp, AppOf <- McAppOf,
                                setup <- circumstances, Setups <- McGroupSetups

ASSUME GroupsAssumption == SG!SchedGroupsAssumption

-----------------------------------------------------------------------------------
groupVars == <<circumstances, l, d, run, where, allowed, enabled, woken, kthread>>

SchedulerInit ==
    /\ Init /\ SG!Init
    /\ \/ subject = "groups" /\ setup = CHOOSE s \in Setups : TRUE
       \/ subject = "apps" /\ circumstances = Steady

SchedulerNext ==
    /\ UNCHANGED subject
    /\ \/ subject = "groups" /\ SG!Next /\ UNCHANGED vars
       \/ subject = "apps" /\ Next /\ UNCHANGED groupVars

\* SchedGroups' own fairness, in the behaviours that are about groups.
SchedulerFairness ==
    /\ \A t \in Listed :
         /\ SF_groupVars(subject = "groups" /\ ~l.bad /\ SG!SwitchIn(t))
         /\ WF_groupVars(subject = "groups" /\ ~l.bad /\ (SG!Joins(t) \/ SG!Preempt(t) \/ SG!Die(t)))
    /\ \A g \in SG!Group : WF_groupVars(subject = "groups" /\ ~l.bad /\ SG!Kthread(g))

SchedulerSpec ==
    /\ SchedulerInit
    /\ [][SchedulerNext]_<<subject, vars, groupVars>>
    /\ SchedulerFairness

-----------------------------------------------------------------------------------
\* The lists of groups are exact, and lead to no thread that was freed: group_plugin.c
\* and busybcs_plugin.c keep them in the hooks of pmcsched.c, with locks and without.
GroupListsAreSound == SG!ListsAreExact /\ SG!ListsLeadToLiveThreads

\* A migration that was requested is completed in the end (SchedGroups).
MigrationCompletes == SG!MigrationCompletes

\* The walk of a kernel thread over its local list reads no thread that was freed.
CursorIsAlive == SG!CursorIsAlive
==================================================================================
