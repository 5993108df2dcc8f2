-------------------------------- MODULE MCProfiles --------------------------------
(* What is done to the profile of a thread: its events are counted and sampled as it  *)
(* runs (ThreadCounting), monitors attach to it and detach (AttachDetach), and         *)
(* monitoring modules keep their data in it (MonitoringModules).  The three share no   *)
(* variable; the first step chooses one, and the others stay as they are.              *)
EXTENDS ThreadCounting, AttachDetach, MonitoringModules, TLC

VARIABLE subject    \* "counting", "sessions" or "modules"

-----------------------------------------------------------------------------------
(* Values of the constants.  Machines and requests: CPU 1 is of core type 1 on a      *)
(* Mixed machine, and of core type 0, like CPU 0, on a Uniform one.                   *)

Mixed   == {1}
Uniform == {}
Single  == [ct \in {0, 1} |-> 1]
Several == [ct \in {0, 1} |-> 2]

Request(big, exps, md, period, wk) ==
    [bigCpu |-> big, nrExps |-> exps, mode |-> md, nticks |-> period, wakes |-> wk]

SchedMixed    == Request(Mixed, Single, "TBS_SCHED_MODE", 2, TRUE)
SchedMixedTick == Request(Mixed, Single, "TBS_SCHED_MODE", 1, FALSE)
UserUniform   == Request(Uniform, Single, "TBS_USER_MODE", 1, TRUE)
UserInTurns   == Request(Uniform, Several, "TBS_USER_MODE", 1, FALSE)

Regular == {SchedMixed, SchedMixedTick, UserUniform, UserInTurns}

(* What the administrator of modules does.  Reinitializing changes what the modules   *)
(* hold and nothing that hooks look at.                                                *)
Activating == {"activate"}
Replacing  == {"activate", "deactivate"}
Every      == {Activating, Replacing, {"deactivate", "reinitialize"}}

TaskSymmetry == Permutations(Task)

(* For the disagreements described in the README: one circumstance at a time, in      *)
(* place of Regular ...                                                               *)
Waking == {Request(Uniform, Several, "TBS_USER_MODE", 1, TRUE)}
Timer  == {Request(Mixed, Single, "TBS_USER_MODE", 1, FALSE)}
Stale  == {Request(Uniform, Single, "TBS_SCHED_MODE", 1, FALSE)}
Reattach == {SchedMixedTick}

(* ... and in place of Every.                                                         *)
Plain    == {Activating}
Stopping == {Replacing}
Reinit   == {{"activate", "reinitialize"}}

-----------------------------------------------------------------------------------
ProfilesInit ==
    /\ Init /\ AttachInit /\ ModulesInit
    /\ subject \in {"counting", "sessions", "modules"}
    /\ subject # "counting" => setup = CHOOSE s \in Setups : TRUE
    /\ subject # "sessions" => ~overlap
    /\ subject # "modules" => commands = CHOOSE c \in Repertoires : TRUE

ProfilesNext ==
    /\ UNCHANGED subject
    /\ \/ subject = "counting" /\ Next /\ UNCHANGED <<attachVars, moduleVars>>
       \/ subject = "sessions" /\ AttachNext /\ UNCHANGED <<vars, moduleVars>>
       \/ subject = "modules" /\ ModulesNext /\ UNCHANGED <<vars, attachVars>>

ProfilesSpec == ProfilesInit /\ [][ProfilesNext]_<<subject, vars, attachVars, moduleVars>>
===================================================================================
