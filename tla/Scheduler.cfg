SPECIFICATION SchedulerSpec
CONSTANTS
    Thread = {s1, s2}
    Cgroup = {g1}
    CgroupOf <- McCgroupOf
    App = {q1, q2, q3}
    File = {f1}
    Rmid = {1, 2}
    NoApp = NoApp
    Setups <- McSetups
    Listed = {t1, t2}
    ListedApp = {a1}
    t1 = t1  t2 = t2  a1 = a1
    Big = Big  Small = Small  NoGroup = NoGroup
    NrCpus <- McNrCpus
INVARIANTS
    GroupListsAreSound
    AppsAndRmidsAreHeld
PROPERTY MigrationCompletes
CHECK_DEADLOCK FALSE
