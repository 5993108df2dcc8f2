------------------------------- MODULE MCHardware -------------------------------
(* What monitoring modules and schedulers hold and drive besides the counters, each   *)
(* component by itself: the RMIDs of RDT, the partitions of the cache, the devices     *)
(* that measure energy, and the ring their samples are kept in.  The first step         *)
(* chooses one; the others stay as they are.                                            *)
EXTENDS RmidPool, Devices, CBuffer

CONSTANTS
    App, NrCos, NrWays, MaxStreaming, StreamPartSize, Collide, MaxClusters  \* CacheClustering

VARIABLES
    partSetup, parts, assigned, free, dflt, bouncing, cat, papp, workload, algorithm, result

-----------------------------------------------------------------------------------
(* Values of the constants.                                                         *)

Policies == {"RMID_FIFO", "RMID_LIFO", "RMID_RANDOM"}

McMeterSetups == {{"module"}, {"files"}, {"module", "files"}, {"unplug", "module"},
                  {"unplug", "files"}, {"refuse", "module"}, {"refuse", "files"}}
McUnplugged == {{"unplug", "module"}}
McWatts == {-1, 2}
McSensorSetups == {{}, {"others"}, {"bare"}, {"fails"}, {"attach"}}
McPartSetups == {{"auto"}, {"clusters"}, {"clusters", "external"}}
McModes == {"legacy", "plus", "even", "nopart", "weighted", "trivial", "equal", "intensive"}

\* Applications: one that gains much by its first ways, one that gains little, one
\* that gains at once what it gains, and one that hardly gains; and those that gain
\* nothing, light or streaming, whose streaming may be isolated.
Sensitive(sensitivity, curve, space) ==
    [class |-> "sensitive", special |-> FALSE, sensitivity |-> sensitivity,
     curve |-> curve, space |-> space]
Slow == <<9, 7, 5, 4, 3>>
Fast == <<30, 12, 6, 3, 2>>
Steep == Sensitive(30, <<1900, 1500, 1250, 1100, 1050>>, Slow)
Mild == Sensitive(6, <<1300, 1200, 1100, 1050, 1000>>, Fast)
Cliff == Sensitive(12, <<1600, 1590, 1580, 1000, 1000>>, Fast)
Flat == Sensitive(4, <<1040, 1030, 1020, 1010, 1000>>, Slow)
Insensitive(class, special) ==
    [class |-> class, special |-> special, sensitivity |-> 0, curve |-> <<1000>>, space |-> <<1>>]
Light == Insensitive("light", FALSE)
Stream == Insensitive("streaming", FALSE)
Isolated == Insensitive("streaming", TRUE)
McWorkloads == {<<Steep, Mild, Cliff>>, <<Flat, Flat, Mild>>, <<Mild, Stream, Light>>,
                <<Steep, Stream, Isolated>>, <<Cliff, Light, Light>>}

CC == INSTANCE CacheClustering WITH pool <- parts, mode <- algorithm, Modes <- McModes,
                                    PartSetups <- McPartSetups, Workloads <- McWorkloads

-----------------------------------------------------------------------------------
cacheVars == <<partSetup, parts, assigned, free, dflt, bouncing, cat, papp,
               workload, algorithm, result>>

NoCache == /\ partSetup = Unused /\ parts = Unused /\ assigned = Unused /\ free = Unused
           /\ dflt = Unused /\ bouncing = Unused /\ cat = Unused /\ papp = Unused
           /\ workload = Unused /\ algorithm = Unused /\ result = Unused
\* The ring is there, and empty.
NoRing == create_cbuffer_t /\ client = "reader"

HardwareInit ==
    /\ Init
    /\ \/ subject = "rmids" /\ NoCache /\ NoDevices /\ NoRing
       \/ subject = "cache" /\ CC!InitClustering /\ NoDevices /\ NoRing
       \/ DevicesInit /\ NoCache /\ NoRing
       \/ subject = "ring" /\ create_cbuffer_t /\ NoCache /\ NoDevices

HardwareNext ==
    \/ /\ subject = "rmids" /\ Next
       /\ UNCHANGED <<subject, cacheVars, deviceVars, ringVars>>
    \/ /\ subject = "cache" /\ CC!NextClustering
       /\ UNCHANGED <<subject, vars, deviceVars, ringVars>>
    \/ DevicesNext /\ UNCHANGED <<vars, cacheVars, ringVars>>
    \/ /\ subject = "ring" /\ RingNext
       /\ UNCHANGED <<subject, vars, cacheVars, deviceVars>>

HardwareSpec ==
    HardwareInit /\ [][HardwareNext]_<<subject, vars, cacheVars, deviceVars, ringVars>>

-----------------------------------------------------------------------------------
\* cache_partitioning.c and cache_part_set.c: a division gives every application ways of
\* its own or of its cluster, no way to two, none to nobody; and it is what is enforced,
\* by partitions that are accounted for, tile the cache, and are what the processor has
\* been told.
CacheIsDivided == subject = "cache" => CC!PartitionsAreSound /\ CC!CacheIsDivided
==================================================================================
