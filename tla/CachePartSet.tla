------------------------------ MODULE CachePartSet ------------------------------
(***********************************************************************************)
(* Partitions of the last-level cache (cache_part_set.c).  A partition owns a class *)
(* of service (CLOS) for good, and a range of ways for as long as it is assigned.   *)
(* Partitions are either resized by this file whenever one comes or goes, or        *)
(* given their ways by a clustering algorithm (CacheClustering), which decides      *)
(* which of the applications share a partition.                                     *)
(***********************************************************************************)
EXTENDS Integers, Sequences, FiniteSets, SequencesExt

CONSTANTS
    App,          \* applications
    NrCos,        \* cat_nr_cos_available: CLOS 0 is that of everybody else
    NrWays,       \* cat_cbm_length
    PartSetups    \* who divides the cache, and who owns the CLOSes, sets of strings:
                  \* "auto"     partitions are resized when one comes or goes
                  \* "clusters" a clustering algorithm is enforced
                  \* "external" applications have a CLOS of their own

VARIABLES
    partSetup,
    pool,       \* partition_pool: low_way, nr_ways, part_id, nr_apps, has_extra_way
    assigned,   \* assigned_partitions, in order
    free,       \* free_partitions
    dflt,       \* default_partition
    bouncing,   \* nr_bouncing_ways
    cat,        \* capacity masks of the partitions' CLOSes, in the processor
    papp        \* cat_partition, last_partition, is the CLOS that of the partition?
                \* last_llc_cbm, and the capacity mask of the application's own CLOS
partVars == <<partSetup, pool, assigned, free, dflt, bouncing, cat, papp>>

NoPart == -1
Part == 0 .. NrCos - 2
PartSetup(what) == what \in partSetup

\* determine_part_mask, as a set of ways.
Mask(P, p) == P[p].low .. P[p].low + P[p].ways - 1

init_cache_part_set ==
    /\ pool = [p \in Part |-> [low |-> 0, ways |-> NrWays, id |-> -1, apps |-> 0,
                               extra |-> FALSE]]
    /\ assigned = <<>>
    /\ free = [n \in 1 .. NrCos - 1 |-> n - 1]
    /\ dflt = NoPart
    /\ bouncing = 0

InitParts ==
    /\ partSetup \in PartSetups
    /\ init_cache_part_set
    /\ cat = [p \in Part |-> 0 .. NrWays - 1]
    /\ papp = [a \in App |-> [part |-> NoPart, last |-> -1, cos |-> NoPart, cbm |-> {},
                              own |-> 0 .. NrWays - 1]]

-----------------------------------------------------------------------------------
(* The ways of the partitions, when they are to be equal.                           *)

\* The positions that get one way more: the neighbours of the gap first, as long as
\* the quota of theirs lasts, then anybody the walk over the list meets.
WithExtra(order, near, gap, quota, rest) ==
    FoldLeft(LAMBDA s, n :
                IF s.quota > 0 /\ n \in near
                THEN [s EXCEPT !.extra = @ \cup {n}, !.quota = @ - 1]
                ELSE IF s.rest > 0 /\ n \notin gap
                     THEN [s EXCEPT !.extra = @ \cup {n}, !.rest = @ - 1]
                     ELSE s,
             [extra |-> {}, quota |-> quota, rest |-> rest], order).extra

\* New ranges for the partitions of a list, whose walk starts at the low or at the
\* high ways.
Resized(P, list, near, gap, atEnd, ascending) ==
    LET n == Len(list)
        rest == NrWays % n
        quota == IF atEnd THEN 0 ELSE IF rest < 2 THEN rest ELSE 2
        upwards == [k \in 1 .. n |-> k - 1]
        extra == WithExtra(IF ascending THEN upwards ELSE Reverse(upwards), near, gap,
                           quota, rest - quota)
        size == [k \in 0 .. n - 1 |-> (NrWays \div n) + (IF k \in extra THEN 1 ELSE 0)]
        below[k \in 0 .. n] == IF k = 0 THEN 0 ELSE below[k - 1] + size[k - 1]
        low(k) == IF ascending THEN below[k] ELSE NrWays - (below[n] - below[k])
        at(p) == (CHOOSE k \in 1 .. n : list[k] = p) - 1
    IN  [p \in Part |->
            IF Contains(list, p)
            THEN [P[p] EXCEPT !.low = low(at(p)), !.ways = size[at(p)], !.id = at(p),
                              !.extra = at(p) \in extra]
            ELSE P[p]]

\* The masks of the partitions of a list reach the processor.
Written(list, P) == [p \in Part |-> IF Contains(list, p) THEN Mask(P, p) ELSE cat[p]]

-----------------------------------------------------------------------------------
(* Partitions that come and go.                                                     *)

\* The gaps that suit a new partition: any inner one if all partitions are equal,
\* else the first of those whose neighbours have most ways to spare.
suitable_place_for_insertion ==
    LET inner == 1 .. Len(assigned) - 1
        bias(n) == pool[assigned[n]].ways + pool[assigned[n + 1]].ways
        best == {n \in inner : \A k \in inner : bias(k) <= bias(n)}
    IN  IF NrWays % Len(assigned) = 0
        THEN inner
        ELSE {CHOOSE n \in best : \A k \in best : n <= k}

InsertPosition(hint) ==
    IF Len(assigned) < 2 THEN {0}
    ELSE IF hint = -1 \/ hint > Len(assigned) THEN suitable_place_for_insertion
    ELSE {hint}

do_insert_partition(p, gap) ==
    LET list == InsertAt(assigned, gap + 1, p)
        old == Len(assigned)
        P == Resized(pool, list, {gap - 1, gap + 1}, {gap}, gap = 0 \/ gap = old,
                     gap <= IF old > 1 THEN 1 ELSE 0)
    IN  /\ assigned' = list
        /\ pool' = P
        /\ bouncing' = NrWays % Len(list)
        /\ cat' = Written(list, P)

allocate_new_partition(hint) ==
    /\ PartSetup("auto")
    /\ free # <<>> /\ Len(assigned) < NrWays
    /\ \E gap \in InsertPosition(hint) : do_insert_partition(Head(free), gap)
    /\ free' = Tail(free)
    /\ UNCHANGED <<partSetup, dflt, papp>>

\* The state of the set, for functions that change it several times.
Now == [pool |-> pool, assigned |-> assigned, free |-> free, bouncing |-> bouncing,
        cat |-> cat]
Becomes(s) ==
    /\ pool' = s.pool /\ assigned' = s.assigned /\ free' = s.free
    /\ bouncing' = s.bouncing /\ cat' = s.cat

\* The partition leaves and the others share its ways: no position is excluded.
deallocate_partition(s, p) ==
    LET list == Remove(s.assigned, p)
        idx == s.pool[p].id
        P == Resized(s.pool, list, {idx - 1, idx}, {}, idx = 0 \/ idx = Len(list),
                     (s.pool[p].ways \div 2) + s.pool[p].low <= NrWays \div 2)
    IN  IF list = <<>>
        THEN [s EXCEPT !.assigned = list, !.bouncing = 0]
        ELSE [s EXCEPT !.assigned = list, !.pool = P, !.bouncing = NrWays % Len(list),
                       !.cat = [q \in Part |-> IF Contains(list, q) THEN Mask(P, q)
                                               ELSE s.cat[q]]]

\* Seeded fault: the partition is not free again.
deallocate_partition_no_resize_Forgets(s, p) == [s EXCEPT !.assigned = Remove(@, p)]

deallocate_partition_no_resize(s, p) ==
    [s EXCEPT !.assigned = Remove(@, p), !.free = <<p>> \o @]

remove_empty_partitions ==
    /\ PartSetup("auto")
    /\ \E k \in 1 .. Len(assigned) : pool[assigned[k]].apps = 0
    /\ Becomes(FoldLeft(LAMBDA s, p : IF s.pool[p].apps > 0 THEN s
                                      ELSE [deallocate_partition(s, p) EXCEPT
                                              !.free = <<p>> \o @],
                        Now, assigned))
    /\ UNCHANGED <<partSetup, dflt, papp>>

-----------------------------------------------------------------------------------
(* Applications.                                                                    *)

\* An application with a CLOS of its own: its mask is written if it is another.
refresh_hw_partition_app(r, P) ==
    IF r.part = NoPart \/ Mask(P, r.part) = r.cbm THEN r
    ELSE [r EXCEPT !.own = Mask(P, r.part), !.cbm = Mask(P, r.part)]

__add_app_to_partition(r, p, P) ==
    LET in == [r EXCEPT !.part = p, !.last = p]
    IN  IF PartSetup("external") THEN refresh_hw_partition_app(in, P)
        ELSE [in EXCEPT !.cos = p]

__remove_app_from_partition(r) == [r EXCEPT !.last = r.part, !.part = NoPart]

Loaded(P, p, by) == [P EXCEPT ![p].apps = @ + by]

get_least_loaded_partition(hint) ==
    LET least == SelectInSeq(assigned, LAMBDA p : \A k \in 1 .. Len(assigned) :
                                        pool[p].apps <= pool[assigned[k]].apps)
    IN  IF assigned = <<>> THEN NoPart
        ELSE IF hint = -1 /\ dflt # NoPart THEN dflt
        ELSE IF Contains(assigned, hint) THEN hint
        ELSE assigned[least]

\* A newcomer, or one that is back: with no partition left it has that of the rest
\* of the system, CLOS 0.
assign_partition_to_application(a) ==
    LET r == papp[a]
        p == get_least_loaded_partition(r.last)
    IN  /\ r.part = NoPart
        /\ IF free = <<>>
           THEN /\ papp' = [papp EXCEPT ![a].last = -1, ![a].cos = NoPart]
                /\ UNCHANGED <<pool, assigned, free, bouncing, cat>>
           ELSE IF p # NoPart
           THEN /\ pool' = Loaded(pool, p, 1)
                /\ papp' = [papp EXCEPT ![a] = __add_app_to_partition(r, p, pool)]
                /\ UNCHANGED <<assigned, free, bouncing, cat>>
           ELSE LET new == Head(free)
                    P == Loaded(Resized(pool, <<new>>, {}, {0}, TRUE, TRUE), new, 1)
                IN  /\ pool' = P
                    /\ assigned' = <<new>> /\ free' = Tail(free)
                    /\ bouncing' = 0
                    /\ cat' = Written(<<new>>, P)
                    /\ papp' = [papp EXCEPT ![a] = __add_app_to_partition(r, new, P)]
        /\ UNCHANGED <<partSetup, dflt>>

remove_application_from_partition(a) ==
    /\ papp[a].part # NoPart
    /\ papp' = [papp EXCEPT ![a] = __remove_app_from_partition(@)]
    /\ pool' = Loaded(pool, papp[a].part, -1)
    /\ UNCHANGED <<partSetup, assigned, free, dflt, bouncing, cat>>

\* Also what an algorithm does with one application.
move_app_to_partition(a, p) ==
    /\ PartSetup("auto")
    /\ papp[a].part \notin {NoPart, p} /\ Contains(assigned, p)
    /\ papp' = [papp EXCEPT ![a] = __add_app_to_partition(
                                        __remove_app_from_partition(@), p, pool)]
    /\ pool' = Loaded(Loaded(pool, papp[a].part, -1), p, 1)
    /\ UNCHANGED <<partSetup, assigned, free, dflt, bouncing, cat>>

NextParts ==
    \/ \E hint \in -1 .. NrCos - 1 : allocate_new_partition(hint)
    \/ remove_empty_partitions
    \/ \E a \in App :
          \/ assign_partition_to_application(a)
          \/ remove_application_from_partition(a)
          \/ \E p \in Part : move_app_to_partition(a, p)

SpecParts == InitParts /\ [][NextParts]_partVars

-----------------------------------------------------------------------------------
(* What the partitions promise.                                                     *)

InUse == ToSet(assigned)

\* Every partition of the pool is either assigned or free, once, and applications
\* are counted where they are: in partitions that are assigned.
PartitionsAreAccounted ==
    /\ IsInjective(assigned \o free)
    /\ ToSet(assigned \o free) = Part
    /\ \A p \in Part : pool[p].apps = Cardinality({a \in App : papp[a].part = p})
    /\ \A a \in App : papp[a].part \in InUse \cup {NoPart}
    /\ dflt \in InUse \cup {NoPart}

\* Partitions that are resized as they come and go tile the cache from its first way
\* to its last, in the order of the list, and none has two ways more than another.
WaysAreTiled ==
    (PartSetup("auto") /\ assigned # <<>>) =>
        /\ pool[Head(assigned)].low = 0
        /\ \A k \in 1 .. Len(assigned) :
              pool[assigned[k]].low + pool[assigned[k]].ways =
                  (IF k = Len(assigned) THEN NrWays ELSE pool[assigned[k + 1]].low)
        /\ \A p, q \in InUse : pool[p].ways <= pool[q].ways + 1
        /\ bouncing = Cardinality({p \in InUse : pool[p].extra})

\* The processor follows: an application runs with the ways of its partition, and
\* with no empty mask.
ProcessorFollows ==
    \A a \in App :
        papp[a].part # NoPart =>
            LET p == papp[a].part
                mask == IF PartSetup("external") THEN papp[a].own ELSE cat[papp[a].cos]
            IN  (PartSetup("external") => PartSetup("clusters"))
                    => mask # {} /\ mask = Mask(pool, p)

PartitionsAreSound == PartitionsAreAccounted /\ WaysAreTiled /\ ProcessorFollows
=================================================================================
