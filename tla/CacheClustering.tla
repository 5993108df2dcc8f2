---------------------------- MODULE CacheClustering ----------------------------
(***********************************************************************************)
(* Algorithms that divide the cache among clusters of applications                  *)
(* (cache_partitioning.c): UCP's lookahead, the pairing of sensitive applications,  *)
(* LFOC in its five modes and the equal divisions, and what enforces a division on  *)
(* the partitions of CachePartSet.  Curves tell the slowdown of an application for  *)
(* every number of ways, in thousandths, and how fast it takes cache space.         *)
(***********************************************************************************)
EXTENDS CachePartSet

CONSTANTS
    Modes,           \* algorithms, a set of strings
    Workloads,       \* what runs: functions from App (1 .. n) to records of the class,
                     \* special (its streaming is isolated), sensitivity, curve, space
    MaxStreaming,    \* max_streaming
    StreamPartSize,  \* max_nr_ways_streaming_part
    Collide,         \* collide_streaming_parts
    MaxClusters      \* MAX_CLUSTERS

VARIABLES
    workload,   \* the member of Workloads
    mode,       \* the algorithm of this system
    result      \* the division in force: clusters, default cluster and applications it
                \* was made for; nothing once somebody comes or goes
clusterVars == <<workload, mode, result>>

Infinite == 1000000      \* INT_MAX
MaxWaysStreaming == 4    \* MAX_WAYS_STREAMING
LightPerStreaming == 2   \* LIGHT_PER_STREAMING
CeilDiv(a, b) == (a + b - 1) \div b
SumSeq(s) == FoldLeft(LAMBDA x, y : x + y, 0, s)
Below(s, n) == SumSeq(SubSeq(s, 1, n))
First(S, worth(_)) == CHOOSE x \in S : \A y \in S :
                         worth(y) > worth(x) \/ (worth(y) = worth(x) /\ x <= y)
Curve(a) == workload[a].curve
Cluster(ways, apps) == [ways |-> ways, apps |-> apps]
NoDivision == [clusters |-> <<>>, dflt |-> 1, apps |-> <<>>]

-----------------------------------------------------------------------------------
(* UCP.                                                                             *)

\* A curve may be stored in part: its last value stands for the rest.
At(curve, n) == curve[IF n > Len(curve) THEN Len(curve) ELSE n]
marginal_utility(from, to, curve) ==
    LET gain == curve[from] - At(curve, to)
    IN  IF gain > 0 THEN gain \div (to - from) ELSE 0

\* The number of ways that pays best, the smallest of them, and what it pays.
get_max_mu_gen(curve, now, available, ways) ==
    LET most == IF available < ways - now THEN available ELSE ways - now
        mu(n) == marginal_utility(now, now + n, curve)
        best == First(1 .. most, LAMBDA n : -mu(n))
    IN  IF most < 1 \/ mu(best) = 0 THEN [mu |-> 0, to |-> -1]
        ELSE [mu |-> mu(best), to |-> now + best]

\* One way for each, then the ways that pay most while any pays, then equal shares.
lookahead_algorithm_list(curves, ways) ==
    LET n == Len(curves)
        left(sol) == ways - SumSeq(sol)
        offer(sol, k) == get_max_mu_gen(curves[k], sol[k], left(sol), ways)
        Fair(sol) == [k \in 1 .. n |-> sol[k] + (left(sol) \div n)
                                        + (IF k <= left(sol) % n THEN 1 ELSE 0)]
        RECURSIVE Greedy(_)
        Greedy(sol) ==
            LET k == First(1 .. n, LAMBDA x : -offer(sol, x).mu)
            IN  IF left(sol) <= 0 THEN sol
                ELSE IF offer(sol, k).mu = 0 THEN Fair(sol)
                ELSE Greedy([sol EXCEPT ![k] = offer(sol, k).to])
    IN  IF n = 1 THEN <<ways>> ELSE Greedy([k \in 1 .. n |-> 1])

\* The cost of taking a way from another application, which may not have merged, may
\* not be down to one way, and may not get slower than the one that takes it is.
cost_way_stealing(curves, x, unmerged, sol) ==
    LET cost(k) == IF \/ k \notin unmerged \/ k = x \/ sol[k] = 1
                      \/ curves[k][sol[k] - 1] > curves[x][sol[x]]
                   THEN Infinite
                   ELSE curves[x][sol[x] + 1] - curves[x][sol[x]]
                          - (curves[k][sol[k]] - curves[k][sol[k] - 1])
        k == First(1 .. Len(curves), cost)
    IN  [cost |-> cost(k), from |-> k]

\* UCP and then a way more for the slowest applications, while that costs little.
ucp_unfairness(curves, ways) ==
    LET n == Len(curves)
        RECURSIVE Fairer(_, _, _)
        Fairer(sol, unmerged, rounds) ==
            LET x == First(1 .. n, LAMBDA k : -curves[k][sol[k]])
                steal == cost_way_stealing(curves, x, unmerged, sol)
            IN  IF rounds = 0 \/ x \notin unmerged \/ steal.cost > 70 THEN sol
                ELSE Fairer([sol EXCEPT ![x] = @ + 1, ![steal.from] = @ - 1],
                            unmerged \ {x}, rounds - 1)
    IN  Fairer(lookahead_algorithm_list(curves, ways), 1 .. n, n)

-----------------------------------------------------------------------------------
(* Pairs of applications in one cluster.                                            *)

\* A curve at a number of hundredths of ways.  access_index_acc counts the ways from
\* one, and extends the curve below its first point.
access_index(curve, ways, space) ==
    LET q == space \div 100
        r == space % 100
    IN  IF q >= ways THEN At(curve, q)
        ELSE IF r = 0 THEN At(curve, q + 1)
        ELSE ((100 - r) * At(curve, q + 1) + r * At(curve, q + 2)) \div 100

access_index_acc(curve, ways, space) ==
    LET q == space \div 100
        r == space % 100
        first == curve[1] + ((100 - r) * curve[1] + r * At(curve, 2)) \div 100
                    - At(curve, 2)
    IN  IF q >= ways THEN At(curve, ways)
        ELSE IF q = 0 THEN (IF first < 0 THEN 1 ELSE first)
        ELSE IF r = 0 THEN At(curve, q)
        ELSE ((100 - r) * At(curve, q) + r * At(curve, q + 1)) \div 100

\* Both applications, way after way, take space in proportion to their space curves:
\* the slowdowns of the two for every number of ways they share.
build_combined_curve(a, b, ways) ==
    LET RECURSIVE Space(_)
        Space(n) ==
            LET s == Space(n - 1)
                m0 == access_index(workload[a].space, ways, s[1])
                m1 == access_index(workload[b].space, ways, s[2])
            IN  IF n = 0 THEN <<0, 0>>
                ELSE <<s[1] + CeilDiv(m0 * 100, m0 + m1), s[2] + CeilDiv(m1 * 100, m0 + m1)>>
    IN  [n \in 1 .. ways |-> <<access_index_acc(Curve(a), ways, Space(n)[1]),
                               access_index_acc(Curve(b), ways, Space(n)[2])>>]

Unfairness(slowdowns) ==
    LET most == CHOOSE x \in slowdowns : \A y \in slowdowns : y <= x
        least == CHOOSE x \in slowdowns : \A y \in slowdowns : x <= y
    IN  IF least <= 0 THEN Infinite ELSE (1000 * most) \div least

\* What pair_clustering_core2 computes first, for the applications of a list: their
\* curves, those they would have in pairs, and the ways of each if nobody shares.
\* Clusters are pairs or single positions of the list; the ways of a cluster are those
\* of its first application.
PairContext(list, ways) ==
    LET n == Len(list)
        curves == [k \in 1 .. n |-> Curve(list[k])]
    IN  [ways |-> ways, curves |-> curves,
         shared |-> [i, j \in 1 .. n |-> IF i < j THEN build_combined_curve(list[i], list[j], ways)
                                         ELSE <<>>],
         start |-> ucp_unfairness(curves, ways)]

Positions(x) == 1 .. Len(x.curves)

evaluate_new_solution(x, clusters, w) ==
    LET slow(c) == IF Len(c) = 1 THEN {x.curves[c[1]][w[c[1]]]}
                   ELSE ToSet(x.shared[c[1], c[2]][w[c[1]]])
    IN  [clusters |-> clusters, ways |-> [k \in 1 .. Len(clusters) |-> w[clusters[k][1]]],
         unfairness |-> Unfairness(UNION {slow(c) : c \in ToSet(clusters)})]

build_new_solution_merged(x, clusters, pair, w) ==
    evaluate_new_solution(x, <<pair>> \o SelectSeq(clusters, LAMBDA c : c[1] \notin ToSet(pair)), w)

\* What two applications lose when they share the ways they have.
calculate_distance(x, p, w) ==
    LET s == x.shared[p][w[p[1]] + w[p[2]]]
    IN  s[1] + s[2] - x.curves[p[1]][w[p[1]]] - x.curves[p[2]][w[p[2]]]

\* Two that have a way each leave one of them when they merge.
distance1w(x, p) ==
    x.shared[p][1][1] + x.shared[p][1][2] - x.curves[p[1]][1] - x.curves[p[2]][1]

get_min_distance_in_list(x, near) ==
    CHOOSE p \in near : \A q \in near :
        \/ distance1w(x, p) < distance1w(x, q)
        \/ /\ distance1w(x, p) = distance1w(x, q)
           /\ (p[1] < q[1] \/ (p[1] = q[1] /\ p[2] <= q[2]))

delete_distances(near, gone) == {p \in near : ToSet(p) \cap gone = {}}

\* For every application k, what it would cost that x shares with it; for x itself, to
\* get a way more from two others that merge.
determine_slowdown_reductions(x, s, me, near) ==
    [k \in Positions(x) |->
        IF k \notin s.unmerged THEN Infinite
        ELSE IF k # me THEN calculate_distance(x, IF me > k THEN <<k, me>> ELSE <<me, k>>, s.ways)
        ELSE IF s.ways[me] = x.ways \/ near = {} THEN Infinite
        ELSE x.curves[me][s.ways[me] + 1] - x.curves[me][s.ways[me]]
                + distance1w(x, get_min_distance_in_list(x, near))]

\* A pair merges; the best solution so far is kept aside.
Adopted(x, s, pair, w, gone) ==
    LET new == build_new_solution_merged(x, s.cur.clusters, pair, w)
    IN  [unmerged |-> s.unmerged \ ToSet(pair), ways |-> w, cur |-> new,
         near |-> delete_distances(s.near, gone),
         best |-> IF new.unfairness < s.best.unfairness THEN new ELSE s.best]

\* One round: application me takes a way from two others, or merges with another, or
\* stays as it is.
Merged(x, s, me) ==
    LET near == {p \in s.near : me \notin ToSet(p)}
        red == determine_slowdown_reductions(x, s, me, near)
        k == First(Positions(x), LAMBDA i : red[i])
        steal == get_min_distance_in_list(x, near)
        pair == IF k > me THEN <<me, k>> ELSE <<k, me>>
    IN  IF me \notin s.unmerged \/ red[k] >= 0 THEN s
        ELSE IF k = me
        THEN Adopted(x, s, steal, [s.ways EXCEPT ![steal[1]] = 1, ![steal[2]] = 1,
                                                 ![me] = @ + 1], ToSet(steal))
        ELSE Adopted(x, s, pair, [s.ways EXCEPT ![pair[1]] = @ + s.ways[pair[2]]],
                     {i \in ToSet(pair) : s.ways[i] = 1})

get_sorted_slowdowns(x) ==
    SortSeq([k \in Positions(x) |-> k], LAMBDA i, j :
        LET a == x.curves[i][x.start[i]] b == x.curves[j][x.start[j]]
        IN  a > b \/ (a = b /\ i < j))

\* The best solution that merging, from the slowest application on, has met.
BestSolution(x, first) ==
    LET oneWay == {p \in Positions(x) \X Positions(x) :
                      p[1] < p[2] /\ x.start[p[1]] + x.start[p[2]] = 2}
    IN  FoldLeft(LAMBDA s, me : Merged(x, s, me),
                 [unmerged |-> Positions(x), ways |-> x.start, near |-> oneWay,
                  cur |-> first, best |-> first], get_sorted_slowdowns(x)).best

Merging(x) ==
    BestSolution(x, evaluate_new_solution(x, [k \in Positions(x) |-> <<k>>], x.start))

SolutionClusters(best, list) ==
    [k \in 1 .. Len(best.clusters) |->
        Cluster(best.ways[k], [i \in 1 .. Len(best.clusters[k]) |-> list[best.clusters[k][i]]])]

pair_clustering_core2(list, ways) == SolutionClusters(Merging(PairContext(list, ways)), list)

-----------------------------------------------------------------------------------
(* LFOC.                                                                            *)

OfClass(apps, class) == SelectSeq(apps, LAMBDA a : workload[a].class = class)
Special(apps) == SelectSeq(apps, LAMBDA a : workload[a].special)

\* Ways set aside for streaming applications: some for each of the isolated ones,
\* and some for every MaxStreaming of the others.
ReservedWays(apps) ==
    LET streaming == OfClass(apps, "streaming")
        special == Len(Special(streaming))
        wanted == special * StreamPartSize
                    + ((Len(streaming) - special + MaxStreaming - 1) * StreamPartSize)
                        \div MaxStreaming
    IN  IF streaming = <<>> THEN 0
        ELSE IF special = 0 /\ wanted > MaxWaysStreaming THEN MaxWaysStreaming ELSE wanted

\* The clusters of the sensitive applications, mode by mode.
SingleSensitive(list, ways) == <<Cluster(ways, list)>>

\* Seeded fault: shares are rounded down.
EqualShares_RoundedDown(list, ways) ==
    [k \in 1 .. Len(list) |-> Cluster(ways \div Len(list), <<list[k]>>)]

EqualShares(list, ways) ==
    LET n == Len(list)
        share[k \in 0 .. n] ==
            IF k = 0 THEN <<>>
            ELSE Append(share[k - 1], CeilDiv(ways - SumSeq(share[k - 1]), n - k + 1))
    IN  [k \in 1 .. n |-> Cluster(share[n][k], <<list[k]>>)]

UcpShares(list, ways) ==
    LET sol == lookahead_algorithm_list([k \in 1 .. Len(list) |-> Curve(list[k])], ways)
    IN  [k \in 1 .. Len(list) |-> Cluster(sol[k], <<list[k]>>)]

\* By sensitivity: those below the average per way share a cluster, of a way each,
\* and the others get their share of what remains, rounded up.
WeightedShares(list, ways) ==
    LET weight(a) == workload[a].sensitivity
        Total(apps) == SumSeq([k \in 1 .. Len(apps) |-> weight(apps[k])])
        mild == SelectSeq(list, LAMBDA a : weight(a) <= Total(list) \div ways)
        rest == SelectSeq(list, LAMBDA a : ~Contains(mild, a))
        RECURSIVE Share(_, _)
        Share(apps, left) ==
            LET fair == CeilDiv(left * weight(Head(apps)), Total(apps))
                mine == IF fair < 1 THEN 1 ELSE fair
            IN  IF apps = <<>> THEN <<>>
                ELSE <<Cluster(mine, <<Head(apps)>>)>> \o Share(Tail(apps), left - mine)
    IN  (IF mild = <<>> THEN <<>> ELSE <<Cluster(Len(mild), mild)>>)
            \o Share(rest, ways - Len(mild))

SensitiveClusters(list, ways) ==
    CASE mode = "even" -> EqualShares(list, ways)
      [] mode = "nopart" -> SingleSensitive(list, ways)
      [] mode = "weighted" -> WeightedShares(list, ways)
      [] mode = "plus" /\ Len(list) > 1 -> pair_clustering_core2(list, ways)
      [] OTHER -> IF Len(list) > NrWays THEN SingleSensitive(list, ways)
                  ELSE UcpShares(list, ways)

\* The clusters of the streaming applications: one for all that are not isolated and
\* one for each that is, or as many as there is room for, filled one after another.
StreamingClusters(list, reserved) ==
    LET special == Special(list)
        normal == SelectSeq(list, LAMBDA a : ~workload[a].special)
        common == reserved - Len(special) * StreamPartSize
        parts == reserved \div StreamPartSize
        each == CeilDiv(Len(list), parts)
        used == CeilDiv(Len(list), each)
        upTo(k) == IF k * each < Len(list) THEN k * each ELSE Len(list)
    IN  IF list = <<>> THEN <<>>
        ELSE IF Collide \/ special # <<>>
        THEN (IF common > 0 THEN <<Cluster(common, normal)>> ELSE <<>>)
                \o [k \in 1 .. Len(special) |-> Cluster(StreamPartSize, <<special[k]>>)]
        ELSE [k \in 1 .. used |-> Cluster(StreamPartSize,
                                          SubSeq(list, (k - 1) * each + 1, upTo(k)))]

\* Light applications fill the gaps of the streaming clusters, those that find no
\* room go round the sensitive ones.
WithLight(sensitive, streaming, light) ==
    LET Fill(s, c) ==
            LET room == (MaxStreaming * c.ways - Len(c.apps) + 1) * LightPerStreaming
                n == IF room < 0 THEN 0 ELSE IF room < Len(s.light) THEN room ELSE Len(s.light)
            IN  [done |-> Append(s.done, [c EXCEPT !.apps = @ \o SubSeq(s.light, 1, n)]),
                 light |-> SubSeq(s.light, n + 1, Len(s.light))]
        filled == FoldLeft(Fill, [done |-> <<>>, light |-> light], streaming)
        m == Len(sensitive)
        turn(k) == SelectSeq(filled.light, LAMBDA a :
                      (CHOOSE i \in 1 .. Len(filled.light) : filled.light[i] = a) % m = k % m)
    IN  [k \in 1 .. m |-> [sensitive[k] EXCEPT !.apps = @ \o turn(k)]] \o filled.done

\* The clusters of the sensitive applications, those of the streaming ones, and what
\* becomes of the light ones.  The default cluster is the last of the streaming ones
\* that is not isolated, or the smallest of the sensitive ones.
WithDefault(main, side, streaming, light) ==
    LET shared == Special(streaming) # <<>> \/ Collide
        default ==
            IF side # <<>> /\ ~shared THEN Len(main) + Len(side)
            ELSE IF side # <<>> /\ Len(Special(streaming)) < Len(streaming)
                 THEN Len(main) + 1
            ELSE CASE mode = "even" -> Len(main)
                   [] mode \in {"nopart", "weighted"} -> 1
                   [] OTHER -> First(1 .. Len(main), LAMBDA k : main[k].ways)
    IN  [clusters |-> IF mode = "weighted" /\ light # <<>>
                      THEN main \o side \o <<Cluster(NrWays, light)>>
                      ELSE WithLight(main, side, light),
         dflt |-> default]

\* Nobody sensitive: one cluster.
lfoc_gen(apps) ==
    LET sensitive == OfClass(apps, "sensitive")
        streaming == OfClass(apps, "streaming")
        reserved == ReservedWays(apps)
    IN  IF sensitive = <<>> THEN [clusters |-> <<Cluster(NrWays, apps)>>, dflt |-> 1]
        ELSE WithDefault(SensitiveClusters(sensitive, NrWays - reserved),
                         StreamingClusters(streaming, reserved),
                         streaming, OfClass(apps, "light"))

trivial_part(apps) == [clusters |-> <<Cluster(NrWays, apps)>>, dflt |-> 1]

equal_part(apps) ==
    IF Len(apps) > NrWays THEN trivial_part(apps)
    ELSE [clusters |-> EqualShares(apps, NrWays), dflt |-> 1]

\* A cluster of the whole cache for the light applications, which may be empty, and
\* equal shares for the others.
equal_part_intensive(apps) ==
    [clusters |-> <<Cluster(NrWays, OfClass(apps, "light"))>>
                    \o EqualShares(SelectSeq(apps, LAMBDA a : workload[a].class # "light"), NrWays),
     dflt |-> 1]

Division(apps) ==
    CASE mode = "trivial" -> trivial_part(apps)
      [] mode = "equal" -> equal_part(apps)
      [] mode = "intensive" -> equal_part_intensive(apps)
      [] OTHER -> lfoc_gen(apps)
-----------------------------------------------------------------------------------
(* From clusters to partitions.                                                     *)

allocate_empty_partition(s) ==
    LET p == Head(s.free)
    IN  [s EXCEPT !.free = Tail(@), !.assigned = Append(@, p),
                  !.pool[p].low = 0, !.pool[p].ways = 1, !.pool[p].id = Len(s.assigned)]

\* The mask reaches the CLOS of the partition unless applications have their own.
reconfigure_partition_gen(s, p, ways, low) ==
    LET new == [s EXCEPT !.pool[p].low = low, !.pool[p].ways = ways]
    IN  IF PartSetup("external") THEN new ELSE [new EXCEPT !.cat[p] = Mask(new.pool, p)]

\* An application goes to the partition of its cluster, or learns of the new mask.
Placed(s, a, p) ==
    LET r == s.papp[a]
    IN  IF r.part # p
        THEN [s EXCEPT !.pool = Loaded(Loaded(@, r.part, -1), p, 1),
                       !.papp[a] = __add_app_to_partition(__remove_app_from_partition(r),
                                                          p, s.pool)]
        ELSE IF PartSetup("external")
             THEN [s EXCEPT !.papp[a] = refresh_hw_partition_app(r, s.pool)]
             ELSE s

\* Every cluster takes the partition of the lowest index that no other has taken, and
\* the ways below those of the clusters before it, or all of them.
Enforced(s, div, k) ==
    LET c == div.clusters[k]
        sorted == SetToSortSeq(ToSet(s.assigned), <)
        p == sorted[k]
        taken == SumSeq([i \in 1 .. k - 1 |-> IF div.clusters[i].ways = NrWays THEN 0
                                              ELSE div.clusters[i].ways])
        low == IF c.ways = NrWays THEN 0 ELSE NrWays - taken - c.ways
        ready == reconfigure_partition_gen(s, p, c.ways, low)
        dfl == IF div.dflt = k THEN [ready EXCEPT !.dflt = p] ELSE ready
    IN  FoldLeft(LAMBDA t, a : Placed(t, a, p), dfl, c.apps)

\* As many partitions as there are too many go, if they are empty.
Trimmed(s, surplus) ==
    FoldLeft(LAMBDA t, p : IF /\ Len(t.assigned) > Len(s.assigned) - surplus
                              /\ p # t.dflt /\ t.pool[p].apps = 0
                           THEN deallocate_partition_no_resize(t, p) ELSE t,
             s, s.assigned)

\* The applications that are running, in the order of the list of the group.
Running == SelectSeq([n \in 1 .. Cardinality(App) |-> n], LAMBDA a : papp[a].part # NoPart)

\* Partitions are allocated for the clusters that want one, and what is too many goes.
AllEnforced(div, short) ==
    LET now == [pool |-> pool, assigned |-> assigned, free |-> free, dflt |-> dflt,
                bouncing |-> bouncing, cat |-> cat, papp |-> papp]
        grown == FoldLeft(LAMBDA s, n : allocate_empty_partition(s), now,
                          [n \in 1 .. (IF short > 0 THEN short ELSE 0) |-> n])
        placed == FoldLeft(LAMBDA s, k : Enforced(s, div, k), grown,
                           [k \in 1 .. Len(div.clusters) |-> k])
    IN  Trimmed(placed, IF short < 0 THEN -short ELSE 0)

\* A division is made for the applications that run, and enforced.  allocate_new_cluster
\* has no more clusters than the pool.
enforce_cluster_partitioning ==
    /\ PartSetup("clusters")
    /\ Running # <<>>
    /\ \E div \in {Division(Running)} :
          /\ Len(div.clusters) \in 1 .. MaxClusters
          /\ Len(div.clusters) - Len(assigned) <= Len(free)
          /\ \E s \in {AllEnforced(div, Len(div.clusters) - Len(assigned))} :
                Becomes(s) /\ dflt' = s.dflt /\ papp' = s.papp
          /\ result' = [clusters |-> div.clusters, dflt |-> div.dflt, apps |-> Running]
    /\ UNCHANGED <<partSetup, workload, mode>>

InitClustering ==
    /\ InitParts
    /\ workload \in (IF PartSetup("auto") THEN {CHOOSE w \in Workloads : TRUE} ELSE Workloads)
    /\ mode \in (IF PartSetup("auto") THEN {"none"} ELSE Modes)
    /\ result = NoDivision

NextClustering ==
    \/ /\ NextParts
       /\ result' = NoDivision
       /\ UNCHANGED <<workload, mode>>
    \/ enforce_cluster_partitioning

SpecClustering == InitClustering /\ [][NextClustering]_<<partVars, clusterVars>>

-----------------------------------------------------------------------------------
(* What a division promises.                                                        *)

\* There are ways for one and all: those set aside for streaming leave one for each
\* of the sensitive applications.
Fits ==
    /\ result.apps # <<>>
    /\ Len(OfClass(result.apps, "sensitive")) + ReservedWays(result.apps) <= NrWays

\* Every application that ran is in one cluster, once; a cluster has ways; and those
\* that do not share the whole cache have no way in common.
DivisionIsSound ==
    LET placed == FlattenSeq([k \in 1 .. Len(result.clusters) |-> result.clusters[k].apps])
        part == SelectSeq(result.clusters, LAMBDA c : c.ways < NrWays)
    IN  Fits =>
            /\ IsInjective(placed) /\ ToSet(placed) = ToSet(result.apps)
            /\ \A k \in 1 .. Len(result.clusters) : result.clusters[k].ways > 0
            /\ SumSeq([k \in 1 .. Len(part) |-> part[k].ways]) <= NrWays

\* What was decided is what holds: applications of a cluster share a partition of its
\* ways, those of others have another, and no partition is left that is nobody's.
DivisionIsEnforced ==
    Fits =>
        /\ Len(assigned) = Len(result.clusters)
        /\ \A k, n \in 1 .. Len(result.clusters) :
              \A a \in ToSet(result.clusters[k].apps), b \in ToSet(result.clusters[n].apps) :
                 /\ (papp[a].part = papp[b].part) <=> (k = n)
                 /\ pool[papp[a].part].ways = result.clusters[k].ways
                 /\ (k # n /\ pool[papp[a].part].ways < NrWays
                            /\ pool[papp[b].part].ways < NrWays)
                        => Mask(pool, papp[a].part) \cap Mask(pool, papp[b].part) = {}

\* Ways that were set aside are used: the clusters of the sensitive applications have
\* all the others.  (Of four applications: with five, pair_clustering_core2 may merge
\* two that are no longer down to a way each, and the way it took is nobody's.)
NoWayIsLost ==
    (Fits /\ mode \in {"legacy", "plus", "even", "nopart"}) =>
        SumSeq([k \in 1 .. Len(result.clusters) |->
                  IF \E a \in ToSet(result.clusters[k].apps) : workload[a].class = "sensitive"
                  THEN result.clusters[k].ways ELSE 0])
            \in {0, NrWays - ReservedWays(result.apps)}

CacheIsDivided == DivisionIsSound /\ DivisionIsEnforced /\ NoWayIsLost
=================================================================================
