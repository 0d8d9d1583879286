--------------------------- MODULE SocialTrustProofs ---------------------------
(***************************************************************************)
(* Proofs about SocialTrust, for every graph, every sequence of changes    *)
(* and failures, and every setting of the scores and the credit.           *)
(***************************************************************************)
EXTENDS SocialTrust, FiniteSetTheorems, WellFoundedInduction, TLAPS

\* Some number of a set is the least: what stands in for induction here.
LEMMA LeastNat ==
    ASSUME NEW T, T \subseteq Nat, T # {}
    PROVE  \E x \in T : \A y \in T : x <= y
<1> DEFINE R == {ss \in Nat \X Nat : ss[1] < ss[2]}
<1>1. IsWellFoundedOn(R, Nat)
    BY NatLessThanWellFounded DEF OpToRel
<1>2. \A y \in T, x \in T : <<y, x>> \in R <=> y < x
    OBVIOUS
<1> HIDE DEF R
<1>3. PICK x \in T : \A y \in T : <<y, x>> \notin R
    BY <1>1, WFMin
<1>4. \A y \in T : ~(y < x)
    BY <1>2, <1>3
<1>5. QED
    BY <1>4

\* One step more along the edges.
Further(edges, S) == S \cup {e[2] : e \in {f \in edges : f[1] \in S}}

\* The function that Reach defines by recursion exists.
LEMMA ReachExists ==
    ASSUME NEW edges, NEW m \in Nat
    PROVE  \E f : f = [n \in 0..m |-> IF n = 0 THEN {from} ELSE Further(edges, f[n - 1])]
<1> DEFINE Defined(k, f) ==
               f = [n \in 0..k |-> IF n = 0 THEN {from} ELSE Further(edges, f[n - 1])]
           T == {k \in Nat : ~ \E f : Defined(k, f)}
<1>1. SUFFICES ASSUME T # {} PROVE FALSE
    OBVIOUS
<1>2. T \subseteq Nat
    OBVIOUS
<1>3. PICK k \in T : \A j \in T : k <= j
    BY <1>1, <1>2, LeastNat
<1>4. CASE k = 0
    <2>1. Defined(0, [n \in 0..0 |-> {from}])
        OBVIOUS
    <2>2. QED
        BY <1>3, <1>4, <2>1
<1>5. CASE k # 0
    <2>1. k \in Nat /\ k - 1 \in Nat
        BY <1>5
    <2>2. PICK g : Defined(k - 1, g)
        <3> HIDE DEF Defined
        <3>1. k - 1 \in T => k <= k - 1
            BY <1>3
        <3>2. k - 1 \notin T
            BY <2>1, <3>1
        <3>3. QED
            BY <2>1, <3>2
    <2> DEFINE h == [n \in 0..k |-> IF n < k THEN g[n] ELSE Further(edges, g[k - 1])]
    <2>3. \A n \in 0..k : h[n] = IF n = 0 THEN {from} ELSE Further(edges, h[n - 1])
        <3> TAKE n \in 0..k
        <3>1. CASE n = 0
            <4>1. 0 < k /\ 0 \in 0..(k - 1)
                BY <2>1, <1>5
            <4>2. g[0] = {from}
                BY <2>2, <4>1
            <4>3. QED
                BY <3>1, <4>1, <4>2
        <3>2. CASE n # 0 /\ n < k
            <4>1. n \in 0..(k - 1) /\ n - 1 \in 0..(k - 1) /\ n - 1 < k /\ n - 1 \in 0..k
                BY <2>1, <3>2
            <4>2. g[n] = Further(edges, g[n - 1])
                BY <2>2, <3>2, <4>1
            <4>3. h[n] = g[n] /\ h[n - 1] = g[n - 1]
                BY <3>2, <4>1
            <4>4. QED
                BY <3>2, <4>2, <4>3
        <3>3. CASE n = k
            <4>1. k - 1 \in 0..k /\ k - 1 < k /\ ~(k < k)
                BY <2>1
            <4>2. h[k - 1] = g[k - 1] /\ h[k] = Further(edges, g[k - 1])
                BY <4>1, <2>1
            <4>3. QED
                BY <3>3, <4>2, <1>5
        <3>4. QED
            BY <2>1, <3>1, <3>2, <3>3
    <2>4. Defined(k, h)
        <3> HIDE DEF h
        <3>1. h = [n \in 0..k |-> h[n]]
            BY DEF h
        <3>2. QED
            BY <2>3, <3>1
    <2>5. QED
        BY <1>3, <2>4
<1>6. QED
    BY <1>4, <1>5

\* Within by its recursion.
LEMMA WithinSteps ==
    ASSUME NEW edges
    PROVE  /\ Within(edges, 0) = {from}
           /\ \A n \in 0..maxDepth : n # 0 => Within(edges, n) = Further(edges, Within(edges, n - 1))
<1>1. maxDepth \in Nat
    BY TrustAssumption
<1> DEFINE Is(f) == f = [n \in 0..maxDepth |-> IF n = 0 THEN {from} ELSE Further(edges, f[n - 1])]
<1>2. Reach(edges) = CHOOSE f : Is(f)
    BY DEF Reach, Further
<1>3. \E f : Is(f)
    BY <1>1, ReachExists
<1> HIDE DEF Is
<1>4. Is(Reach(edges))
    BY <1>2, <1>3
<1> DEFINE reach == Reach(edges)
<1> HIDE DEF reach
<1> DEFINE body == [n \in 0..maxDepth |-> IF n = 0 THEN {from} ELSE Further(edges, reach[n - 1])]
<1>5. \A n \in 0..maxDepth : body[n] = IF n = 0 THEN {from} ELSE Further(edges, reach[n - 1])
    OBVIOUS
<1>6. reach = body
    BY <1>4 DEF Is, reach
<1> HIDE DEF body
<1>7. /\ reach[0] = {from}
      /\ \A n \in 0..maxDepth : n # 0 => reach[n] = Further(edges, reach[n - 1])
    BY <1>1, <1>5, <1>6
<1>8. QED
    BY <1>7 DEF reach, Within

\* Whatever holds the start and at each step what is further is no smaller than
\* what the edges lead to: induction over the steps.
LEMMA WithinBounded ==
    ASSUME NEW edges, NEW V, from \in V[0],
           \A n \in 0..maxDepth : n # 0 => Further(edges, V[n - 1]) \subseteq V[n]
    PROVE  \A n \in 0..maxDepth : Within(edges, n) \subseteq V[n]
<1> DEFINE T == {n \in 0..maxDepth : ~(Within(edges, n) \subseteq V[n])}
<1>1. SUFFICES ASSUME T # {} PROVE FALSE
    OBVIOUS
<1>2. maxDepth \in Nat /\ T \subseteq Nat
    BY TrustAssumption
<1>3. PICK n \in T : \A j \in T : n <= j
    BY <1>1, <1>2, LeastNat
<1>4. n # 0
    BY WithinSteps
<1>5. n \in 0..maxDepth /\ n - 1 \in 0..maxDepth /\ ~(n <= n - 1)
    BY <1>2, <1>4
<1>6. Within(edges, n - 1) \subseteq V[n - 1]
    BY <1>3, <1>5
<1>7. Within(edges, n) = Further(edges, Within(edges, n - 1))
    BY <1>4, <1>5, WithinSteps
<1>8. Within(edges, n) \subseteq Further(edges, V[n - 1])
    BY <1>6, <1>7 DEF Further
<1>9. QED
    BY <1>4, <1>5, <1>8

\* More edges lead no less far.
LEMMA WithinMonotone ==
    ASSUME NEW edges, NEW more, edges \subseteq more
    PROVE  \A n \in 0..maxDepth : Within(edges, n) \subseteq Within(more, n)
<1> DEFINE V == [n \in 0..maxDepth |-> Within(more, n)]
<1>1. maxDepth \in Nat
    BY TrustAssumption
<1>2. from \in V[0]
    BY <1>1, WithinSteps
<1>3. ASSUME NEW n \in 0..maxDepth, n # 0 PROVE Further(edges, V[n - 1]) \subseteq V[n]
    <2>1. n - 1 \in 0..maxDepth
        BY <1>1, <1>3
    <2>2. V[n] = Further(more, V[n - 1])
        BY <1>3, <2>1, WithinSteps
    <2>3. QED
        BY <2>2 DEF Further
<1>4. \A n \in 0..maxDepth : V[n] = Within(more, n)
    OBVIOUS
<1> HIDE DEF V
<1>5. QED
    BY <1>2, <1>3, <1>4, WithinBounded

\* Edges lead nowhere out of a set that has the start and that they do not leave.
LEMMA WithinClosed ==
    ASSUME NEW edges, NEW S, from \in S, \A e \in edges : e[1] \in S => e[2] \in S
    PROVE  \A n \in 0..maxDepth : Within(edges, n) \subseteq S
<1> DEFINE V == [n \in 0..maxDepth |-> S]
<1>1. maxDepth \in Nat
    BY TrustAssumption
<1>2. from \in V[0]
    BY <1>1
<1>3. ASSUME NEW n \in 0..maxDepth, n # 0 PROVE Further(edges, V[n - 1]) \subseteq V[n]
    BY <1>1, <1>3 DEF Further
<1>4. \A n \in 0..maxDepth : V[n] = S
    OBVIOUS
<1> HIDE DEF V
<1>5. QED
    BY <1>2, <1>3, <1>4, WithinBounded

-------------------------------------------------------------------------------
\* Distances

LEMMA InfinityIsFar == Infinity \in Nat /\ maxDepth \in Nat /\ maxDepth < Infinity
<1>1. Cardinality(Pubkeys) \in Nat /\ maxDepth \in Nat
    BY TrustAssumption, FS_CardinalityType
<1>2. QED
    BY <1>1 DEF Infinity

\* Shortest is the least distance, or Infinity when there is none.
LEMMA ShortestIsLeast ==
    ASSUME NEW edges
    PROVE  /\ Shortest(edges) \in Nat /\ Shortest(edges) <= Infinity
           /\ \A n \in Distances(edges) : Shortest(edges) <= n
           /\ Shortest(edges) = Infinity \/ Shortest(edges) \in Distances(edges)
<1>1. \A n \in Distances(edges) : n \in Nat /\ n <= maxDepth
    BY InfinityIsFar DEF Distances
<1>2. CASE Distances(edges) = {}
    BY <1>2, InfinityIsFar DEF Shortest
<1>3. CASE Distances(edges) # {}
    <2> DEFINE Least(n) == \A k \in Distances(edges) : n <= k
    <2>1. \E n \in Distances(edges) : Least(n)
        BY <1>1, <1>3, LeastNat
    <2>2. Shortest(edges) = CHOOSE n \in Distances(edges) : Least(n)
        BY <1>3 DEF Shortest
    <2> HIDE DEF Least
    <2>3. Shortest(edges) \in Distances(edges) /\ Least(Shortest(edges))
        BY <2>1, <2>2
    <2>4. QED
        BY <1>1, <2>3, InfinityIsFar DEF Least
<1>4. QED
    BY <1>2, <1>3

\* More edges make no distance longer.
LEMMA ShortestMonotone ==
    ASSUME NEW edges, NEW more, edges \subseteq more
    PROVE  Shortest(more) <= Shortest(edges)
<1>1. Distances(edges) \subseteq Distances(more)
    BY WithinMonotone DEF Distances
<1>2. CASE Shortest(edges) \in Distances(edges)
    BY <1>1, <1>2, ShortestIsLeast
<1>3. CASE Shortest(edges) = Infinity
    BY <1>3, ShortestIsLeast
<1>4. QED
    BY <1>2, <1>3, ShortestIsLeast

-------------------------------------------------------------------------------
\* The search

\* Edges are pairs; those that stood all along stand, those that stand there were,
\* and relays keep them all.
GraphInv == /\ steady \subseteq follows /\ follows \subseteq ever
            /\ ever \subseteq kept /\ kept \subseteq Pubkeys \X Pubkeys

\* At each depth the search has visited all that the edges that stood lead to, and
\* no more than those there ever were do; what a visited account follows is
\* visited, received, or yet to be asked for.
SearchInv ==
    pc = "searching" =>
        /\ distance = Infinity /\ depth \in 0..maxDepth
        /\ depth = maxDepth => lists = {}
        /\ from \in visited /\ to \notin visited
        /\ level \subseteq visited /\ visited \subseteq Within(ever, depth)
        /\ \A e \in lists : e \in ever /\ e[1] \in visited
        /\ \A n \in 0..depth : Within(steady, n) \subseteq visited
        /\ \A e \in steady : e[1] \in visited =>
               e[2] \in visited \/ e[1] \in level \/ e \in lists

\* Of each end that was asked for the followers that stood are received.
CountInv ==
    /\ mutual \subseteq kept /\ asked \subseteq {from, to}
    /\ \A e \in steady : e[2] \in asked => e \in mutual
    /\ pc = "done" => asked = {from, to}
    /\ distance \in Nat /\ distance <= Infinity
    /\ pc \in {"searching", "counting", "done"}

TrustInv == GraphInv /\ SearchInv /\ DistanceBounded /\ CountInv

LEMMA TrustInitInd == TrustInit => TrustInv
<1> SUFFICES ASSUME TrustInit PROVE TrustInv
    OBVIOUS
<1>1. GraphInv
    BY TrustAssumption DEF TrustInit, GraphInv
<1>2. Within(ever, 0) = {from} /\ Within(steady, 0) = {from}
    BY WithinSteps
<1>3. SearchInv
    BY <1>2, InfinityIsFar, TrustAssumption DEF TrustInit, SearchInv
<1>4. DistanceBounded /\ CountInv
    BY InfinityIsFar DEF TrustInit, DistanceBounded, CountInv
<1>5. QED
    BY <1>1, <1>3, <1>4 DEF TrustInv

\* An account that publishes another list adds to the edges there were, or takes
\* from those that stood.
LEMMA PublishInd ==
    ASSUME TrustInv, NEW a \in Pubkeys, NEW b \in Pubkeys, Publish(a, b)
    PROVE  TrustInv'
<1> USE DEF TrustInv
<1>1. /\ UNCHANGED <<pc, depth, visited, level, lists, distance, mutual, asked>>
      /\ steady' = steady \cap follows' /\ ever' = ever \cup follows'
      /\ kept' = kept \cup follows'
      /\ pc # "done"
    BY DEF Publish, searchVars, countVars
<1>2. steady' \subseteq steady /\ ever \subseteq ever'
    BY <1>1
<1>3. GraphInv'
    <2>1. follows' \subseteq follows \cup {<<a, b>>}
        BY DEF Publish
    <2>2. QED
        BY <1>1, <2>1 DEF GraphInv
<1>4. \A n \in 0..maxDepth : /\ Within(steady', n) \subseteq Within(steady, n)
                             /\ Within(ever, n) \subseteq Within(ever', n)
    BY <1>2, WithinMonotone
<1>5. SearchInv'
    <2> SUFFICES ASSUME pc = "searching" PROVE SearchInv'
        BY <1>1 DEF SearchInv
    <2>1. depth \in 0..maxDepth /\ \A n \in 0..depth : n \in 0..maxDepth
        BY InfinityIsFar DEF SearchInv
    <2>2. visited \subseteq Within(ever', depth)
        BY <1>4, <2>1 DEF SearchInv
    <2>3. \A n \in 0..depth : Within(steady', n) \subseteq visited
        BY <1>4, <2>1 DEF SearchInv
    <2>4. QED
        BY <1>1, <1>2, <2>2, <2>3 DEF SearchInv
<1>6. DistanceBounded'
    <2>1. Shortest(ever') <= Shortest(ever) /\ Shortest(steady) <= Shortest(steady')
        BY <1>2, ShortestMonotone
    <2>2. /\ Shortest(ever') \in Nat /\ Shortest(ever) \in Nat
          /\ Shortest(steady) \in Nat /\ Shortest(steady') \in Nat
        BY ShortestIsLeast
    <2>3. QED
        BY <1>1, <2>1, <2>2 DEF DistanceBounded, CountInv
<1>7. CountInv'
    BY <1>1, <1>2 DEF CountInv
<1>8. QED
    BY <1>3, <1>5, <1>6, <1>7

\* An answer is the newest list or another that is kept; what it misses of the
\* newest no longer counts among the edges that stood unmissed.
LEMMA FollowsInd ==
    ASSUME TrustInv, NEW a \in Pubkeys, getFollowsForPubkey(a)
    PROVE  TrustInv'
<1> USE DEF TrustInv
<1>1. /\ UNCHANGED <<follows, kept, pc, depth, visited, distance, mutual, asked>>
      /\ pc = "searching" /\ a \in level /\ depth < maxDepth
      /\ level' = level \ {a}
    BY DEF getFollowsForPubkey, graphVars, countVars
<1>2. PICK list \in SUBSET {e \in kept : e[1] = a} :
          /\ lists' = lists \cup list /\ ever' = ever \cup list
          /\ steady' = steady \ ({e \in follows : e[1] = a} \ list)
    BY DEF getFollowsForPubkey
<1>3. /\ steady' \subseteq steady
      /\ \A e \in list : e[1] = a /\ e \in kept
      /\ \A e \in steady' : e[1] = a => e \in list
    BY <1>2 DEF GraphInv
<1>4. GraphInv' /\ CountInv'
    BY <1>1, <1>2, <1>3 DEF GraphInv, CountInv
<1>5. DistanceBounded'
    BY <1>1 DEF DistanceBounded
<1>6. SearchInv'
    <2>1. depth \in 0..maxDepth /\ \A n \in 0..depth : n \in 0..maxDepth
        BY <1>1, InfinityIsFar DEF SearchInv
    <2>2. \A n \in 0..depth : Within(steady', n) \subseteq visited
        BY <1>1, <1>3, <2>1, WithinMonotone DEF SearchInv
    <2>3. \A e \in lists' : e \in ever' /\ e[1] \in visited
        BY <1>1, <1>2, <1>3 DEF SearchInv
    <2>4. \A e \in steady' : e[1] \in visited =>
              e[2] \in visited \/ e[1] \in level' \/ e \in lists'
        BY <1>1, <1>2, <1>3 DEF SearchInv
    <2>5. depth # maxDepth
        BY <1>1, <2>1, InfinityIsFar
    <2>6. visited \subseteq Within(ever', depth)
        <3>1. Within(ever, depth) \subseteq Within(ever', depth)
            BY <1>2, <2>1, WithinMonotone
        <3>2. QED
            BY <1>1, <3>1 DEF SearchInv
    <2>7. QED
        BY <1>1, <2>2, <2>3, <2>4, <2>5, <2>6 DEF SearchInv
<1>7. QED
    BY <1>4, <1>5, <1>6

\* A level is complete: what it found is one step further.
LEMMA NextLevelInd == TrustInv /\ NextLevel => TrustInv'
<1> SUFFICES ASSUME TrustInv, NextLevel PROVE TrustInv'
    OBVIOUS
<1> USE DEF TrustInv
<1>1. /\ UNCHANGED <<follows, kept, ever, steady, mutual, asked>>
      /\ pc = "searching" /\ level = {} /\ lists # {} /\ lists' = {}
      /\ depth' = depth + 1 /\ visited' = visited \cup Found /\ level' = Found \ visited
    BY DEF NextLevel, graphVars, countVars
<1>2. /\ depth \in 0..maxDepth /\ depth' \in 0..maxDepth /\ depth' # 0 /\ depth' - 1 = depth
      /\ maxDepth \in Nat
    BY <1>1, InfinityIsFar DEF SearchInv
<1>3. visited' \subseteq Within(ever, depth')
    <2>1. Within(ever, depth') = Further(ever, Within(ever, depth))
        BY <1>2, WithinSteps
    <2>2. Found \subseteq Further(ever, Within(ever, depth))
        BY <1>1 DEF SearchInv, Found, Further
    <2>3. visited \subseteq Further(ever, Within(ever, depth))
        BY <1>1 DEF SearchInv, Further
    <2>4. QED
        BY <1>1, <2>1, <2>2, <2>3
<1>4. \A n \in 0..depth' : Within(steady, n) \subseteq visited'
    <2>1. Within(steady, depth') = Further(steady, Within(steady, depth))
        BY <1>2, WithinSteps
    <2>2. Within(steady, depth) \subseteq visited
        BY <1>1, <1>2 DEF SearchInv
    <2>3. Within(steady, depth') \subseteq visited'
        BY <1>1, <2>1, <2>2 DEF SearchInv, Found, Further
    <2>4. \A n \in 0..depth' : n \in 0..depth \/ n = depth'
        BY <1>1, <1>2
    <2>5. \A n \in 0..depth : Within(steady, n) \subseteq visited'
        BY <1>1 DEF SearchInv
    <2>6. QED
        BY <2>3, <2>4, <2>5
<1>5. \A e \in steady : e[1] \in visited' => e[2] \in visited' \/ e[1] \in level'
    BY <1>1 DEF SearchInv, Found
<1>6. GraphInv'
    BY <1>1 DEF GraphInv
<1>7. CASE to \notin Found
    <2>1. UNCHANGED <<distance, pc>>
        BY <1>7 DEF NextLevel
    <2>2. SearchInv'
        BY <1>1, <1>2, <1>3, <1>4, <1>5, <1>7, <2>1 DEF SearchInv
    <2>3. DistanceBounded' /\ CountInv'
        BY <1>1, <2>1 DEF DistanceBounded, CountInv
    <2>4. QED
        BY <1>6, <2>2, <2>3
<1>8. CASE to \in Found
    <2>1. distance' = depth' /\ pc' = "counting"
        BY <1>8 DEF NextLevel
    <2>2. SearchInv' /\ CountInv'
        BY <1>1, <1>2, <2>1, InfinityIsFar DEF SearchInv, CountInv
    <2>3. depth' \in Distances(ever)
        BY <1>1, <1>2, <1>3, <1>8 DEF Distances
    <2>4. \A n \in Distances(steady) : depth' <= n
        <3> SUFFICES ASSUME NEW n \in Distances(steady), ~(depth' <= n) PROVE FALSE
            OBVIOUS
        <3>1. n \in 0..maxDepth /\ n \in Nat
            BY DEF Distances
        <3>2. n \in 0..depth
            BY <1>1, <1>2, <3>1
        <3>3. QED
            BY <1>1, <3>2 DEF SearchInv, Distances
    <2>5. depth' <= Infinity
        BY <1>2, InfinityIsFar
    <2>6. Shortest(ever) <= depth' /\ depth' <= Shortest(steady)
        BY <2>3, <2>4, <2>5, ShortestIsLeast
    <2>7. DistanceBounded'
        BY <1>1, <2>1, <2>6 DEF DistanceBounded
    <2>8. QED
        BY <1>6, <2>2, <2>7
<1>9. QED
    BY <1>7, <1>8

\* Who gives up has visited all that edges that stood lead to, as far as it may go.
LEMMA GiveUpInd == TrustInv /\ GiveUp => TrustInv'
<1> SUFFICES ASSUME TrustInv, GiveUp PROVE TrustInv'
    OBVIOUS
<1> USE DEF TrustInv
<1>1. /\ UNCHANGED <<follows, kept, ever, steady, mutual, asked, distance>>
      /\ pc = "searching" /\ pc' = "counting" /\ distance = Infinity
    BY DEF GiveUp, graphVars, countVars, searchVars, SearchInv
<1>2. \A n \in 0..maxDepth : Within(steady, n) \subseteq visited
    <2>1. CASE depth = maxDepth
        BY <1>1, <2>1 DEF SearchInv
    <2>2. CASE level = {} /\ lists = {}
        <3>1. from \in visited /\ \A e \in steady : e[1] \in visited => e[2] \in visited
            BY <1>1, <2>2 DEF SearchInv
        <3>2. QED
            BY <3>1, WithinClosed
    <2>3. QED
        BY <2>1, <2>2 DEF GiveUp
<1>3. Distances(steady) = {}
    BY <1>1, <1>2 DEF SearchInv, Distances
<1>4. Shortest(steady) = Infinity /\ Shortest(ever) <= Infinity
    BY <1>3, ShortestIsLeast
<1>5. DistanceBounded'
    BY <1>1, <1>4, InfinityIsFar DEF DistanceBounded
<1>6. GraphInv' /\ SearchInv' /\ CountInv'
    BY <1>1 DEF GraphInv, SearchInv, CountInv
<1>7. QED
    BY <1>5, <1>6

\* The followers of one end come, or that query fails.
LEMMA FollowersInd ==
    ASSUME TrustInv, NEW b \in Pubkeys, getFollowersForPubkey(b)
    PROVE  TrustInv'
<1> USE DEF TrustInv
<1>1. /\ UNCHANGED <<follows, kept, ever, pc, distance>>
      /\ pc = "counting" /\ b \in {from, to} /\ asked' = asked \cup {b}
    BY DEF getFollowersForPubkey, graphVars, searchVars
<1>2. /\ steady' \subseteq steady
      /\ mutual \subseteq mutual' /\ mutual' \subseteq mutual \cup kept
      /\ \A e \in steady' : e[2] = b => e \in mutual'
    BY DEF getFollowersForPubkey, GraphInv
<1>3. GraphInv' /\ SearchInv' /\ CountInv'
    BY <1>1, <1>2 DEF GraphInv, SearchInv, CountInv
<1>4. DistanceBounded'
    <2>1. Shortest(steady) <= Shortest(steady')
        BY <1>2, ShortestMonotone
    <2>2. Shortest(steady) \in Nat /\ Shortest(steady') \in Nat
        BY ShortestIsLeast
    <2>3. QED
        BY <1>1, <2>1, <2>2 DEF DistanceBounded, CountInv
<1>5. QED
    BY <1>3, <1>4

LEMMA TrustStep == TrustInv /\ [TrustNext]_trustVars => TrustInv'
<1> SUFFICES ASSUME TrustInv, [TrustNext]_trustVars PROVE TrustInv'
    OBVIOUS
<1>1. CASE \E a \in Pubkeys : getFollowsForPubkey(a) \/ getFollowersForPubkey(a)
    BY <1>1, FollowsInd, FollowersInd
<1>2. CASE NextLevel \/ GiveUp
    BY <1>2, NextLevelInd, GiveUpInd
<1>3. CASE Finish
    BY <1>3 DEF Finish, TrustInv, GraphInv, SearchInv, DistanceBounded, CountInv,
           graphVars, searchVars, countVars
<1>4. CASE \E a \in Pubkeys : \E b \in Pubkeys \ {a} : Publish(a, b)
    BY <1>4, PublishInd
<1>5. CASE UNCHANGED trustVars
    BY <1>5 DEF trustVars, TrustInv, GraphInv, SearchInv, DistanceBounded, CountInv,
           graphVars, searchVars, countVars
<1>6. QED
    BY <1>1, <1>2, <1>3, <1>4, <1>5 DEF TrustNext, SearchStep

LEMMA TrustInductive == TrustSpec => []TrustInv
<1> QED
    BY TrustInitInd, TrustStep, PTL DEF TrustSpec

\* The graph is never seen as a whole, yet for every graph, and however it changes
\* and queries fail, the distance found lies between two that are real.
THEOREM DistancesAreBounded == TrustSpec => []DistanceBounded
<1> QED
    BY TrustInductive, PTL DEF TrustInv

-------------------------------------------------------------------------------
\* Fractions <<numerator, denominator>> between 0 and 1, and their order.
Share(f) == f[1] \in Nat /\ f[2] \in Nat \ {0} /\ f[1] <= f[2]
NoMore(f, g) == f[1] * g[2] <= g[1] * f[2]

LEMMA TimesMonotone ==
    ASSUME NEW a \in Nat, NEW b \in Nat, NEW c \in Nat, a <= b
    PROVE  a * c <= b * c
<1> QED
    OBVIOUS

LEMMA TimesCancels ==
    ASSUME NEW a \in Nat, NEW b \in Nat, NEW c \in Nat \ {0}, a * c <= b * c
    PROVE  a <= b
<1>1. SUFFICES ASSUME b + 1 <= a PROVE FALSE
    OBVIOUS
<1>2. (b + 1) * c <= a * c
    BY <1>1, TimesMonotone
<1>3. (b + 1) * c = b * c + c
    OBVIOUS
<1>4. QED
    BY <1>2, <1>3

LEMMA DivBounds ==
    ASSUME NEW a \in Nat, NEW b \in Nat \ {0}
    PROVE  /\ a \div b \in Nat
           /\ b * (a \div b) <= a /\ a < b * ((a \div b) + 1)
<1> QED
    OBVIOUS

\* A greater share of h gives no less, rounded down.
LEMMA DivMonotone ==
    ASSUME NEW h \in Nat, NEW a \in Nat, NEW b \in Nat \ {0}, NEW c \in Nat, NEW d \in Nat \ {0},
           a * d <= c * b
    PROVE  (h * a) \div b <= (h * c) \div d
<1> DEFINE q == (h * a) \div b
           r == (h * c) \div d
<1>1. h * a \in Nat /\ h * c \in Nat
    OBVIOUS
<1>2. q \in Nat /\ b * q <= h * a
    BY <1>1, DivBounds
<1>3. r \in Nat /\ h * c < d * (r + 1)
    BY <1>1, DivBounds
<1> HIDE DEF q, r
<1>4. (b * q) * d <= (h * a) * d
    <2>1. b * q \in Nat
        BY <1>2
    <2>2. QED
        BY <1>1, <1>2, <2>1, TimesMonotone
<1>5. (a * d) * h <= (c * b) * h
    <2>1. a * d \in Nat /\ c * b \in Nat
        OBVIOUS
    <2>2. QED
        BY <2>1, TimesMonotone
<1>6. (h * a) * d = (a * d) * h /\ (c * b) * h = (h * c) * b
    OBVIOUS
<1>7. (b * q) * d = (q * d) * b
    BY <1>2
<1>8. (q * d) * b <= (h * c) * b
    <2>1. /\ (b * q) * d \in Nat /\ (h * a) * d \in Nat /\ (a * d) * h \in Nat
          /\ (c * b) * h \in Nat
        BY <1>2
    <2>2. (b * q) * d <= (c * b) * h
        BY <1>4, <1>5, <1>6, <2>1
    <2>3. QED
        BY <1>6, <1>7, <2>2
<1>9. q * d <= h * c
    <2>1. q * d \in Nat
        BY <1>2
    <2>2. QED
        BY <1>1, <1>8, <2>1, TimesCancels
<1>10. q * d < (r + 1) * d
    <2>1. q * d \in Nat /\ d * (r + 1) = (r + 1) * d
        BY <1>2, <1>3
    <2>2. QED
        BY <1>1, <1>3, <1>9, <2>1
<1>11. ~(r + 1 <= q)
    <2>1. r + 1 \in Nat /\ q * d \in Nat /\ (r + 1) * d \in Nat
        BY <1>2, <1>3
    <2>2. r + 1 <= q => (r + 1) * d <= q * d
        BY <1>2, <2>1, TimesMonotone
    <2>3. QED
        BY <1>10, <2>1, <2>2
<1>12. q <= r
    BY <1>2, <1>3, <1>11
<1>13. QED
    BY <1>12 DEF q, r

\* A share of h is no more than h.
LEMMA DivBounded ==
    ASSUME NEW h \in Nat, NEW a \in Nat, NEW b \in Nat \ {0}, a <= b
    PROVE  (h * a) \div b <= h
<1> DEFINE q == (h * a) \div b
<1>1. h * a \in Nat
    OBVIOUS
<1>2. q \in Nat /\ b * q <= h * a
    BY <1>1, DivBounds
<1> HIDE DEF q
<1>3. a * h <= b * h
    BY TimesMonotone
<1>4. b * q = q * b /\ a * h = h * a /\ b * h = h * b
    BY <1>2
<1>5. q * b \in Nat /\ h * a \in Nat /\ h * b \in Nat
    BY <1>2
<1>6. q * b <= h * b
    BY <1>2, <1>3, <1>4, <1>5
<1>7. q <= h
    BY <1>2, <1>6, TimesCancels
<1>8. QED
    BY <1>7 DEF q

\* The weighted sum grows with each of its parts.
LEMMA WeightedMonotone ==
    ASSUME NEW s \in Nat, NEW t \in Nat, NEW ss \in Nat, NEW tt \in Nat, s * tt <= ss * t,
           NEW m \in Nat, NEW mm \in Nat, m <= mm,
           NEW c \in Nat, NEW w1 \in Nat, NEW w2 \in Nat, NEW w3 \in Nat, NEW w \in Nat
    PROVE  (s * c * 2 * w1 + m * t * 2 * w2 + 1 * t * c * w3) * (tt * c * 2 * w)
             <= (ss * c * 2 * w1 + mm * tt * 2 * w2 + 1 * tt * c * w3) * (t * c * 2 * w)
<1> DEFINE A == s * c * 2 * w1
           B == m * t * 2 * w2
           C == 1 * t * c * w3
           AA == ss * c * 2 * w1
           BB == mm * tt * 2 * w2
           CC == 1 * tt * c * w3
           k == c * 2 * w
<1>1. A \in Nat /\ B \in Nat /\ C \in Nat /\ AA \in Nat /\ BB \in Nat /\ CC \in Nat /\ k \in Nat
    OBVIOUS
<1>2. A * tt <= AA * t
    <2>1. s * tt \in Nat /\ ss * t \in Nat /\ c * 2 * w1 \in Nat
        OBVIOUS
    <2>2. (s * tt) * (c * 2 * w1) <= (ss * t) * (c * 2 * w1)
        BY <2>1, TimesMonotone
    <2>3. A * tt = (s * tt) * (c * 2 * w1) /\ AA * t = (ss * t) * (c * 2 * w1)
        OBVIOUS
    <2>4. QED
        BY <2>2, <2>3
<1>3. B * tt <= BB * t
    <2>1. t * tt * 2 * w2 \in Nat
        OBVIOUS
    <2>2. m * (t * tt * 2 * w2) <= mm * (t * tt * 2 * w2)
        BY <2>1, TimesMonotone
    <2>3. B * tt = m * (t * tt * 2 * w2) /\ BB * t = mm * (t * tt * 2 * w2)
        OBVIOUS
    <2>4. QED
        BY <2>2, <2>3
<1>4. C * tt = CC * t
    OBVIOUS
<1> HIDE DEF A, B, C, AA, BB, CC, k
<1>5. (A + B + C) * tt <= (AA + BB + CC) * t
    <2>1. /\ (A + B + C) * tt = A * tt + B * tt + C * tt
          /\ (AA + BB + CC) * t = AA * t + BB * t + CC * t
        BY <1>1
    <2>2. /\ A * tt \in Nat /\ B * tt \in Nat /\ C * tt \in Nat
          /\ AA * t \in Nat /\ BB * t \in Nat /\ CC * t \in Nat
        BY <1>1
    <2>3. QED
        BY <1>2, <1>3, <1>4, <2>1, <2>2
<1>6. (A + B + C) * (tt * k) <= (AA + BB + CC) * (t * k)
    <2>1. (A + B + C) * tt \in Nat /\ (AA + BB + CC) * t \in Nat
        BY <1>1
    <2>2. ((A + B + C) * tt) * k <= ((AA + BB + CC) * t) * k
        BY <1>1, <1>5, <2>1, TimesMonotone
    <2>3. /\ ((A + B + C) * tt) * k = (A + B + C) * (tt * k)
          /\ ((AA + BB + CC) * t) * k = (AA + BB + CC) * (t * k)
        BY <1>1
    <2>4. QED
        BY <2>2, <2>3
<1>7. tt * k = tt * c * 2 * w /\ t * k = t * c * 2 * w
    BY DEF k
<1>8. QED
    BY <1>6, <1>7 DEF A, B, C, AA, BB, CC

\* It is no more than the sum of the weights.
LEMMA WeightedBounded ==
    ASSUME NEW s \in Nat, NEW t \in Nat, s <= t, NEW m \in Nat, NEW c \in Nat, m <= c,
           NEW w1 \in Nat, NEW w2 \in Nat, NEW w3 \in Nat
    PROVE  s * c * 2 * w1 + m * t * 2 * w2 + 1 * t * c * w3 <= t * c * 2 * (w1 + w2 + w3)
<1>1. s * c * 2 * w1 <= t * c * 2 * w1
    <2>1. c * 2 * w1 \in Nat
        OBVIOUS
    <2>2. s * (c * 2 * w1) <= t * (c * 2 * w1)
        BY <2>1, TimesMonotone
    <2>3. s * c * 2 * w1 = s * (c * 2 * w1) /\ t * c * 2 * w1 = t * (c * 2 * w1)
        OBVIOUS
    <2>4. QED
        BY <2>2, <2>3
<1>2. m * t * 2 * w2 <= t * c * 2 * w2
    <2>1. t * 2 * w2 \in Nat
        OBVIOUS
    <2>2. m * (t * 2 * w2) <= c * (t * 2 * w2)
        BY <2>1, TimesMonotone
    <2>3. m * t * 2 * w2 = m * (t * 2 * w2) /\ t * c * 2 * w2 = c * (t * 2 * w2)
        OBVIOUS
    <2>4. QED
        BY <2>2, <2>3
<1>3. 1 * t * c * w3 <= t * c * 2 * w3
    <2>1. t * c * w3 \in Nat
        OBVIOUS
    <2>2. 1 * t * c * w3 = t * c * w3 /\ t * c * 2 * w3 = 2 * (t * c * w3)
        OBVIOUS
    <2>3. QED
        BY <2>1, <2>2
<1>4. t * c * 2 * (w1 + w2 + w3) = t * c * 2 * w1 + t * c * 2 * w2 + t * c * 2 * w3
    OBVIOUS
<1> DEFINE x1 == s * c * 2 * w1
           x2 == m * t * 2 * w2
           x3 == 1 * t * c * w3
           y1 == t * c * 2 * w1
           y2 == t * c * 2 * w2
           y3 == t * c * 2 * w3
<1>5. x1 \in Nat /\ x2 \in Nat /\ x3 \in Nat /\ y1 \in Nat /\ y2 \in Nat /\ y3 \in Nat
    OBVIOUS
<1>6. x1 <= y1 /\ x2 <= y2 /\ x3 <= y3 /\ t * c * 2 * (w1 + w2 + w3) = y1 + y2 + y3
    BY <1>1, <1>2, <1>3, <1>4
<1> HIDE DEF x1, x2, x3, y1, y2, y3
<1>7. x1 + x2 + x3 <= t * c * 2 * (w1 + w2 + w3)
    BY <1>5, <1>6
<1>8. QED
    BY <1>7 DEF x1, x2, x3

LEMMA PositiveProduct ==
    /\ \A a \in Nat \ {0}, b \in Nat \ {0} : a * b \in Nat \ {0}
    /\ \A a \in Nat \ {0}, b \in Nat \ {0}, c \in Nat \ {0} : a * b * 2 * c \in Nat \ {0}
<1>1. \A a \in Nat \ {0}, b \in Nat \ {0} : a * b \in Nat \ {0}
    <2> TAKE a \in Nat \ {0}, b \in Nat \ {0}
    <2>1. 1 * b <= a * b
        BY TimesMonotone
    <2>2. QED
        BY <2>1
<1>2. \A a \in Nat \ {0}, b \in Nat \ {0}, c \in Nat \ {0} : a * b * 2 * c \in Nat \ {0}
    <2> TAKE a \in Nat \ {0}, b \in Nat \ {0}, c \in Nat \ {0}
    <2>1. a * b \in Nat \ {0}
        BY <1>1
    <2>2. a * b * 2 \in Nat \ {0}
        BY <1>1, <2>1
    <2>3. QED
        BY <1>1, <2>2
<1>3. QED
    BY <1>1, <1>2

-------------------------------------------------------------------------------
\* Credit

LEMMA DistanceScore ==
    ASSUME NEW d \in Nat, NEW e \in Nat, d <= e, e <= Infinity
    PROVE  /\ Share(calculateSocialDistanceScore(d))
           /\ Share(calculateSocialDistanceScore(e))
           /\ NoMore(calculateSocialDistanceScore(e), calculateSocialDistanceScore(d))
<1> DEFINE M == maxSocialDistance
<1>1. M \in Nat \ {0} /\ Infinity \in Nat
    BY TrustAssumption, InfinityIsFar
<1>2. \A n \in Nat : n <= Infinity =>
          \/ calculateSocialDistanceScore(n) = <<0, 1>> /\ (n = Infinity \/ (n >= M /\ n > 1))
          \/ calculateSocialDistanceScore(n) = <<1, 1>> /\ n <= 1 /\ n # Infinity
          \/ /\ calculateSocialDistanceScore(n) = <<M - n, M - 1>>
             /\ 1 < n /\ n < M /\ n # Infinity
    <2> TAKE n \in Nat
    <2>1. CASE n = Infinity
        BY <2>1 DEF calculateSocialDistanceScore
    <2>2. CASE n # Infinity /\ n <= 1
        BY <2>2 DEF calculateSocialDistanceScore
    <2>3. CASE n # Infinity /\ ~(n <= 1) /\ n >= M
        BY <2>3 DEF calculateSocialDistanceScore
    <2>4. CASE n # Infinity /\ ~(n <= 1) /\ ~(n >= M)
        BY <2>4, <1>1 DEF calculateSocialDistanceScore
    <2>5. QED
        BY <2>1, <2>2, <2>3, <2>4
<1>3. \A n \in Nat : n <= Infinity => Share(calculateSocialDistanceScore(n))
    <2> SUFFICES ASSUME NEW n \in Nat, n <= Infinity PROVE Share(calculateSocialDistanceScore(n))
        OBVIOUS
    <2>1. Share(<<0, 1>>) /\ Share(<<1, 1>>)
        BY DEF Share
    <2>2. 1 < n /\ n < M => Share(<<M - n, M - 1>>)
        BY <1>1 DEF Share
    <2>3. QED
        BY <1>2, <2>1, <2>2
<1>4. d <= Infinity
    BY <1>1
<1>5. CASE calculateSocialDistanceScore(e) = <<0, 1>>
    BY <1>3, <1>4, <1>5 DEF Share, NoMore
<1>6. CASE calculateSocialDistanceScore(d) = <<1, 1>>
    BY <1>3, <1>6 DEF Share, NoMore
<1>7. CASE /\ calculateSocialDistanceScore(e) # <<0, 1>>
           /\ calculateSocialDistanceScore(d) # <<1, 1>>
    <2>1. 1 < d /\ d < Infinity /\ e < Infinity
        BY <1>1, <1>2, <1>4, <1>7
    <2>2. calculateSocialDistanceScore(e) = <<M - e, M - 1>> /\ e < M
        BY <1>2, <1>7, <2>1
    <2>3. calculateSocialDistanceScore(d) = <<M - d, M - 1>> /\ d < M
        BY <1>2, <1>1, <1>4, <1>7, <2>1, <2>2
    <2>4. (M - e) * (M - 1) <= (M - d) * (M - 1)
        BY <1>1, <2>2, <2>3, TimesMonotone
    <2>5. QED
        BY <2>2, <2>3, <2>4, <1>3, <1>4 DEF NoMore
<1>8. QED
    BY <1>3, <1>4, <1>5, <1>6, <1>7

LEMMA FollowersScore ==
    ASSUME NEW k \in Nat, NEW n \in Nat, k <= n
    PROVE  /\ Share(calculateMutualFollowersScore(k))
           /\ calculateMutualFollowersScore(k)[2] = maxMutualFollowers
           /\ calculateMutualFollowersScore(k)[1] <= calculateMutualFollowersScore(n)[1]
<1>1. maxMutualFollowers \in Nat \ {0}
    BY TrustAssumption
<1>2. \A i \in Nat : calculateMutualFollowersScore(i) =
          <<IF i < maxMutualFollowers THEN i ELSE maxMutualFollowers, maxMutualFollowers>>
    BY DEF calculateMutualFollowersScore
<1>3. QED
    BY <1>1, <1>2 DEF Share

\* Closer, and followed by more of those that follow both, is trusted no less.
LEMMA TrustMonotone ==
    ASSUME NEW d \in Nat, NEW e \in Nat, d <= e, e <= Infinity,
           NEW k \in Nat, NEW n \in Nat, k <= n
    PROVE  /\ Share(computeTrustScore(e, k))
           /\ Share(computeTrustScore(d, n))
           /\ NoMore(computeTrustScore(e, k), computeTrustScore(d, n))
<1> DEFINE s == calculateSocialDistanceScore(e)
           ss == calculateSocialDistanceScore(d)
           m == calculateMutualFollowersScore(k)
           mm == calculateMutualFollowersScore(n)
           c == maxMutualFollowers
           w1 == socialDistanceWeight
           w2 == mutualFollowersWeight
           w3 == reputationWeight
           w == w1 + w2 + w3
<1>1. Share(s) /\ Share(ss) /\ NoMore(s, ss)
    BY DistanceScore
<1>2. Share(m) /\ Share(mm) /\ m[1] <= mm[1] /\ m[2] = c /\ mm[2] = c
    BY FollowersScore
<1>3. c \in Nat \ {0} /\ w1 \in Nat /\ w2 \in Nat /\ w3 \in Nat /\ w \in Nat
    BY TrustAssumption
<1>4. CASE w = 0
    <2>1. computeTrustScore(e, k) = <<0, 1>> /\ computeTrustScore(d, n) = <<0, 1>>
        BY <1>4 DEF computeTrustScore
    <2>2. QED
        BY <2>1 DEF Share, NoMore
<1>5. CASE w # 0
    <2> DEFINE N == s[1] * c * 2 * w1 + m[1] * s[2] * 2 * w2 + 1 * s[2] * c * w3
               D == s[2] * c * 2 * w
               NN == ss[1] * c * 2 * w1 + mm[1] * ss[2] * 2 * w2 + 1 * ss[2] * c * w3
               DD == ss[2] * c * 2 * w
    <2>1. computeTrustScore(e, k) = <<N, D>> /\ computeTrustScore(d, n) = <<NN, DD>>
        BY <1>2, <1>5 DEF computeTrustScore, calculateReputationScore
    <2> HIDE DEF s, ss, m, mm, c, w1, w2, w3
    <2>2. /\ s[1] \in Nat /\ s[2] \in Nat \ {0} /\ s[1] <= s[2]
          /\ ss[1] \in Nat /\ ss[2] \in Nat \ {0} /\ ss[1] <= ss[2]
          /\ m[1] \in Nat /\ m[1] <= c /\ mm[1] \in Nat /\ mm[1] <= c /\ m[1] <= mm[1]
          /\ s[1] * ss[2] <= ss[1] * s[2]
        BY <1>1, <1>2 DEF Share, NoMore
    <2>3. N * DD <= NN * D
        BY <1>3, <2>2, WeightedMonotone
    <2>4. N <= D /\ NN <= DD
        BY <1>3, <2>2, WeightedBounded
    <2>5. N \in Nat /\ NN \in Nat
        BY <1>3, <2>2
    <2>6. D \in Nat \ {0} /\ DD \in Nat \ {0}
        BY <1>3, <1>5, <2>2, PositiveProduct
    <2> HIDE DEF N, NN, D, DD
    <2>7. QED
        BY <2>1, <2>3, <2>4, <2>5, <2>6 DEF Share, NoMore
<1>6. QED
    BY <1>4, <1>5

LEMMA SquareMonotone ==
    ASSUME NEW a \in Nat, NEW b \in Nat, a <= b
    PROVE  a * a <= b * b
<1>1. a * a <= b * a /\ b * a = a * b /\ a * b <= b * b
    BY TimesMonotone
<1>2. QED
    BY <1>1

\* More trust earns no less credit, and all trust no more than the upper limit.
LEMMA LimitMonotone ==
    ASSUME NEW f, NEW g, Share(f), Share(g), NoMore(f, g), f = <<f[1], f[2]>>, g = <<g[1], g[2]>>
    PROVE  /\ calculateCreditLimit(f) <= calculateCreditLimit(g)
           /\ \E limit \in {minCredit, maxCredit} : limit <= calculateCreditLimit(f)
           /\ calculateCreditLimit(f) \in Nat /\ calculateCreditLimit(g) \in Nat
           /\ \E limit \in {minCredit, maxCredit, 0} : calculateCreditLimit(f) <= limit
<1> DEFINE low == IF minCredit > maxCredit THEN maxCredit ELSE minCredit
           high == IF minCredit > maxCredit THEN minCredit ELSE maxCredit
           h == high - low
           ShareOf(ff) == IF curve = "linear" THEN ff ELSE <<ff[1] * ff[1], ff[2] * ff[2]>>
           Earned(ff) == (h * ShareOf(ff)[1]) \div ShareOf(ff)[2]
<1>1. low \in {minCredit, maxCredit} /\ low \in Int
      /\ high \in {minCredit, maxCredit} /\ high \in Int /\ h \in Nat /\ low + h = high
    BY TrustAssumption
<1>2. \A ff : calculateCreditLimit(ff) =
                  IF low + Earned(ff) > 0 THEN low + Earned(ff) ELSE 0
    BY DEF calculateCreditLimit
<1> HIDE DEF low, high, h
<1>3. Share(ShareOf(f)) /\ Share(ShareOf(g)) /\ NoMore(ShareOf(f), ShareOf(g))
    <2>1. CASE curve = "linear"
        BY <2>1
    <2>2. CASE curve # "linear"
        <3>1. /\ f[1] \in Nat /\ f[2] \in Nat \ {0} /\ f[1] <= f[2]
              /\ g[1] \in Nat /\ g[2] \in Nat \ {0} /\ g[1] <= g[2]
              /\ f[1] * g[2] <= g[1] * f[2]
            BY DEF Share, NoMore
        <3>2. f[1] * g[2] \in Nat /\ g[1] * f[2] \in Nat
            BY <3>1
        <3>3. (f[1] * g[2]) * (f[1] * g[2]) <= (g[1] * f[2]) * (g[1] * f[2])
            BY <3>1, <3>2, SquareMonotone
        <3>4. f[1] * f[1] <= f[2] * f[2] /\ g[1] * g[1] <= g[2] * g[2]
            BY <3>1, SquareMonotone
        <3>5. /\ (f[1] * g[2]) * (f[1] * g[2]) = (f[1] * f[1]) * (g[2] * g[2])
              /\ (g[1] * f[2]) * (g[1] * f[2]) = (g[1] * g[1]) * (f[2] * f[2])
            BY <3>1
        <3>6. /\ f[1] * f[1] \in Nat /\ g[1] * g[1] \in Nat
              /\ f[2] * f[2] \in Nat \ {0} /\ g[2] * g[2] \in Nat \ {0}
            BY <3>1, PositiveProduct
        <3>7. QED
            BY <2>2, <3>3, <3>4, <3>5, <3>6 DEF Share, NoMore
    <2>3. QED
        BY <2>1, <2>2
<1> HIDE DEF ShareOf
<1>4. Earned(f) \in Nat /\ Earned(g) \in Nat /\ Earned(f) <= Earned(g) /\ Earned(f) <= h
    <2> DEFINE a == ShareOf(f)[1]
               b == ShareOf(f)[2]
               c == ShareOf(g)[1]
               d == ShareOf(g)[2]
    <2>1. /\ a \in Nat /\ b \in Nat \ {0} /\ a <= b /\ c \in Nat /\ d \in Nat \ {0} /\ c <= d
          /\ a * d <= c * b
        BY <1>3 DEF Share, NoMore
    <2> HIDE DEF a, b, c, d
    <2>2. (h * a) \div b <= (h * c) \div d
        BY <1>1, <2>1, DivMonotone
    <2>3. h * a \in Nat /\ h * c \in Nat
        BY <1>1, <2>1
    <2>4. (h * a) \div b \in Nat /\ (h * c) \div d \in Nat
        BY <2>1, <2>3, DivBounds
    <2>5. (h * a) \div b <= h
        BY <1>1, <2>1, DivBounded
    <2>6. Earned(f) = (h * a) \div b /\ Earned(g) = (h * c) \div d
        BY DEF a, b, c, d
    <2> HIDE DEF Earned
    <2>7. QED
        BY <2>2, <2>4, <2>5, <2>6
<1> HIDE DEF Earned
<1>5. /\ calculateCreditLimit(f) <= high \/ calculateCreditLimit(f) = 0
      /\ low <= calculateCreditLimit(f)
    BY <1>1, <1>2, <1>4
<1>6. QED
    BY <1>1, <1>2, <1>4, <1>5

\* A shorter distance and more followers earn no less.
LEMMA CreditMonotone ==
    ASSUME NEW d \in Nat, NEW e \in Nat, d <= e, e <= Infinity,
           NEW k \in Nat, NEW n \in Nat, k <= n
    PROVE  /\ Credit(e, k) <= Credit(d, n)
           /\ Credit(e, k) \in Nat /\ Credit(d, n) \in Nat
           /\ \E limit \in {minCredit, maxCredit} : limit <= Credit(e, k)
           /\ \E limit \in {minCredit, maxCredit, 0} : Credit(e, k) <= limit
<1>1. /\ Share(computeTrustScore(e, k)) /\ Share(computeTrustScore(d, n))
      /\ NoMore(computeTrustScore(e, k), computeTrustScore(d, n))
    BY TrustMonotone
<1>2. \A f \in {computeTrustScore(e, k), computeTrustScore(d, n)} : f = <<f[1], f[2]>>
    BY DEF computeTrustScore
<1>3. QED
    BY <1>1, <1>2, LimitMonotone DEF Credit

\* Whoever follows both ends along some edges does along more.
LEMMA MoreFollowers ==
    ASSUME NEW edges, NEW more, \A a \in Followers(edges) : a \in Followers(more)
    PROVE  /\ Cardinality(Followers(edges)) \in Nat /\ Cardinality(Followers(more)) \in Nat
           /\ Cardinality(Followers(edges)) <= Cardinality(Followers(more))
<1>1. IsFiniteSet(Followers(more)) /\ IsFiniteSet(Followers(edges))
    BY TrustAssumption, FS_Subset DEF Followers
<1>2. Followers(edges) \subseteq Followers(more)
    OBVIOUS
<1>3. QED
    BY <1>1, <1>2, FS_Subset, FS_CardinalityType

LEMMA CreditIsBetween == TrustInv => CreditJustified
<1> SUFFICES ASSUME TrustInv, pc = "done" PROVE CreditJustified
    BY DEF CreditJustified
<1> DEFINE k == Cardinality(Followers(steady))
           n == Cardinality(Followers(mutual))
           o == Cardinality(Followers(kept))
<1>1. Shortest(ever) <= distance /\ distance <= Shortest(steady) /\ distance \in Nat
    BY DEF TrustInv, DistanceBounded, CountInv
<1>2. /\ Shortest(ever) \in Nat /\ Shortest(steady) \in Nat
      /\ Shortest(steady) <= Infinity /\ distance <= Infinity
    BY ShortestIsLeast DEF TrustInv, CountInv
<1>3. (\A a \in Followers(steady) : a \in Followers(mutual))
      /\ (\A a \in Followers(mutual) : a \in Followers(kept))
    BY DEF TrustInv, CountInv, GraphInv, Followers
<1>4. k \in Nat /\ n \in Nat /\ o \in Nat /\ k <= n /\ n <= o
    BY <1>3, MoreFollowers
<1>5. Credit(Shortest(steady), k) <= Credit(distance, n)
    BY <1>1, <1>2, <1>4, CreditMonotone
<1> DEFINE d == Shortest(ever)
<1>6. d \in Nat /\ d <= distance
    BY <1>1, <1>2
<1> HIDE DEF d, n, o
<1>7. /\ Credit(distance, n) <= Credit(d, o)
      /\ Credit(distance, n) \in Nat
      /\ \E limit \in {minCredit, maxCredit} : limit <= Credit(distance, n)
      /\ \E limit \in {minCredit, maxCredit, 0} : Credit(distance, n) <= limit
    BY <1>1, <1>2, <1>4, <1>6, CreditMonotone
<1>8. QED
    BY <1>5, <1>7 DEF CreditJustified, d, n, o

\* Failures and changes while trust is computed earn a peer no less than the follows
\* that stood; no more than the follows there were and the followers in the lists
\* that relays keep; and what lies between the limits: for every graph, every weight
\* of the scores and every credit curve.
THEOREM CreditIsJustified == TrustSpec => []CreditJustified
<1> QED
    BY TrustInductive, CreditIsBetween, PTL
===============================================================================
