------------------------------ MODULE SocialTrust ------------------------------
(***************************************************************************)
(* SocialTrustManager.computeTrustScore and calculateCreditLimit           *)
(* (packages/core/src/trust): how far a peer is in the follow graph, how   *)
(* many follow both, and the credit that earns it.                         *)
(*                                                                         *)
(* The graph is read one query at a time, over many round trips, while     *)
(* accounts go on publishing follow lists and queries fail.  Relays may    *)
(* keep the lists that newer ones superseded, as this repository's relay   *)
(* does: kind 3 is a regular kind for its store.  Of several relays the    *)
(* one that has the newest list may fail, and another give an older one.   *)
(*                                                                         *)
(* Scores are fractions, here pairs <<numerator, denominator>>; rounding   *)
(* of the program's floating-point numbers is left out.                    *)
(***************************************************************************)
EXTENDS Integers, FiniteSets

CONSTANTS
    Pubkeys,
    from, to,                \* who trusts, and who is evaluated
    FollowGraphs,            \* graphs of follows at the start: sets of pairs
    Superseded,              \* pairs of older lists that relays still keep then
    MaxChanges, MaxFailures, \* bounds: edges that change, and queries that fail
    maxDepth,                \* of getSocialDistance: 3
    maxSocialDistance, maxMutualFollowers,
    socialDistanceWeight, mutualFollowersWeight, reputationWeight,
    minCredit, maxCredit, curve

ASSUME TrustAssumption ==
    /\ {from, to} \subseteq Pubkeys /\ from # to /\ IsFiniteSet(Pubkeys)
    /\ FollowGraphs \subseteq SUBSET (Pubkeys \X Pubkeys)
    /\ Superseded \subseteq SUBSET (Pubkeys \X Pubkeys)
    /\ {MaxChanges, MaxFailures, maxDepth, socialDistanceWeight, mutualFollowersWeight,
        reputationWeight} \subseteq Nat
    /\ {maxSocialDistance, maxMutualFollowers} \subseteq Nat \ {0}
    /\ {minCredit, maxCredit} \subseteq Int /\ curve \in {"linear", "exponential"}

VARIABLES
    follows,   \* the follow graph, as the newest lists of the accounts have it
    pc,        \* searching, or counting followers, or done
    depth,
    visited,
    level,     \* accounts of the present level whose lists have not come yet
    lists,     \* <<a, b>>: b is in the list of a, as received for this level
    distance,  \* what getSocialDistance returned
    mutual,    \* followers received: of which end, and who
    asked,     \* ends whose followers have been received
    changes, failures,  \* how many there have been
    kept,      \* edges of all lists that relays keep, superseded ones included
    ever,      \* history: edges there have been during the search, and those that
               \* an older list had which was taken for the newest
    steady     \* history: edges there have been all along, and no query missed

graphVars == <<follows, changes, kept>>
searchVars == <<depth, visited, level, lists, distance>>
countVars == <<mutual, asked>>
trustVars == <<graphVars, pc, searchVars, countVars, failures, ever, steady>>

\* Greater than any distance.
Infinity == Cardinality(Pubkeys) + maxDepth + 1

TrustInit ==
    /\ follows \in FollowGraphs
    /\ \E older \in Superseded : kept = follows \cup older
    /\ ever = follows /\ steady = follows
    /\ changes = 0 /\ failures = 0
    /\ pc = "searching" /\ depth = 0 /\ distance = Infinity
    /\ visited = {from} /\ level = {from} /\ lists = {}
    /\ mutual = {} /\ asked = {}

-------------------------------------------------------------------------------
\* An account publishes a list with one name more or less.
Publish(a, b) ==
    /\ changes < MaxChanges /\ pc # "done"
    /\ changes' = changes + 1
    /\ follows' = IF <<a, b>> \in follows THEN follows \ {<<a, b>>} ELSE follows \cup {<<a, b>>}
    /\ kept' = kept \cup follows' /\ ever' = ever \cup follows'
    /\ steady' = steady \cap follows'
    /\ UNCHANGED <<pc, searchVars, countVars, failures>>

Fails == failures < MaxFailures /\ failures' = failures + 1

\* One of the queries of this level, which run in parallel.  The newest of the
\* lists that arrive counts.  When relays fail it is an older one, or none.
getFollowsForPubkey(a) ==
    LET newest == {e \in follows : e[1] = a} IN
    /\ pc = "searching" /\ a \in level /\ depth < maxDepth
    /\ \E list \in SUBSET {e \in kept : e[1] = a} :
           /\ lists' = lists \cup list
           /\ IF list = newest THEN UNCHANGED failures ELSE Fails
           /\ ever' = ever \cup list
           /\ steady' = steady \ (newest \ list)
    /\ level' = level \ {a}
    /\ UNCHANGED <<graphVars, pc, depth, visited, distance, countVars>>

Found == {e[2] : e \in lists}

\* Mutation of NextLevel: the distance is the depth of the level before.
NextLevelOffByOne ==
    /\ pc = "searching" /\ level = {} /\ to \in Found
    /\ distance' = depth /\ pc' = "counting" /\ depth' = depth + 1
    /\ UNCHANGED <<graphVars, visited, level, lists, countVars, failures, ever, steady>>

\* All queries of a level are awaited before the target is looked for; the
\* accounts not yet visited form the next one.
NextLevel ==
    /\ pc = "searching" /\ level = {} /\ lists # {}
    /\ depth' = depth + 1
    /\ visited' = visited \cup Found
    /\ level' = Found \ visited
    /\ lists' = {}
    /\ IF to \in Found THEN distance' = depth' /\ pc' = "counting"
                       ELSE UNCHANGED <<distance, pc>>
    /\ UNCHANGED <<graphVars, countVars, failures, ever, steady>>

\* Nothing is left to visit, or the depth is reached.
GiveUp ==
    /\ pc = "searching"
    /\ (level = {} /\ lists = {}) \/ depth = maxDepth
    /\ pc' = "counting"
    /\ UNCHANGED <<graphVars, searchVars, countVars, failures, ever, steady>>

\* The two queries of getMutualFollowers, which begin once the distance is known.
\* They ask for lists that name an account, and take every author for a follower:
\* whose newest list does not name it counts as well, where a relay keeps older
\* ones.  When relays fail, some or all followers are missed.
getFollowersForPubkey(b) ==
    LET present == {e \in follows : e[2] = b} IN
    /\ pc = "counting" /\ b \in {from, to} \ asked
    /\ asked' = asked \cup {b}
    /\ \E list \in SUBSET {e \in kept : e[2] = b} :
           /\ mutual' = mutual \cup list
           /\ IF present \subseteq list THEN UNCHANGED failures ELSE Fails
           /\ steady' = steady \ (present \ list)
    /\ UNCHANGED <<graphVars, pc, searchVars, ever>>

-------------------------------------------------------------------------------
\* Scores

Followers(edges) == {a \in Pubkeys : <<a, from>> \in edges /\ <<a, to>> \in edges}

\* Mutation of calculateSocialDistanceScore: it grows with the distance.
calculateSocialDistanceScoreReversed(d) ==
    IF d = Infinity THEN <<0, 1>>
    ELSE IF d <= 1 THEN <<1, 1>>
    ELSE IF d >= maxSocialDistance THEN <<0, 1>>
    ELSE <<d, maxSocialDistance>>

\* Linear decay between direct follows and the maximum.
calculateSocialDistanceScore(d) ==
    IF d = Infinity THEN <<0, 1>>
    ELSE IF d <= 1 THEN <<1, 1>>
    ELSE IF d >= maxSocialDistance THEN <<0, 1>>
    ELSE <<maxSocialDistance - d, maxSocialDistance - 1>>

calculateMutualFollowersScore(count) ==
    <<IF count < maxMutualFollowers THEN count ELSE maxMutualFollowers, maxMutualFollowers>>

\* Neutral reputation.
calculateReputationScore == <<1, 2>>

\* The weighted average, in [0, 1] because its parts are.
computeTrustScore(d, count) ==
    LET s == calculateSocialDistanceScore(d)
        m == calculateMutualFollowersScore(count)
        r == calculateReputationScore
        total == socialDistanceWeight + mutualFollowersWeight + reputationWeight
    IN IF total = 0 THEN <<0, 1>>
       ELSE <<s[1] * m[2] * r[2] * socialDistanceWeight
                + m[1] * s[2] * r[2] * mutualFollowersWeight
                + r[1] * s[2] * m[2] * reputationWeight,
              s[2] * m[2] * r[2] * total>>

\* Limits in the wrong order are swapped; \div rounds down.
calculateCreditLimit(score) ==
    LET low == IF minCredit > maxCredit THEN maxCredit ELSE minCredit
        high == IF minCredit > maxCredit THEN minCredit ELSE maxCredit
        share == IF curve = "linear" THEN score
                 ELSE <<score[1] * score[1], score[2] * score[2]>>
        creditLimit == low + ((high - low) * share[1]) \div share[2]
    IN IF creditLimit > 0 THEN creditLimit ELSE 0

\* What the caller grants.
Credit(d, count) == calculateCreditLimit(computeTrustScore(d, count))

Finish ==
    /\ pc = "counting" /\ asked = {from, to}
    /\ pc' = "done"
    /\ UNCHANGED <<graphVars, searchVars, countVars, failures, ever, steady>>

SearchStep ==
    \/ \E a \in Pubkeys : getFollowsForPubkey(a) \/ getFollowersForPubkey(a)
    \/ NextLevel \/ GiveUp \/ Finish

TrustNext == SearchStep \/ \E a \in Pubkeys : \E b \in Pubkeys \ {a} : Publish(a, b)

TrustSpec == TrustInit /\ [][TrustNext]_trustVars
-------------------------------------------------------------------------------
\* Properties

\* Accounts that at most n steps along the edges lead to, for each n.
Reach(edges) ==
    LET reach[n \in 0..maxDepth] ==
            IF n = 0 THEN {from}
            ELSE reach[n - 1] \cup {e[2] : e \in {f \in edges : f[1] \in reach[n - 1]}}
    IN reach

Within(edges, n) == Reach(edges)[n]

Distances(edges) == {n \in 0..maxDepth : to \in Within(edges, n)}

Shortest(edges) ==
    IF Distances(edges) = {} THEN Infinity
    ELSE CHOOSE n \in Distances(edges) : \A k \in Distances(edges) : n <= k

\* The graph is never seen as a whole, yet the distance found lies between two
\* that are real: every step of the path is an edge there was during the search
\* (or, where relays failed, of an older list), and a path of edges that stood all
\* along, with no query missing them, is not missed.
DistanceBounded ==
    pc # "searching" => /\ Shortest(ever) <= distance
                        /\ distance <= Shortest(steady)

\* Failures and changes while trust is computed never earn a peer less credit than
\* the follows that stood all along.  They earn it more than the follows there were
\* only by followers of old, whose superseded lists relays keep; and credit stays
\* between the limits, whatever their order, and is never negative.
CreditJustified ==
    pc = "done" =>
        LET granted == Credit(distance, Cardinality(Followers(mutual)))
            By(path, lasting) == Credit(Shortest(path), Cardinality(Followers(lasting)))
        IN /\ By(steady, steady) <= granted /\ granted <= By(ever, kept)
           /\ \E limit \in {minCredit, maxCredit} : limit <= granted
           /\ granted >= 0 /\ \E limit \in {minCredit, maxCredit, 0} : granted <= limit
===============================================================================
