---------------------------- MODULE BootstrapProofs ----------------------------
(***************************************************************************)
(* Proofs about Bootstrap, for any number of known peers, any events and   *)
(* whatever clients the service is given.                                  *)
(***************************************************************************)
EXTENDS Bootstrap, SequenceTheorems, TLAPS

\* The types without the bounds that results and offered keep to.
TypesOK ==
    /\ clients \subseteq Clients /\ phase \in Phases /\ step \in Steps
    /\ index \in 1..(Len(Queue) + 1)
    /\ call \in {"none", "sent", "ok", "error", "channel", "plain", "refused"}
    /\ results \in Seq(Peers) /\ channel \subseteq Peers
    /\ connector \in [Peers -> {"absent", "listed", "settled"}]
    /\ offered \in [Peers -> 0..1]

QueryTypesOK ==
    /\ socket \in [Peers -> {"none", "connecting", "open", "closing", "closed"}]
    /\ timer \in [Peers -> {"none", "set", "fired"}]
    /\ events \in [Peers -> SUBSET Stamps]
    /\ resolved \in [Peers -> BOOLEAN]
    /\ promise \in [Peers -> {"none", "pending", "resolved", "rejected"}]
    /\ peerInfo \in [Peers -> Stamps \cup {0}]

\* A query that has not begun has neither socket nor timer, and is not resolved.
QueryInv(p) ==
    /\ promise[p] = "none" => ~resolved[p] /\ socket[p] = "none" /\ timer[p] = "none"
    /\ promise[p] # "none" => socket[p] # "none" /\ timer[p] # "none"
    /\ resolved[p] <=> Settled(p)
    /\ socket[p] = "closed" \/ timer[p] = "fired" => resolved[p]
    /\ promise[p] = "resolved" => peerInfo[p] \in events[p] \ Unparseable

QueriesInv == QueryTypesOK /\ \A p \in Peers : QueryInv(p)

\* Each result is of another peer, whose query was resolved.
ResultsInv ==
    /\ \A i, j \in DOMAIN results : results[i] = results[j] => i = j
    /\ \A i \in DOMAIN results : promise[results[i]] = "resolved"
    /\ Len(results) <= Len(Queue)

\* Peers from the present one on have no result, and those after it no query.
\* Without a runtime a peer is handed our info with its result.
RegisteringInv ==
    step \in {"idle", "loading", "nextPeer", "querying", "adding"} =>
        /\ phase # "ready"
        /\ Len(results) < index
        /\ step \in {"querying", "adding"} => index \in DOMAIN Queue
        /\ step = "adding" => promise[Queue[index]] = "resolved"
        /\ \A j \in DOMAIN Queue : j >= index =>
               /\ \A i \in DOMAIN results : results[i] # Queue[j]
               /\ j > index \/ step \notin {"querying", "adding"} => promise[Queue[j]] = "none"
        /\ \A p \in Peers : offered[p] = IF ~HasRuntime /\ p \in Bootstrapped THEN 1 ELSE 0

\* Nobody is handed our info while channels are negotiated.
HandshakingInv ==
    step \in {"nextHandshake", "handshaking", "updating"} =>
        /\ phase # "ready" /\ HasRuntime
        /\ step # "nextHandshake" => index \in DOMAIN results
        /\ step = "updating" => results[index] \in channel
        /\ \A p \in Peers : offered[p] = 0

\* With an encoder, the peers up to the present one have been handed our info.
Announced(p) ==
    \E i \in DOMAIN results : results[i] = p /\ (i < index \/ (i = index /\ step = "announcing"))

AnnouncingInv ==
    step \in {"nextAnnouncement", "announcing"} =>
        /\ phase # "ready" /\ HasRuntime
        /\ step = "announcing" => index \in DOMAIN results /\ HasEncoder
        /\ \A p \in Peers : offered[p] = IF HasEncoder /\ Announced(p) THEN 1 ELSE 0

DoneInv ==
    step = "done" \/ (step = "crashed" /\ phase = "ready") =>
        \A p \in Peers :
            offered[p] = IF p \in Bootstrapped /\ (HasRuntime => HasEncoder) THEN 1 ELSE 0

LoopsInv == RegisteringInv /\ HandshakingInv /\ AnnouncingInv /\ DoneInv

BootInv == /\ TypesOK /\ QueriesInv /\ ResultsInv /\ LoopsInv
           /\ ConnectorMatchesResults

-------------------------------------------------------------------------------
\* The known peers, each once.
LEMMA QueueFacts ==
    /\ Len(Queue) \in Nat /\ DOMAIN Queue = 1..Len(Queue)
    /\ \A i \in DOMAIN Queue : Queue[i] \in Peers
    /\ \A p \in Peers : \E i \in DOMAIN Queue : Queue[i] = p
    /\ \A i, j \in DOMAIN Queue : Queue[i] = Queue[j] => i = j
<1>1. Queue \in Seq(Peers)
    BY QueueAssumption
<1> QED
    BY <1>1, QueueAssumption DEF Peers

\* The initial states satisfy the invariant.
LEMMA InitInv == BootInit => BootInv
<1> SUFFICES ASSUME BootInit PROVE BootInv
    OBVIOUS
<1> USE DEF BootInit
<1>1. results \in Seq(Peers) /\ DOMAIN results = {} /\ Len(results) = 0
    OBVIOUS
<1>2. TypesOK
    BY <1>1, QueueFacts DEF TypesOK, Phases, Steps, Clients
<1>3. QueriesInv
    BY DEF QueriesInv, QueryTypesOK, QueryInv, Settled
<1>4. ResultsInv
    BY <1>1, QueueFacts DEF ResultsInv
<1>5. Bootstrapped = {}
    BY <1>1 DEF Bootstrapped, Range
<1>6. LoopsInv
    BY <1>1, <1>5, QueueFacts DEF LoopsInv, RegisteringInv, HandshakingInv, AnnouncingInv, DoneInv
<1>7. ConnectorMatchesResults
    BY DEF ConnectorMatchesResults
<1> QED
    BY <1>2, <1>3, <1>4, <1>6, <1>7 DEF BootInv

-------------------------------------------------------------------------------
\* Callbacks leave the coroutine alone: they answer queries that are pending.
LEMMA CallbackFramed ==
    ASSUME BootInv, CallbackFrame, QueriesInv',
           \A p \in Peers : promise[p] # "pending" => promise'[p] = promise[p]
    PROVE  BootInv'
<1> USE DEF CallbackFrame, resultVars
<1>1. TypesOK'
    BY DEF BootInv, TypesOK
<1>2. \A i \in DOMAIN results : results[i] \in Peers
    BY DEF BootInv, TypesOK
<1>3. ResultsInv'
    BY <1>2 DEF BootInv, ResultsInv
<1>4. RegisteringInv'
    BY QueueFacts DEF BootInv, LoopsInv, RegisteringInv, Bootstrapped, HasRuntime
<1>5. HandshakingInv' /\ AnnouncingInv' /\ DoneInv'
    BY DEF BootInv, LoopsInv, HandshakingInv, AnnouncingInv, DoneInv, Bootstrapped, Announced,
           HasRuntime, HasEncoder
<1>6. ConnectorMatchesResults'
    BY DEF BootInv, ConnectorMatchesResults, Bootstrapped, At
<1> QED
    BY <1>1, <1>3, <1>4, <1>5, <1>6 DEF BootInv, LoopsInv

\* The newest of the events that arrived is one of them.
LEMMA NewestArrived ==
    ASSUME NEW S \in SUBSET Stamps, S # {}
    PROVE  Max(S) \in S
BY BootstrapStampsAssumption DEF Max

\* A pending query is answered by an event that arrived and parses, or rejected.
\* One that is answered stays as it is.
LEMMA AnswerEffect ==
    ASSUME QueriesInv, NEW p \in Peers, Answer(p) \/ reject(p)
    PROVE  /\ promise' \in [Peers -> {"none", "pending", "resolved", "rejected"}]
           /\ peerInfo' \in [Peers -> Stamps \cup {0}]
           /\ \A q \in Peers : q # p \/ promise[q] # "pending" =>
                  promise'[q] = promise[q] /\ peerInfo'[q] = peerInfo[q]
           /\ promise[p] = "pending" => \/ promise'[p] = "rejected"
                                       \/ /\ promise'[p] = "resolved"
                                          /\ peerInfo'[p] \in events[p] \ Unparseable
<1>1. /\ promise \in [Peers -> {"none", "pending", "resolved", "rejected"}]
      /\ peerInfo \in [Peers -> Stamps \cup {0}]
      /\ events[p] \in SUBSET Stamps
    BY DEF QueriesInv, QueryTypesOK
<1>2. CASE reject(p)
    BY <1>1, <1>2 DEF reject, Settle
<1>3. CASE ~reject(p)
  <2> DEFINE t == Max(events[p])
  <2>1. events[p] # {} /\ t \notin Unparseable /\ Settle(p, "resolved", t)
    BY <1>3 DEF Answer
  <2>2. t \in events[p] \ Unparseable /\ t \in Stamps
    BY <1>1, <2>1, NewestArrived
  <2> HIDE DEF t
  <2> QED
    BY <1>1, <2>1, <2>2 DEF Settle
<1> QED
    BY <1>2, <1>3

\* What each callback leaves of an answer, and of the queries.
CallbackKeeps ==
    /\ QueriesInv' /\ CallbackFrame
    /\ \A p \in Peers : promise[p] # "pending" => promise'[p] = promise[p]

\* A callback that resolves a query, with its socket and its timer, which it may
\* have closed and which may have fired.
LEMMA ResolvesInv ==
    ASSUME QueriesInv, NEW p \in Peers, promise[p] # "none", Answer(p) \/ reject(p),
           resolved' = [resolved EXCEPT ![p] = TRUE],
           NEW s \in {"connecting", "open", "closing", "closed"},
           socket' = [socket EXCEPT ![p] = s],
           NEW t \in {"set", "fired"}, timer' = [timer EXCEPT ![p] = t],
           UNCHANGED events, CallbackFrame
    PROVE  CallbackKeeps
<1>1. QueryTypesOK'
    BY AnswerEffect DEF QueriesInv, QueryTypesOK
<1>2. ASSUME NEW q \in Peers PROVE QueryInv(q)'
  <2>1. CASE q = p
    BY <2>1, AnswerEffect DEF QueriesInv, QueryTypesOK, QueryInv, Settled
  <2>2. CASE q # p
    BY <2>2, AnswerEffect DEF QueriesInv, QueryTypesOK, QueryInv, Settled
  <2> QED
    BY <2>1, <2>2
<1> QED
    BY <1>1, <1>2, AnswerEffect DEF QueriesInv, CallbackKeeps

\* The callbacks of a query keep an answer that there is.
LEMMA CallbacksKeep ==
    ASSUME QueriesInv, NEW p \in Peers, Callback(p) \/ OnTimeout(p), ~OnMalformed(p)
    PROVE  CallbackKeeps
<1>1. /\ socket \in [Peers -> {"none", "connecting", "open", "closing", "closed"}]
      /\ timer \in [Peers -> {"none", "set", "fired"}]
      /\ resolved \in [Peers -> BOOLEAN] /\ QueryInv(p)
    BY DEF QueriesInv, QueryTypesOK
<1>2. CASE OnOpen(p)
    BY <1>2 DEF OnOpen, CallbackKeeps, QueriesInv, QueryTypesOK, QueryInv, Settled
<1>3. ASSUME NEW t \in Stamps, OnEvent(p, t) PROVE CallbackKeeps
    BY <1>3 DEF OnEvent, CallbackKeeps, QueriesInv, QueryTypesOK, QueryInv, Settled
<1>4. CASE OnEose(p)
  <2>1. PICK s \in {"connecting", "open", "closing", "closed"} : socket' = [socket EXCEPT ![p] = s]
    BY <1>1, <1>4 DEF OnEose, cleanup
  <2>2. timer' = [timer EXCEPT ![p] = timer[p]] /\ timer[p] \in {"set", "fired"}
    BY <1>1, <1>4 DEF OnEose, QueryInv
  <2> QED
    BY <1>1, <1>4, <2>1, <2>2, ResolvesInv DEF OnEose, cleanup, QueryInv
<1>5. CASE OnError(p)
  <2>1. PICK s \in {"connecting", "open", "closing", "closed"} : socket' = [socket EXCEPT ![p] = s]
    BY <1>1, <1>5 DEF OnError, cleanup
  <2>2. timer' = [timer EXCEPT ![p] = timer[p]] /\ timer[p] \in {"set", "fired"}
    BY <1>1, <1>5 DEF OnError, QueryInv
  <2> QED
    BY <1>1, <1>5, <2>1, <2>2, ResolvesInv DEF OnError, cleanup, QueryInv
<1>6. CASE OnClose(p)
  <2>1. CASE resolved[p]
    BY <1>1, <1>6, <2>1 DEF OnClose, CallbackKeeps, QueriesInv, QueryTypesOK, QueryInv, Settled
  <2>2. CASE ~resolved[p]
    <3>1. timer' = [timer EXCEPT ![p] = timer[p]] /\ timer[p] \in {"set", "fired"}
      BY <1>1, <1>6 DEF OnClose, QueryInv
    <3> QED
      BY <1>1, <1>6, <2>2, <3>1, ResolvesInv DEF OnClose, QueryInv
  <2> QED
    BY <2>1, <2>2
<1>7. CASE OnTimeout(p)
  <2>1. CASE resolved[p]
    BY <1>1, <1>7, <2>1 DEF OnTimeout, CallbackKeeps, QueriesInv, QueryTypesOK, QueryInv, Settled
  <2>2. CASE ~resolved[p]
    <3>1. PICK s \in {"connecting", "open", "closing", "closed"} : socket' = [socket EXCEPT ![p] = s]
      BY <1>1, <1>7, <2>2 DEF OnTimeout, cleanup
    <3> QED
      BY <1>1, <1>7, <2>2, <3>1, ResolvesInv DEF OnTimeout, cleanup, QueryInv
  <2> QED
    BY <2>1, <2>2
<1> QED
    BY <1>2, <1>3, <1>4, <1>5, <1>6, <1>7 DEF Callback

-------------------------------------------------------------------------------
\* Facts about the state of the coroutine that its steps share.
LEMMA LoopTypes ==
    ASSUME BootInv
    PROVE  /\ Len(results) \in Nat /\ DOMAIN results = 1..Len(results)
           /\ \A i \in DOMAIN results : results[i] \in Peers
           /\ \A p \in Peers : p \in Bootstrapped <=> \E i \in DOMAIN results : results[i] = p
           /\ index \in Nat /\ index \in 1..(Len(Queue) + 1) /\ Len(results) <= Len(Queue)
           /\ offered \in [Peers -> 0..1]
           /\ results \in Seq(Peers)
<1>1. results \in Seq(Peers) /\ index \in 1..(Len(Queue) + 1) /\ offered \in [Peers -> 0..1]
    BY DEF BootInv, TypesOK
<1>2. Len(results) <= Len(Queue)
    BY DEF BootInv, ResultsInv
<1> QED
    BY <1>1, <1>2, QueueFacts DEF Bootstrapped, Range

\* Steps of the coroutine that leave queries and results alone.
LEMMA LoopFramed ==
    ASSUME BootInv, UNCHANGED <<clients, queryVars, results, connector>>,
           phase' \in Phases, step' \in Steps, index' \in 1..(Len(Queue) + 1),
           call' \in {"none", "sent", "ok", "error", "channel", "plain", "refused"},
           offered' \in [Peers -> 0..1],
           channel' \subseteq Peers, channel \subseteq channel', channel' \subseteq Bootstrapped,
           step # "crashed",
           step = "adding" /\ step' # "adding" => connector[Queue[index]] = "absent",
           step = "adding" /\ step' = "adding" => index' = index,
           LoopsInv'
    PROVE  BootInv'
<1> USE DEF queryVars
<1>1. TypesOK'
    BY DEF BootInv, TypesOK
<1>2. QueriesInv'
    BY DEF BootInv, QueriesInv, QueryTypesOK, QueryInv, Settled
<1>3. ResultsInv'
    BY DEF BootInv, ResultsInv
<1>4. ConnectorMatchesResults'
    BY DEF BootInv, ConnectorMatchesResults, Bootstrapped, At
<1> QED
    BY <1>1, <1>2, <1>3, <1>4 DEF BootInv

\* bootstrap() begins, and loads the peers.
LEMMA StartsInv ==
    ASSUME BootInv, StartBootstrap \/ PeersLoaded
    PROVE  BootInv'
<1> USE DEF StartBootstrap, PeersLoaded, At, GoTo, Calling, resultVars
<1>1. LoopsInv'
    BY DEF BootInv, LoopsInv, RegisteringInv, HandshakingInv, AnnouncingInv, DoneInv,
           Bootstrapped, HasRuntime, queryVars
<1>2. TypesOK /\ channel \subseteq Bootstrapped
    BY DEF BootInv, TypesOK, ConnectorMatchesResults
<1> QED
    BY <1>1, <1>2, LoopFramed DEF TypesOK, Phases, Steps, Calling

\* A peer without result is passed over: its pubkey is malformed, or its query failed.
LEMMA PassedOverInv ==
    ASSUME BootInv, SkipBadPubkey \/ QueryFailed
    PROVE  BootInv'
<1>1. /\ index \in DOMAIN Queue /\ index \in Nat /\ Len(results) \in Nat /\ RegisteringInv
      /\ step \in {"nextPeer", "querying"}
    BY LoopTypes DEF BootInv, LoopsInv, RegisteringInv, SkipBadPubkey, QueryFailed, At
<1>2. /\ index' = index + 1 /\ step' = "nextPeer" /\ call' \in {call, "none"}
      /\ UNCHANGED <<clients, phase, promise, results, offered, channel>>
      /\ UNCHANGED <<queryVars, connector>>
    BY DEF SkipBadPubkey, QueryFailed, At, GoTo, Calling, resultVars, queryVars
<1>3. RegisteringInv'
    BY <1>1, <1>2, QueueFacts DEF RegisteringInv, Bootstrapped, HasRuntime
<1>4. LoopsInv'
    BY <1>2, <1>3 DEF LoopsInv, HandshakingInv, AnnouncingInv, DoneInv
<1>5. TypesOK /\ channel \subseteq Bootstrapped
    BY DEF BootInv, TypesOK, ConnectorMatchesResults
<1> QED
    BY <1>1, <1>2, <1>4, <1>5, QueueFacts, LoopFramed DEF TypesOK, Phases, Steps

\* The query of the present peer begins.
LEMMA QueryPeerInv ==
    ASSUME BootInv, QueryPeer
    PROVE  BootInv'
<1> DEFINE p == Queue[index]
<1>1. /\ index \in DOMAIN Queue /\ index \in Nat /\ RegisteringInv /\ step = "nextPeer" /\ p \in Peers
      /\ promise[p] = "none"
    BY LoopTypes, QueueFacts DEF BootInv, LoopsInv, RegisteringInv, QueryPeer, At
<1>2. /\ step' = "querying" /\ call' = "none"
      /\ socket' = [socket EXCEPT ![p] = "connecting"] /\ timer' = [timer EXCEPT ![p] = "set"]
      /\ promise' = [promise EXCEPT ![p] = "pending"]
      /\ UNCHANGED <<clients, phase, index, events, resolved, peerInfo>>
      /\ UNCHANGED <<results, offered, channel, connector>>
    BY DEF QueryPeer, GoTo, Calling, resultVars
<1> HIDE DEF p
<1>3. TypesOK'
    BY <1>2 DEF BootInv, TypesOK, Steps, Calling
<1>4. QueryTypesOK'
    BY <1>2 DEF BootInv, QueriesInv, QueryTypesOK
<1>5. ASSUME NEW q \in Peers PROVE QueryInv(q)'
    BY <1>1, <1>2 DEF BootInv, QueriesInv, QueryTypesOK, QueryInv, Settled
<1>6. \A q \in Peers \ {p} : promise'[q] = promise[q]
    BY <1>2 DEF BootInv, QueriesInv, QueryTypesOK
<1>7. ResultsInv'
  <2>1. \A i \in DOMAIN results : results[i] \in Peers \ {p}
    BY <1>1, LoopTypes DEF BootInv, ResultsInv
  <2> QED
    BY <1>2, <1>6, <2>1 DEF BootInv, ResultsInv
<1>8. RegisteringInv'
  <2>1. \A j \in DOMAIN Queue : j > index => Queue[j] \in Peers \ {p}
    BY <1>1, QueueFacts DEF p
  <2> QED
    BY <1>1, <1>2, <1>6, <2>1, QueueFacts DEF RegisteringInv, Bootstrapped, HasRuntime
<1>9. LoopsInv'
    BY <1>2, <1>8 DEF LoopsInv, HandshakingInv, AnnouncingInv, DoneInv
<1>10. ConnectorMatchesResults'
    BY <1>1, <1>2, <1>6 DEF BootInv, ConnectorMatchesResults, Bootstrapped, At
<1> QED
    BY <1>3, <1>4, <1>5, <1>7, <1>9, <1>10 DEF BootInv, QueriesInv

\* A resolved query is followed by the connector, if there is one.
LEMMA QueryDoneInv ==
    ASSUME BootInv, QueryDone
    PROVE  BootInv'
<1>1. /\ RegisteringInv /\ step = "querying" /\ promise[Queue[index]] = "resolved"
    BY DEF BootInv, LoopsInv, QueryDone, At
<1>2. /\ step' = "adding" /\ call' = "sent"
      /\ UNCHANGED <<clients, phase, index, promise, results, offered, channel>>
      /\ UNCHANGED <<queryVars, connector>>
    BY DEF QueryDone, GoTo, Calling, resultVars, queryVars
<1>3. RegisteringInv'
    BY <1>1, <1>2 DEF RegisteringInv, Bootstrapped, HasRuntime
<1>4. LoopsInv'
    BY <1>2, <1>3 DEF LoopsInv, HandshakingInv, AnnouncingInv, DoneInv
<1>5. TypesOK /\ channel \subseteq Bootstrapped
    BY DEF BootInv, TypesOK, ConnectorMatchesResults
<1> QED
    BY <1>1, <1>2, <1>4, <1>5, LoopFramed DEF TypesOK, Steps, Calling

\* The present peer becomes a result.
LEMMA PeerBootstrappedInv ==
    ASSUME BootInv, PeerBootstrapped
    PROVE  BootInv'
<1> DEFINE p == Queue[index]
           n == Len(results) + 1
<1>1. /\ index \in DOMAIN Queue /\ index \in Nat /\ RegisteringInv /\ p \in Peers
      /\ step \in {"querying", "adding"} /\ promise[p] = "resolved"
    BY LoopTypes, QueueFacts DEF BootInv, LoopsInv, RegisteringInv, PeerBootstrapped, At, Answered
<1>2. /\ step' = "nextPeer" /\ call' = "none" /\ index' = index + 1
      /\ results' = Append(results, p)
      /\ offered' = IF HasRuntime THEN offered ELSE [offered EXCEPT ![p] = @ + 1]
      /\ UNCHANGED <<clients, phase, promise, channel, connector, queryVars>>
    BY DEF PeerBootstrapped, GoTo, Calling, queryVars
<1>3. /\ results' \in Seq(Peers) /\ Len(results') = n
      /\ DOMAIN results' = DOMAIN results \cup {n} /\ results'[n] = p
      /\ n \notin DOMAIN results
      /\ \A i \in DOMAIN results : results'[i] = results[i]
    BY <1>1, <1>2, LoopTypes
<1>4. \A i \in DOMAIN results : results[i] # p
    BY <1>1, LoopTypes DEF RegisteringInv
<1>5. /\ Bootstrapped' = Bootstrapped \cup {p} /\ p \notin Bootstrapped
    BY <1>3, <1>4 DEF Bootstrapped, Range
<1> HIDE DEF p
<1>6. /\ offered' \in [Peers -> 0..1]
      /\ \A q \in Peers : offered'[q] = IF ~HasRuntime /\ q \in Bootstrapped' THEN 1 ELSE 0
  <2>1. \A q \in Peers : offered[q] = IF ~HasRuntime /\ q \in Bootstrapped THEN 1 ELSE 0
    BY <1>1 DEF RegisteringInv
  <2> QED
    BY <1>1, <1>2, <1>5, <2>1, LoopTypes
<1>7. TypesOK'
    BY <1>1, <1>2, <1>3, <1>6, QueueFacts DEF BootInv, TypesOK, Steps
<1>8. QueriesInv'
    BY <1>2 DEF BootInv, QueriesInv, QueryTypesOK, QueryInv, Settled, queryVars
<1>9. ResultsInv'
  <2>1. Len(results') <= Len(Queue)
    <3>1. Len(results) < index
      BY <1>1 DEF RegisteringInv
    <3> QED
      BY <1>1, <1>3, <3>1, LoopTypes, QueueFacts
  <2> QED
    BY <1>1, <1>2, <1>3, <1>4, <2>1 DEF BootInv, ResultsInv
<1>10. RegisteringInv'
  <2>1. \A j \in DOMAIN Queue : j > index => Queue[j] # p
    BY <1>1, QueueFacts DEF p
  <2>2. Len(results') < index'
    BY <1>1, <1>2, <1>3, LoopTypes DEF RegisteringInv
  <2>3. ASSUME NEW j \in DOMAIN Queue, j >= index'
        PROVE  promise[Queue[j]] = "none" /\ \A i \in DOMAIN results' : results'[i] # Queue[j]
    <3>1. j > index /\ j >= index
      BY <1>1, <1>2, <2>3, QueueFacts
    <3>2. promise[Queue[j]] = "none" /\ \A i \in DOMAIN results : results[i] # Queue[j]
      BY <1>1, <3>1 DEF RegisteringInv
    <3> QED
      BY <1>3, <2>1, <3>1, <3>2
  <2> QED
    BY <1>1, <1>2, <1>6, <2>2, <2>3 DEF RegisteringInv, HasRuntime
<1>11. LoopsInv'
    BY <1>2, <1>10 DEF LoopsInv, HandshakingInv, AnnouncingInv, DoneInv
<1>12. ConnectorMatchesResults'
    BY <1>1, <1>2, <1>5 DEF BootInv, ConnectorMatchesResults, At, p
<1> QED
    BY <1>7, <1>8, <1>9, <1>11, <1>12 DEF BootInv

\* Registration ends, with handshakes if there are peers to make them with.
LEMMA RegistrationEndsInv ==
    ASSUME BootInv, RegistrationEnds
    PROVE  BootInv'
<1>1. /\ RegisteringInv /\ step = "nextPeer" /\ UNCHANGED <<queryVars, connector>>
      /\ UNCHANGED <<clients, results, offered, channel>> /\ call' = "none"
      /\ \/ /\ HasRuntime /\ results # <<>> /\ phase' = "handshaking"
            /\ step' = "nextHandshake" /\ index' = 1
         \/ ~HasRuntime /\ phase' = "ready" /\ step' = "done" /\ UNCHANGED index
         \/ results = <<>> /\ phase' = "ready" /\ step' = "done" /\ UNCHANGED index
    BY DEF BootInv, LoopsInv, RegistrationEnds, At, GoTo, Calling, resultVars
<1>2. \A p \in Peers : offered[p] = IF ~HasRuntime /\ p \in Bootstrapped THEN 1 ELSE 0
    BY <1>1 DEF RegisteringInv
<1>3. results = <<>> => Bootstrapped = {}
    BY LoopTypes DEF Bootstrapped, Range
<1>4. LoopsInv'
    BY <1>1, <1>2, <1>3 DEF LoopsInv, RegisteringInv, HandshakingInv, AnnouncingInv, DoneInv,
                            Bootstrapped, HasRuntime, HasEncoder
<1>5. TypesOK /\ channel \subseteq Bootstrapped
    BY DEF BootInv, TypesOK, ConnectorMatchesResults
<1> QED
    BY <1>1, <1>4, <1>5, QueueFacts, LoopFramed DEF TypesOK, Steps, Phases

\* Steps of the handshakes, each at a result.
LEMMA HandshakeSteps ==
    ASSUME BootInv,
           \/ SendHandshake \/ HandshakeWithoutChannel \/ HandshakeWithChannel
           \/ UpdateAnswered
    PROVE  BootInv'
<1>1. /\ HandshakingInv /\ step \in {"nextHandshake", "handshaking", "updating"}
      /\ UNCHANGED <<queryVars, connector>> /\ UNCHANGED <<clients, phase, results, offered>>
      /\ channel' \in {channel, channel \cup {results[index]}}
      /\ call' \in {call, "none", "sent"} /\ index \in DOMAIN results
    BY DEF BootInv, LoopsInv, HandshakingInv, SendHandshake, HandshakeWithoutChannel,
           HandshakeWithChannel, UpdateAnswered, At, Answered, GoTo, Calling, resultVars
<1>2. \/ step' = "nextHandshake" /\ index' = index + 1
      \/ step' = "handshaking" /\ index' = index
      \/ step' = "updating" /\ index' = index /\ results[index] \in channel'
    BY DEF SendHandshake, HandshakeWithoutChannel, HandshakeWithChannel, UpdateAnswered,
           At, Answered, GoTo, Calling, resultVars
<1>3. HandshakingInv'
    BY <1>1, <1>2 DEF HandshakingInv, HasRuntime
<1>4. LoopsInv'
    BY <1>2, <1>3 DEF LoopsInv, RegisteringInv, AnnouncingInv, DoneInv
<1>5. TypesOK /\ channel \subseteq Bootstrapped /\ channel' \subseteq Bootstrapped
    BY <1>1, LoopTypes DEF BootInv, TypesOK, ConnectorMatchesResults
<1>6. index' \in 1..(Len(Queue) + 1) /\ channel' \subseteq Peers
    BY <1>1, <1>2, <1>5, LoopTypes, QueueFacts DEF TypesOK
<1> QED
    BY <1>1, <1>2, <1>4, <1>5, <1>6, LoopFramed DEF TypesOK, Steps, Calling

\* With the handshakes made, the announcements begin at the first result.
LEMMA HandshakesEndInv ==
    ASSUME BootInv, HandshakesEnd
    PROVE  BootInv'
<1>1. /\ HandshakingInv /\ step = "nextHandshake" /\ UNCHANGED <<queryVars, connector>>
      /\ UNCHANGED <<clients, results, offered, channel>>
      /\ call' = "none" /\ step' = "nextAnnouncement" /\ phase' = "announcing" /\ index' = 1
    BY DEF BootInv, LoopsInv, HandshakesEnd, At, GoTo, Calling, resultVars
<1>2. AnnouncingInv'
    BY <1>1, LoopTypes DEF HandshakingInv, AnnouncingInv, Announced, HasRuntime
<1>3. LoopsInv'
    BY <1>1, <1>2 DEF LoopsInv, RegisteringInv, HandshakingInv, DoneInv
<1>4. TypesOK /\ channel \subseteq Bootstrapped
    BY DEF BootInv, TypesOK, ConnectorMatchesResults
<1> QED
    BY <1>1, <1>3, <1>4, QueueFacts, LoopFramed DEF TypesOK, Steps, Phases

\* A peer is handed our info when its announcement is sent; with none to send,
\* it is passed over.
LEMMA SendAnnouncementInv ==
    ASSUME BootInv, SendAnnouncement
    PROVE  BootInv'
<1> DEFINE p == results[index]
<1>1. /\ AnnouncingInv /\ step = "nextAnnouncement" /\ index \in DOMAIN results
      /\ UNCHANGED <<queryVars, connector>> /\ UNCHANGED <<clients, phase, results, channel>>
      /\ \/ /\ HasEncoder /\ offered' = [offered EXCEPT ![p] = @ + 1]
            /\ step' = "announcing" /\ call' = "sent" /\ index' = index
         \/ ~HasEncoder /\ index' = index + 1 /\ UNCHANGED <<step, call, offered>>
    BY DEF BootInv, LoopsInv, SendAnnouncement, At, GoTo, Calling
<1>2. p \in Peers /\ \A i \in DOMAIN results : results[i] = p => i = index
    BY <1>1, LoopTypes DEF BootInv, ResultsInv
<1>3. \A q \in Peers : offered[q] = IF HasEncoder /\ Announced(q) THEN 1 ELSE 0
    BY <1>1 DEF AnnouncingInv
<1>4. ~Announced(p)
    BY <1>1, <1>2, LoopTypes DEF Announced
<1>5. HasEncoder => \A q \in Peers : Announced(q)' <=> (q = p \/ Announced(q))
    BY <1>1, <1>2, LoopTypes DEF Announced
<1> HIDE DEF p
<1>6. /\ offered' \in [Peers -> 0..1]
      /\ \A q \in Peers : offered'[q] = IF HasEncoder /\ Announced(q)' THEN 1 ELSE 0
  <2>1. CASE ~HasEncoder
    BY <1>1, <1>3, <2>1, LoopTypes
  <2>2. CASE HasEncoder
    <3>1. offered \in [Peers -> 0..1] /\ offered[p] = 0
      BY <1>2, <1>3, <1>4, LoopTypes
    <3>2. offered' = [offered EXCEPT ![p] = 1]
      BY <1>1, <2>2, <3>1
    <3>3. /\ offered' \in [Peers -> 0..1] /\ offered'[p] = 1
          /\ \A q \in Peers \ {p} : offered'[q] = offered[q]
      BY <1>2, <3>1, <3>2
    <3>4. \A q \in Peers : offered'[q] = IF q = p \/ Announced(q) THEN 1 ELSE 0
      BY <1>3, <2>2, <3>3
    <3> QED
      BY <1>5, <2>2, <3>3, <3>4
  <2> QED
    BY <2>1, <2>2
<1>7. AnnouncingInv'
    BY <1>1, <1>6 DEF AnnouncingInv, HasRuntime, HasEncoder
<1>8. LoopsInv'
    BY <1>1, <1>7 DEF LoopsInv, RegisteringInv, HandshakingInv, DoneInv
<1>9. TypesOK /\ channel \subseteq Bootstrapped
    BY DEF BootInv, TypesOK, ConnectorMatchesResults
<1> QED
    BY <1>1, <1>6, <1>8, <1>9, LoopTypes, QueueFacts, LoopFramed DEF TypesOK, Steps, Calling

\* An announcement is answered, and the next one is due.
LEMMA AnnouncementAnsweredInv ==
    ASSUME BootInv, AnnouncementAnswered
    PROVE  BootInv'
<1>1. /\ AnnouncingInv /\ step = "announcing" /\ index \in DOMAIN results
      /\ UNCHANGED <<queryVars, connector>>
      /\ UNCHANGED <<clients, phase, results, offered, channel>>
      /\ index' = index + 1 /\ step' = "nextAnnouncement" /\ call' = "none"
    BY DEF BootInv, LoopsInv, AnnouncingInv, AnnouncementAnswered, At, Answered, GoTo, Calling,
           resultVars
<1>2. \A p \in Peers : Announced(p)' = Announced(p)
    BY <1>1, LoopTypes DEF Announced
<1>3. AnnouncingInv'
    BY <1>1, <1>2 DEF AnnouncingInv, HasRuntime, HasEncoder
<1>4. LoopsInv'
    BY <1>1, <1>3 DEF LoopsInv, RegisteringInv, HandshakingInv, DoneInv
<1>5. TypesOK /\ channel \subseteq Bootstrapped
    BY DEF BootInv, TypesOK, ConnectorMatchesResults
<1> QED
    BY <1>1, <1>4, <1>5, LoopTypes, QueueFacts, LoopFramed DEF TypesOK, Steps

\* Past the last result, every one has been announced to.
LEMMA ReadyInv ==
    ASSUME BootInv, BootstrapReady
    PROVE  BootInv'
<1>1. /\ AnnouncingInv /\ step = "nextAnnouncement" /\ index \notin DOMAIN results
      /\ UNCHANGED <<queryVars, connector>>
      /\ UNCHANGED <<clients, index, results, offered, channel>>
      /\ step' = "done" /\ call' = "none" /\ phase' = "ready"
    BY DEF BootInv, LoopsInv, BootstrapReady, At, GoTo, Calling, resultVars
<1>2. \A p \in Peers : Announced(p) <=> p \in Bootstrapped
    BY <1>1, LoopTypes DEF Announced
<1>3. DoneInv'
    BY <1>1, <1>2 DEF AnnouncingInv, DoneInv, Bootstrapped, HasRuntime, HasEncoder
<1>4. LoopsInv'
    BY <1>1, <1>3 DEF LoopsInv, RegisteringInv, HandshakingInv, AnnouncingInv
<1>5. TypesOK /\ channel \subseteq Bootstrapped
    BY DEF BootInv, TypesOK, ConnectorMatchesResults
<1> QED
    BY <1>1, <1>4, <1>5, LoopFramed DEF TypesOK, Steps, Phases

\* A call is answered; the connector may have taken the peer it was about.
LEMMA HttpAnswerInv ==
    ASSUME BootInv, HttpAnswer
    PROVE  BootInv'
<1>1. /\ UNCHANGED <<clients, phase, step, index, queryVars, results, channel, offered>>
      /\ call' \in {"ok", "error", "channel", "plain", "refused"}
    BY DEF HttpAnswer, ConnectorAdds, ConnectorRefuses, RuntimeAnswers, AnswerCall, resultVars
<1>2. \/ UNCHANGED connector
      \/ step = "adding" /\ connector' = [connector EXCEPT ![Queue[index]] = "listed"]
      \/ step = "updating" /\ connector' = [connector EXCEPT ![results[index]] = "settled"]
    BY DEF HttpAnswer, ConnectorAdds, ConnectorRefuses, RuntimeAnswers, At
<1>3. TypesOK'
    BY <1>1, <1>2 DEF BootInv, TypesOK
<1>4. QueriesInv' /\ ResultsInv'
    BY <1>1 DEF BootInv, QueriesInv, QueryTypesOK, QueryInv, Settled, ResultsInv, queryVars
<1>5. LoopsInv'
    BY <1>1 DEF BootInv, LoopsInv, RegisteringInv, HandshakingInv, AnnouncingInv, DoneInv,
                Bootstrapped, Announced, HasRuntime, HasEncoder, queryVars
<1>6. ConnectorMatchesResults'
  <2>1. step = "adding" => Queue[index] \in Peers /\ promise[Queue[index]] = "resolved"
    BY QueueFacts DEF BootInv, LoopsInv, RegisteringInv
  <2>2. step = "updating" =>
            /\ results[index] \in Peers /\ promise[results[index]] = "resolved"
            /\ results[index] \in channel /\ results[index] \in Bootstrapped
    BY LoopTypes DEF BootInv, LoopsInv, HandshakingInv, ResultsInv
  <2> QED
    BY <1>1, <1>2, <2>1, <2>2
    DEF BootInv, TypesOK, ConnectorMatchesResults, Bootstrapped, At, queryVars
<1> QED
    BY <1>3, <1>4, <1>5, <1>6 DEF BootInv

\* The process ends: a row just added may be left without its result.
LEMMA CrashInv ==
    ASSUME BootInv, Crash
    PROVE  BootInv'
<1> USE DEF Crash, queryVars, resultVars
<1>1. TypesOK'
    BY DEF BootInv, TypesOK, Steps
<1>2. QueriesInv' /\ ResultsInv'
    BY DEF BootInv, QueriesInv, QueryTypesOK, QueryInv, Settled, ResultsInv
<1>3. LoopsInv'
    BY DEF BootInv, TypesOK, Steps, Calling, LoopsInv, RegisteringInv, HandshakingInv,
           AnnouncingInv, DoneInv, Bootstrapped, HasRuntime, HasEncoder
<1>4. ConnectorMatchesResults'
    BY DEF BootInv, ConnectorMatchesResults, Bootstrapped
<1> QED
    BY <1>1, <1>2, <1>3, <1>4 DEF BootInv

-------------------------------------------------------------------------------
\* Every step keeps the invariant.
LEMMA StepInv == BootInv /\ [BootNext]_bootVars => BootInv'
<1> SUFFICES ASSUME BootInv, [BootNext]_bootVars PROVE BootInv'
    OBVIOUS
<1>1. CASE StartBootstrap
    BY <1>1, StartsInv
<1>2. CASE Coroutine
    BY <1>2, StartsInv, PassedOverInv, QueryPeerInv, QueryDoneInv, PeerBootstrappedInv,
       RegistrationEndsInv, HandshakeSteps, HandshakesEndInv, SendAnnouncementInv,
       AnnouncementAnsweredInv, ReadyInv DEF Coroutine
<1>3. CASE HttpAnswer
    BY <1>3, HttpAnswerInv
<1>4. ASSUME NEW p \in Peers, Callback(p) \/ OnTimeout(p) \/ PublicationFails(p) PROVE BootInv'
  <2>1. CASE OnMalformed(p) \/ PublicationFails(p)
    BY <2>1, CrashInv DEF OnMalformed, PublicationFails
  <2>2. CASE ~OnMalformed(p) /\ ~PublicationFails(p)
    BY <1>4, <2>2, CallbacksKeep, CallbackFramed DEF BootInv, CallbackKeeps
  <2> QED
    BY <2>1, <2>2
<1>5. CASE UNCHANGED bootVars
    BY <1>5 DEF bootVars, queryVars, resultVars, BootInv, TypesOK, QueriesInv, QueryTypesOK,
                QueryInv, Settled, ResultsInv, LoopsInv, RegisteringInv, HandshakingInv,
                AnnouncingInv, DoneInv, Announced, ConnectorMatchesResults, Bootstrapped, At,
                HasRuntime, HasEncoder
<1> QED
    BY <1>1, <1>2, <1>3, <1>4, <1>5 DEF BootNext

LEMMA BootInductive == BootSpec => []BootInv
BY InitInv, StepInv, PTL DEF BootSpec

\* The service stays well formed: one hand-over per peer, no more results than peers.
THEOREM BootTypeCorrect == BootSpec => []BootTypeOK
<1>1. BootInv => BootTypeOK
    BY DEF BootInv, TypesOK, QueriesInv, QueryTypesOK, ResultsInv, BootTypeOK
<1> QED
    BY <1>1, BootInductive, PTL

\* Whichever callback of a query comes first, and whatever comes after it: the
\* query is answered, once its socket is gone or its timer has fired.
THEOREM QueriesAreAnswered == BootSpec => []QueryAnswered
<1>1. BootInv => QueryAnswered
    BY DEF BootInv, QueriesInv, QueryInv, QueryAnswered
<1> QED
    BY <1>1, BootInductive, PTL

\* The connector only has peers that are results, or become the next one, and
\* settles with those whose result has the channel.
THEOREM ConnectorFollowsResults == BootSpec => []ConnectorMatchesResults
<1>1. BootInv => ConnectorMatchesResults
    BY DEF BootInv
<1> QED
    BY <1>1, BootInductive, PTL

\* Each peer of the results is handed our own info once, whatever clients the
\* service has been given, and nobody else is.
THEOREM EachIsOfferedOnce == BootSpec => []OfferedOnce
<1>1. BootInv => OfferedOnce
    BY DEF BootInv, TypesOK, Steps, Calling, LoopsInv, RegisteringInv, HandshakingInv,
           AnnouncingInv, DoneInv, OfferedOnce
<1> QED
    BY <1>1, BootInductive, PTL
===============================================================================
