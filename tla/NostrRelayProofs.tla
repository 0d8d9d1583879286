--------------------------- MODULE NostrRelayProofs ---------------------------
(***************************************************************************)
(* Proofs about NostrRelay, for any number of clients, subscriptions and   *)
(* events, and any limits.                                                 *)
(***************************************************************************)
EXTENDS NostrRelay, EventStoreProofs, FiniteSetTheorems

\* Subscription ids to lists of filters; the ids are finitely many.
SubscriptionMaps == UNION {[ids -> FilterLists] : ids \in SUBSET SubIds}
FinitelyMany == \A c \in Clients : IsFiniteSet(Subscribed(c))

\* There is one row at most for an author and replaceable kind, even of events that
\* borrow ids: each goes to a place where nothing was found, or all of it was deleted.
OneEach ==
    \A x, y \in rows :
        isReplaceableKind(x.kind) /\ x.pubkey = y.pubkey /\ x.kind = y.kind => x = y

\* What was answered is in the submissions of the store, and kept.
TableInv == /\ StoreInv /\ OneEach
            /\ acked \cup fulfilled \subseteq submitted
            /\ AcksKept

RelayInv == RelayTypeOK /\ FinitelyMany /\ LimitsHold /\ TableInv

-------------------------------------------------------------------------------
\* The initial states satisfy the invariant.
LEMMA RelayInitInv == RelayInit => RelayInv
<1> SUFFICES ASSUME RelayInit PROVE RelayInv
    OBVIOUS
<1>1. RelayTypeOK
    BY DEF RelayInit, RelayTypeOK, StoreInit, StoreTypeOK, NoSubscriptions
<1>2. \A c \in Clients : Subscribed(c) = {}
    BY DEF RelayInit, Subscribed, NoSubscriptions
<1>3. FinitelyMany /\ LimitsHold
  <2>1. IsFiniteSet({}) /\ Cardinality({}) = 0
    BY FS_EmptySet
  <2>2. handlers = {} /\ handlers = {c \in Clients : ws[c] = "open"}
    BY DEF RelayInit
  <2>3. FinitelyMany
    BY <1>2, <2>1 DEF FinitelyMany
  <2>4. Cardinality(handlers) <= MaxConnections
    BY <2>1, <2>2, LimitsAssumption
  <2>5. \A c \in Clients : Cardinality(Subscribed(c)) <= MaxSubscriptions
    BY <1>2, <2>1, LimitsAssumption
  <2> QED
    BY <1>2, <2>2, <2>3, <2>4, <2>5 DEF LimitsHold
<1>4. TableInv
    BY DEF RelayInit, TableInv, StoreInv, StoreInit, StoreTypeOK, OneEach, AcksKept
<1> QED
    BY <1>1, <1>3, <1>4 DEF RelayInv

-------------------------------------------------------------------------------
\* A call of store keeps one row at most at each place.
LEMMA OneEachStep ==
    ASSUME StoreInv, OneEach, NEW e \in Events, store(e)
    PROVE  OneEach'
<1> SUFFICES ASSUME NEW x \in rows', NEW y \in rows', isReplaceableKind(x.kind),
                    x.pubkey = y.pubkey, x.kind = y.kind
             PROVE  x = y
    BY DEF OneEach
<1>1. rows' \subseteq rows \cup {e}
    BY StoreEffectAny DEF Put
<1>2. CASE x \in rows /\ y \in rows
    BY <1>2 DEF OneEach
<1>3. CASE x = e \/ y = e
  <2>1. e.kind \in Nat
    BY EventParts
  <2>2. /\ isReplaceableKind(e.kind) /\ ~isRegularKind(e.kind)
        /\ \A z : Found(e) = FoundByKind(e) /\ Deleted(e, z) = FoundByKind(e)
    BY <1>3, <2>1 DEF isReplaceableKind, isRegularKind, Found, Deleted
  <2>3. CASE rows' = rows
    BY <2>3 DEF OneEach
  <2>4. CASE rows' # rows
    <3>1. rows' = Put(e, rows \ FoundByKind(e))
      <4>1. Found(e) = {} => rows \ FoundByKind(e) = rows
        BY <2>2
      <4> QED
        BY <2>2, <2>4, <4>1, StoreEffectAny
    <3>2. x # e => x \in rows /\ x \notin FoundByKind(e)
      BY <3>1 DEF Put
    <3>3. y # e => y \in rows /\ y \notin FoundByKind(e)
      BY <3>1 DEF Put
    <3> QED
      BY <1>3, <3>2, <3>3 DEF FoundByKind
  <2> QED
    BY <2>3, <2>4
<1> QED
    BY <1>1, <1>2, <1>3

\* What leaves the table with a call of store, and an event that does not get there,
\* gave way to a newer one of its author and kind or to a namesake.
LEMMA RowsLeave ==
    ASSUME StoreInv, OneEach, NEW e \in Events, store(e), NEW g \in rows \cup {e}, g \notin rows'
    PROVE  \/ \E f \in rows' : f.pubkey = g.pubkey /\ f.kind = g.kind /\ Newer(f, g)
           \/ HasNamesake(g)'
<1>1. /\ rows \subseteq Events /\ rows \subseteq submitted
      /\ submitted' = submitted \cup {e}
    BY StoreEffectAny DEF StoreInv, StoreTypeOK
<1>2. \A h \in rows \cup {e} : h # g /\ h.id = g.id => HasNamesake(g)'
    BY <1>1 DEF HasNamesake
<1>3. CASE isRegularKind(e.kind)
  <2>1. rows' = IF \E r \in rows : r.id = e.id THEN rows ELSE rows \cup {e}
    BY <1>3, StoreEffectAny
  <2>2. g = e /\ \E r \in rows : r.id = e.id /\ r # e
    BY <2>1
  <2> QED
    BY <1>2, <2>2
<1>4. CASE Found(e) = {} /\ rows' = Put(e, rows)
    BY <1>2, <1>4 DEF Put
<1>5. ASSUME NEW x \in Found(e), ~Newer(e, x), rows' = rows
      PROVE  \/ \E f \in rows' : f.pubkey = g.pubkey /\ f.kind = g.kind /\ Newer(f, g)
             \/ HasNamesake(g)'
  <2>1. g = e /\ x \in rows /\ x # e /\ x.pubkey = e.pubkey /\ x.kind = e.kind
    BY <1>5 DEF Found, FoundByTag, FoundByKind
  <2>2. x.id = e.id \/ Newer(x, e)
    BY <1>1, <1>5, <2>1, NewerTotal
  <2> QED
    BY <1>2, <1>5, <2>1, <2>2
<1>6. ASSUME NEW x \in Found(e), Newer(e, x), rows' = Put(e, rows \ Deleted(e, x)),
             ~isRegularKind(e.kind)
      PROVE  \/ \E f \in rows' : f.pubkey = g.pubkey /\ f.kind = g.kind /\ Newer(f, g)
             \/ HasNamesake(g)'
  <2>1. x \in rows /\ x.pubkey = e.pubkey /\ x.kind = e.kind
    BY <1>6 DEF Found, FoundByTag, FoundByKind
  <2>2. Deleted(e, x) \subseteq {x}
    <3>1. \A y \in FoundByKind(e) : isReplaceableKind(e.kind) => y = x
      BY <2>1 DEF FoundByKind, OneEach
    <3> QED
      BY <3>1 DEF Deleted
  <2>3. e \in rows'
    BY <1>6 DEF Put
  <2>4. g \in rows /\ g # e
    BY <2>3
  <2>5. g = x \/ g.id = e.id
    BY <1>6, <2>2, <2>4 DEF Put
  <2> QED
    BY <1>2, <1>6, <2>1, <2>3, <2>4, <2>5
<1>7. QED
  <2>1. \/ isRegularKind(e.kind)
        \/ Found(e) = {} /\ rows' = Put(e, rows)
        \/ \E x \in Found(e) : ~Newer(e, x) /\ rows' = rows
        \/ /\ ~isRegularKind(e.kind)
           /\ \E x \in Found(e) : Newer(e, x) /\ rows' = Put(e, rows \ Deleted(e, x))
    BY StoreEffectAny
  <2> QED
    BY <1>3, <1>4, <1>5, <1>6, <2>1

\* Storing an event, and answering it or not, keeps what was answered before.
LEMMA StoredInv ==
    ASSUME TableInv, NEW e \in Events, store(e),
           (acked \cup fulfilled)' \subseteq acked \cup fulfilled \cup {e}
    PROVE  TableInv'
<1> USE DEF TableInv
<1>1. /\ StoreInv' /\ OneEach'
      /\ submitted' = submitted \cup {e}
    BY OneEachStep, StoreEffectAny
<1>2. rows' \subseteq submitted' /\ rows \subseteq submitted /\ submitted' \subseteq Events
    BY <1>1 DEF StoreInv, StoreTypeOK
<1>3. \A f \in submitted : HasNamesake(f) => HasNamesake(f)'
    BY <1>1 DEF HasNamesake
<1>4. ASSUME NEW g \in submitted', NEW f \in rows \cup {e},
             f = g \/ (f.pubkey = g.pubkey /\ f.kind = g.kind /\ Newer(f, g))
      PROVE  \E h \in submitted' :
                 /\ h = g \/ (h.pubkey = g.pubkey /\ h.kind = g.kind /\ Newer(h, g))
                 /\ h \in rows' \/ HasNamesake(h)'
  <2>1. f \in submitted'
    BY <1>1, <1>2
  <2>2. CASE f \in rows' \/ HasNamesake(f)'
    BY <1>4, <2>1, <2>2
  <2>3. CASE f \notin rows' /\ ~HasNamesake(f)'
    <3>1. PICK h \in rows' : h.pubkey = f.pubkey /\ h.kind = f.kind /\ Newer(h, f)
      BY <2>3, RowsLeave
    <3>2. h = g \/ (h.pubkey = g.pubkey /\ h.kind = g.kind /\ Newer(h, g))
      BY <1>2, <1>4, <2>1, <3>1, NewerStrict
    <3> QED
      BY <1>2, <3>1, <3>2
  <2> QED
    BY <2>2, <2>3
<1>5. ASSUME NEW g \in (acked \cup fulfilled)'
      PROVE  \E f \in submitted' :
                 /\ f = g \/ (f.pubkey = g.pubkey /\ f.kind = g.kind /\ Newer(f, g))
                 /\ f \in rows' \/ HasNamesake(f)'
  <2>1. CASE g = e
    BY <1>1, <1>4, <2>1
  <2>2. CASE g \in acked \cup fulfilled
    <3>1. PICK f \in submitted :
              /\ f = g \/ (f.pubkey = g.pubkey /\ f.kind = g.kind /\ Newer(f, g))
              /\ f \in rows \/ HasNamesake(f)
      BY <2>2 DEF AcksKept
    <3>2. CASE f \in rows
      BY <1>1, <1>4, <2>2, <3>1, <3>2
    <3>3. CASE HasNamesake(f)
      BY <1>1, <1>3, <3>1, <3>3
    <3> QED
      BY <3>1, <3>2, <3>3
  <2> QED
    BY <1>5, <2>1, <2>2
<1>6. AcksKept'
    BY <1>5 DEF AcksKept
<1>7. (acked \cup fulfilled)' \subseteq submitted'
    BY <1>1
<1> QED
    BY <1>1, <1>6, <1>7

\* Steps that leave the store and its answers alone.
LEMMA TableFramed ==
    ASSUME TableInv, UNCHANGED <<storeVars, acked, fulfilled>>
    PROVE  TableInv'
BY DEF TableInv, storeVars, StoreInv, StoreTypeOK, OneEach, AcksKept, HasNamesake

-------------------------------------------------------------------------------
\* The types that sockets and messages bear on.
LEMMA SocketTypes ==
    ASSUME RelayInv
    PROVE  /\ ws \in [Clients -> {"none", "open", "closing", "refused"}]
           /\ handlers = {c \in Clients : ws[c] = "open"}
           /\ IsFiniteSet(handlers) /\ Cardinality(handlers) \in Nat
           /\ subscriptions \in [Clients -> SubscriptionMaps]
           /\ received \in [Clients -> SUBSET (SubIds \X Events)]
<1>1. /\ ws \in [Clients -> {"none", "open", "closing", "refused"}]
      /\ handlers \subseteq Clients
      /\ handlers = {c \in Clients : ws[c] = "open"}
      /\ subscriptions \in [Clients -> SubscriptionMaps]
      /\ received \in [Clients -> SUBSET (SubIds \X Events)]
    BY DEF RelayInv, RelayTypeOK, LimitsHold, SubscriptionMaps
<1>2. IsFiniteSet(handlers) /\ Cardinality(handlers) \in Nat
    BY <1>1, FS_Subset, FS_CardinalityType, LimitsAssumption
<1> QED
    BY <1>1, <1>2

\* What a connection has asked for is within its limits, and it is alive.
Within(c) ==
    /\ IsFiniteSet(Subscribed(c)) /\ Cardinality(Subscribed(c)) <= MaxSubscriptions
    /\ \A s \in Subscribed(c) : Len(subscriptions[c][s]) <= MaxFilters
    /\ Subscribed(c) # {} => Listening(c)

\* The limits are those of the slots and those of each connection.
LEMMA LimitsSplit ==
    ASSUME RelayInv
    PROVE  Cardinality(handlers) <= MaxConnections /\ \A c \in Clients : Within(c)
BY DEF RelayInv, FinitelyMany, LimitsHold, Within

LEMMA LimitsJoin ==
    ASSUME Cardinality(handlers') <= MaxConnections,
           handlers' = {c \in Clients : ws'[c] = "open"},
           \A c \in Clients : Within(c)'
    PROVE  FinitelyMany' /\ LimitsHold'
BY DEF FinitelyMany, LimitsHold, Within

\* A connection that keeps its subscriptions, and stays alive if it has any,
\* keeps within its limits.
LEMMA WithinFramed ==
    ASSUME NEW c \in Clients, Within(c), subscriptions'[c] = subscriptions[c],
           Subscribed(c) # {} => Listening(c)'
    PROVE  Within(c)'
BY DEF Within, Subscribed

\* One without subscriptions is within any limits.
LEMMA WithinEmpty ==
    ASSUME NEW c \in Clients, subscriptions'[c] = NoSubscriptions
    PROVE  Within(c)'
<1>1. DOMAIN NoSubscriptions = {}
    BY DEF NoSubscriptions
<1> QED
    BY <1>1, FS_EmptySet, LimitsAssumption DEF Within, Subscribed

\* A connection takes a slot that is free, or is refused.
LEMMA ConnectInv ==
    ASSUME RelayInv, NEW c \in Clients, Connect(c)
    PROVE  RelayInv'
<1> USE DEF Connect
<1>1. /\ Cardinality(handlers) <= MaxConnections /\ \A d \in Clients : Within(d)
      /\ ws[c] \in {"none", "refused"}
    BY LimitsSplit
<1>2. RelayTypeOK'
    BY DEF RelayInv, RelayTypeOK, StoreTypeOK, storeVars
<1>3. \A d \in Clients : Within(d)'
  <2> SUFFICES ASSUME NEW d \in Clients PROVE Within(d)'
    OBVIOUS
  <2>1. Listening(d) => Listening(d)'
    BY <1>1, SocketTypes DEF Listening
  <2> QED
    BY <1>1, <2>1, WithinFramed DEF Within
<1>4. handlers' = {d \in Clients : ws'[d] = "open"}
    BY <1>1, SocketTypes
<1>5. Cardinality(handlers') <= MaxConnections
  <2>1. CASE Cardinality(handlers) >= MaxConnections
    BY <1>1, <2>1
  <2>2. CASE ~(Cardinality(handlers) >= MaxConnections)
    <3>1. c \notin handlers /\ handlers' = handlers \cup {c}
      BY <1>1, <2>2, SocketTypes
    <3>2. Cardinality(handlers \cup {c}) = Cardinality(handlers) + 1
      BY <3>1, SocketTypes, FS_AddElement
    <3> QED
      BY <2>2, <3>1, <3>2, SocketTypes, LimitsAssumption
  <2> QED
    BY <2>1, <2>2
<1> QED
    BY <1>2, <1>3, <1>4, <1>5, LimitsJoin, TableFramed DEF RelayInv

\* A socket that closes takes its subscriptions and its slot with it.
LEMMA OnCloseInv ==
    ASSUME RelayInv, NEW c \in Clients, OnClose(c)
    PROVE  RelayInv'
<1> USE DEF OnClose, cleanup
<1>1. Cardinality(handlers) <= MaxConnections /\ \A d \in Clients : Within(d)
    BY LimitsSplit
<1>2. NoSubscriptions \in SubscriptionMaps
    BY DEF NoSubscriptions, SubscriptionMaps
<1>3. RelayTypeOK'
    BY <1>2, SocketTypes DEF RelayInv, RelayTypeOK, SubscriptionMaps, StoreTypeOK, storeVars
<1>4. ASSUME NEW d \in Clients PROVE Within(d)'
  <2>1. CASE d = c
    BY <2>1, WithinEmpty
  <2>2. CASE d # c
    <3>1. Listening(d) => Listening(d)'
      BY <2>2, SocketTypes DEF Listening
    <3> QED
      BY <1>1, <2>2, <3>1, WithinFramed DEF Within
  <2> QED
    BY <2>1, <2>2
<1>5. handlers' = {d \in Clients : ws'[d] = "open"}
    BY SocketTypes
<1>6. Cardinality(handlers') <= MaxConnections
    BY <1>1, SocketTypes, FS_Subset, FS_CardinalityType, LimitsAssumption
<1> QED
    BY <1>3, <1>4, <1>5, <1>6, LimitsJoin, TableFramed DEF RelayInv

\* stop leaves no connection open and no subscription.
LEMMA StopInv ==
    ASSUME RelayInv, stop
    PROVE  RelayInv'
<1> USE DEF stop, cleanup
<1>1. \A d \in Clients : Within(d)
    BY LimitsSplit
<1>2. NoSubscriptions \in SubscriptionMaps
    BY DEF NoSubscriptions, SubscriptionMaps
<1>3. RelayTypeOK'
    BY <1>2, SocketTypes DEF RelayInv, RelayTypeOK, SubscriptionMaps, StoreTypeOK, storeVars
<1>4. ASSUME NEW d \in Clients PROVE Within(d)'
  <2>1. CASE d \in handlers
    BY <2>1, WithinEmpty
  <2>2. CASE d \notin handlers
    <3>1. Listening(d) => Listening(d)'
      BY <2>2, SocketTypes DEF Listening
    <3> QED
      BY <1>1, <2>2, <3>1, WithinFramed DEF Within
  <2> QED
    BY <2>1, <2>2
<1>5. handlers' = {} /\ handlers' = {d \in Clients : ws'[d] = "open"}
    BY SocketTypes
<1>6. Cardinality(handlers') <= MaxConnections
    BY <1>5, FS_EmptySet, LimitsAssumption
<1> QED
    BY <1>3, <1>4, <1>5, <1>6, LimitsJoin, TableFramed DEF RelayInv

\* A process that dies leaves no connection, open or closing.
LEMMA UncaughtInv ==
    ASSUME RelayInv, NEW c \in Clients, Uncaught(c)
    PROVE  RelayInv'
<1> USE DEF Uncaught, cleanup
<1>1. NoSubscriptions \in SubscriptionMaps
    BY DEF NoSubscriptions, SubscriptionMaps
<1>2. RelayTypeOK'
    BY <1>1, SocketTypes DEF RelayInv, RelayTypeOK, SubscriptionMaps, StoreTypeOK, storeVars
<1>3. \A d \in Clients : Within(d)'
    BY WithinEmpty
<1>4. handlers' = {} /\ handlers' = {d \in Clients : ws'[d] = "open"}
    OBVIOUS
<1>5. Cardinality(handlers') <= MaxConnections
    BY <1>4, FS_EmptySet, LimitsAssumption
<1> QED
    BY <1>2, <1>3, <1>4, <1>5, LimitsJoin, TableFramed DEF RelayInv

-------------------------------------------------------------------------------
\* A message leaves the slots alone, and the other connections.
LEMMA MessageInv ==
    ASSUME RelayInv, NEW c \in Clients, MessageFrame, UNCHANGED <<storeVars, acked>>,
           NEW map \in SubscriptionMaps, IsFiniteSet(DOMAIN map),
           subscriptions' = [subscriptions EXCEPT ![c] = map],
           Cardinality(DOMAIN map) <= MaxSubscriptions,
           \A s \in DOMAIN map : Len(map[s]) <= MaxFilters,
           DOMAIN map # {} => Listening(c),
           received' \in [Clients -> SUBSET (SubIds \X Events)]
    PROVE  RelayInv'
<1> USE DEF MessageFrame
<1>1. RelayTypeOK'
    BY SocketTypes DEF RelayInv, RelayTypeOK, SubscriptionMaps, StoreTypeOK, storeVars
<1>2. ASSUME NEW d \in Clients PROVE Within(d)'
  <2>1. CASE d = c
    BY <2>1, SocketTypes DEF Within, Subscribed, Listening
  <2>2. CASE d # c
    BY <2>2, LimitsSplit, SocketTypes, WithinFramed DEF Within, Listening
  <2> QED
    BY <2>1, <2>2
<1> QED
    BY <1>1, <1>2, LimitsSplit, SocketTypes, LimitsJoin, TableFramed DEF RelayInv

\* A query answers with rows of the table.
LEMMA FoundAreRows ==
    ASSUME NEW filters, NEW found \in query(filters)
    PROVE  found \subseteq rows
<1>1. \A held, kept : kept \in Limited(held, filters) => kept \subseteq held
    BY DEF Limited
<1>2. buildQuerySql(filters) \subseteq rows
    BY DEF buildQuerySql
<1> QED
    BY <1>1, <1>2 DEF query

\* A subscription that is new, or takes the place of one of its id, is within the
\* limits that are tested.
LEMMA ReqInv ==
    ASSUME RelayInv, NEW c \in Clients, NEW s \in SubIds, NEW filters \in FilterLists,
           handleReq(c, s, filters)
    PROVE  RelayInv'
<1> USE DEF handleReq
<1> DEFINE map == [t \in Subscribed(c) \cup {s} |->
                      IF t = s THEN filters ELSE subscriptions[c][t]]
<1>1. subscriptions[c] \in SubscriptionMaps /\ Within(c)
    BY SocketTypes, LimitsSplit
<1>2. map \in SubscriptionMaps /\ DOMAIN map = Subscribed(c) \cup {s}
  <2>1. /\ Subscribed(c) \subseteq SubIds
        /\ \A t \in Subscribed(c) : subscriptions[c][t] \in FilterLists
    BY <1>1 DEF SubscriptionMaps, Subscribed
  <2>2. map \in [Subscribed(c) \cup {s} -> FilterLists]
    BY <2>1
  <2> QED
    BY <2>1, <2>2 DEF SubscriptionMaps
<1>3. /\ IsFiniteSet(DOMAIN map) /\ Cardinality(DOMAIN map) <= MaxSubscriptions
      /\ \A t \in DOMAIN map : Len(map[t]) <= MaxFilters
  <2>1. /\ IsFiniteSet(Subscribed(c)) /\ Cardinality(Subscribed(c)) \in Nat
        /\ Cardinality(Subscribed(c)) <= MaxSubscriptions
        /\ \A t \in Subscribed(c) : Len(subscriptions[c][t]) <= MaxFilters
    BY <1>1, FS_CardinalityType DEF Within
  <2>2. /\ IsFiniteSet(Subscribed(c) \cup {s})
        /\ Cardinality(Subscribed(c) \cup {s}) =
               IF s \in Subscribed(c) THEN Cardinality(Subscribed(c))
               ELSE Cardinality(Subscribed(c)) + 1
    BY <2>1, FS_AddElement
  <2>3. Cardinality(Subscribed(c) \cup {s}) <= MaxSubscriptions
    BY <2>1, <2>2, LimitsAssumption
  <2>4. \A t \in DOMAIN map : Len(map[t]) <= MaxFilters
    BY <2>1
  <2> QED
    BY <1>2, <2>2, <2>3, <2>4
<1>4. subscriptions' = [subscriptions EXCEPT ![c] = map]
    BY DEF Subscribed
<1>5. received' \in [Clients -> SUBSET (SubIds \X Events)]
  <2>1. \A found \in query(filters) : found \subseteq Events
    BY FoundAreRows DEF RelayInv, RelayTypeOK, StoreTypeOK
  <2>2. received[c] \subseteq SubIds \X Events
    BY SocketTypes
  <2> QED
    BY <2>1, <2>2, SocketTypes DEF Others
<1> HIDE DEF map
<1> QED
    BY <1>2, <1>3, <1>4, <1>5, MessageInv

\* A subscription that is given up leaves the others.
LEMMA CloseInv ==
    ASSUME RelayInv, NEW c \in Clients, NEW s \in SubIds, handleClose(c, s)
    PROVE  RelayInv'
<1> USE DEF handleClose
<1> DEFINE map == [t \in Subscribed(c) \ {s} |-> subscriptions[c][t]]
<1>1. subscriptions[c] \in SubscriptionMaps /\ Within(c)
    BY SocketTypes, LimitsSplit
<1>2. map \in SubscriptionMaps /\ DOMAIN map = Subscribed(c) \ {s}
    BY <1>1 DEF SubscriptionMaps, Subscribed
<1>3. /\ IsFiniteSet(DOMAIN map) /\ Cardinality(DOMAIN map) <= MaxSubscriptions
      /\ \A t \in DOMAIN map : Len(map[t]) <= MaxFilters
  <2>1. /\ IsFiniteSet(Subscribed(c)) /\ Cardinality(Subscribed(c)) \in Nat
        /\ Cardinality(Subscribed(c)) <= MaxSubscriptions
        /\ \A t \in Subscribed(c) : Len(subscriptions[c][t]) <= MaxFilters
    BY <1>1, FS_CardinalityType DEF Within
  <2>2. /\ IsFiniteSet(Subscribed(c) \ {s})
        /\ Cardinality(Subscribed(c) \ {s}) =
               IF s \in Subscribed(c) THEN Cardinality(Subscribed(c)) - 1
               ELSE Cardinality(Subscribed(c))
    BY <2>1, FS_RemoveElement
  <2>3. Cardinality(Subscribed(c) \ {s}) <= MaxSubscriptions
    BY <2>1, <2>2, LimitsAssumption
  <2>4. \A t \in DOMAIN map : Len(map[t]) <= MaxFilters
    BY <2>1
  <2> QED
    BY <1>2, <2>2, <2>3, <2>4
<1>4. subscriptions' = [subscriptions EXCEPT ![c] = map]
    BY DEF Subscribed
<1>5. received' \in [Clients -> SUBSET (SubIds \X Events)]
    BY SocketTypes DEF Others
<1> HIDE DEF map
<1> QED
    BY <1>2, <1>3, <1>4, <1>5, MessageInv

\* Events that are stored, for a client or for a payment, touch no connection.
LEMMA StoringInv ==
    ASSUME RelayInv, NEW e \in Events, store(e),
           UNCHANGED <<server, ws, handlers, subscriptions, received>>,
           acked' \in {acked, acked \cup {e}}, fulfilled' \in {fulfilled, fulfilled \cup {e}}
    PROVE  RelayInv'
<1>1. TableInv'
    BY StoredInv DEF RelayInv
<1>2. RelayTypeOK'
    BY <1>1 DEF RelayInv, RelayTypeOK, TableInv, StoreInv
<1>3. FinitelyMany' /\ LimitsHold'
    BY DEF RelayInv, FinitelyMany, LimitsHold, Subscribed, Listening
<1> QED
    BY <1>1, <1>2, <1>3 DEF RelayInv

-------------------------------------------------------------------------------
\* Every step keeps the invariant.
LEMMA RelayStep == RelayInv /\ [RelayNext]_relayVars => RelayInv'
<1> SUFFICES ASSUME RelayInv, [RelayNext]_relayVars PROVE RelayInv'
    OBVIOUS
<1>1. ASSUME NEW c \in Clients, Connect(c) PROVE RelayInv'
    BY <1>1, ConnectInv
<1>2. ASSUME NEW c \in Clients, OnClose(c) PROVE RelayInv'
    BY <1>2, OnCloseInv
<1>3. ASSUME NEW c \in Clients, Message(c) PROVE RelayInv'
  <2>1. ASSUME NEW e \in Events, handleEvent(c, e) PROVE RelayInv'
    BY <2>1, StoringInv DEF handleEvent, MessageFrame
  <2> QED
    BY <1>3, <2>1, ReqInv, CloseInv, UncaughtInv DEF Message
<1>4. CASE stop
    BY <1>4, StopInv
<1>5. ASSUME NEW e \in Verified, NEW amount \in Amounts, handlePayment(e, amount)
      PROVE  RelayInv'
    BY <1>5, StoringInv, VerifiedAssumption DEF handlePayment
<1>6. CASE UNCHANGED relayVars
  <2>1. RelayTypeOK'
    BY <1>6 DEF RelayInv, RelayTypeOK, StoreTypeOK, relayVars, storeVars
  <2>2. FinitelyMany' /\ LimitsHold'
    BY <1>6 DEF RelayInv, FinitelyMany, LimitsHold, Subscribed, Listening, relayVars
  <2>3. TableInv'
    BY <1>6, TableFramed DEF RelayInv, relayVars
  <2> QED
    BY <2>1, <2>2, <2>3 DEF RelayInv
<1> QED
    BY <1>1, <1>2, <1>3, <1>4, <1>5, <1>6 DEF RelayNext

\* Sockets, handlers and subscriptions stay well formed.
THEOREM RelayTypeCorrect == RelaySpec => []RelayTypeOK
<1>1. RelayInv => RelayTypeOK
    BY DEF RelayInv
<1> QED
    BY <1>1, RelayInitInv, RelayStep, PTL DEF RelaySpec

\* However connections come, fail, close and come back, the limits on
\* connections, subscriptions and filters hold, and no slot leaks.
THEOREM LimitsAlwaysHold == RelaySpec => []LimitsHold
<1>1. RelayInv => LimitsHold
    BY DEF RelayInv
<1> QED
    BY <1>1, RelayInitInv, RelayStep, PTL DEF RelaySpec

\* An event that was acknowledged to a client or paid for is in the table, or a
\* newer one of its author and kind is, whatever clients and payers store, but for
\* events that share an id with another.
THEOREM AcksAreKept == RelaySpec => []AcksKept
<1>1. RelayInv => AcksKept
    BY DEF RelayInv, TableInv
<1> QED
    BY <1>1, RelayInitInv, RelayStep, PTL DEF RelaySpec

\* Where every id is the hash of its event, without that exception.
THEOREM HashedAcksAreKept ==
    ASSUME IdsAreHashes(Events)
    PROVE  RelaySpec => [](\A e \in acked \cup fulfilled :
               \/ e \in rows
               \/ \E f \in rows : f.pubkey = e.pubkey /\ f.kind = e.kind /\ Newer(f, e))
<1>1. RelayTypeOK /\ AcksKept =>
          \A e \in acked \cup fulfilled :
              \/ e \in rows
              \/ \E f \in rows : f.pubkey = e.pubkey /\ f.kind = e.kind /\ Newer(f, e)
    BY DEF AcksKept, HasNamesake, IdsAreHashes, RelayTypeOK, StoreTypeOK
<1> QED
    BY <1>1, AcksAreKept, RelayTypeCorrect, PTL

-------------------------------------------------------------------------------
\* Whatever is in the table, a request gets what matches any of its filters, if its
\* list is uniform and patterns find exactly the tags they are built from.
THEOREM QueriesMatchAny ==
    ASSUME PatternsExact, \A filters \in FilterLists : Uniform(filters)
    PROVE  RelaySpec => []QueryMatchesAny
<1>1. RelayTypeOK => QueryMatchesAny
    BY UniformMatching DEF RelayTypeOK, StoreTypeOK, QueryMatchesAny
<1>2. QED
    BY <1>1, RelayTypeCorrect, PTL
===============================================================================
