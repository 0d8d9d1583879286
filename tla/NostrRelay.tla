------------------------------ MODULE NostrRelay ------------------------------
(***************************************************************************)
(* The relay: NostrRelayServer and the ConnectionHandler of each client    *)
(* (packages/relay/src/websocket), and the BusinessLogicServer that takes  *)
(* paid writes (packages/bls/src/bls), over one EventStore.                *)
(*                                                                         *)
(* Every handler is synchronous, so each message is one action; messages,  *)
(* connections that come and go, payments and stop() interleave.           *)
(* Messages that are answered with a NOTICE before they change anything    *)
(* (malformed JSON, bad TOON, an empty subscription id), and payments that *)
(* are rejected, are left out.                                             *)
(*                                                                         *)
(* Nobody checks the id or the signature of an EVENT that comes over a     *)
(* socket, so ids of events need not be hashes here.                       *)
(***************************************************************************)
EXTENDS StoreQueries, Pricing

CONSTANTS
    Clients,
    SubIds,
    MaxConnections,    \* maxConnections
    MaxSubscriptions,  \* maxSubscriptionsPerConnection
    MaxFilters,        \* maxFiltersPerSubscription
    Verified,          \* events whose signature, and so whose id, is right
    Amounts,           \* what packets pay
    Bytes,             \* length of each event in TOON
    BasePricePerByte,
    KindOverrides,     \* price per byte of some kinds
    SpspMinPrice,      \* {} or {spspMinPrice}
    Owner              \* the owner's pubkey, or none of Authors

ASSUME LimitsAssumption == /\ {MaxConnections, MaxSubscriptions, MaxFilters} \subseteq Nat
                           /\ IsFiniteSet(Clients)
ASSUME VerifiedAssumption == Verified \subseteq Events /\ IdsAreHashes(Verified)
ASSUME PricesAssumption == /\ Bytes \in [Events -> Nat]
                           /\ SpspMinPrice \subseteq Nat /\ BasePricePerByte \in Nat
                           /\ KindOverrides \in [DOMAIN KindOverrides -> Nat]

VARIABLES
    server,         \* accepts connections, is stopped, or its process has crashed
    ws,             \* each client's socket: none, open, closing (by stop), or refused
    handlers,       \* clients in the server's map of handlers
    subscriptions,  \* of each client's ConnectionHandler
    received,       \* history: <<id, event>> sent for the present subscriptions
    acked,          \* history: events acknowledged with OK true
    fulfilled       \* history: events whose payment was fulfilled

relayVars == <<storeVars, server, ws, handlers, subscriptions, received, acked, fulfilled>>

Subscribed(c) == DOMAIN subscriptions[c]

\* The types of the table, the sockets and the handlers; a handler keeps the
\* filters of its subscriptions as they were sent.
RelayTypeOK ==
    /\ StoreTypeOK
    /\ server \in {"running", "stopped", "crashed"}
    /\ ws \in [Clients -> {"none", "open", "closing", "refused"}]
    /\ handlers \subseteq Clients
    /\ subscriptions \in [Clients -> UNION {[ids -> FilterLists] : ids \in SUBSET SubIds}]
    /\ received \in [Clients -> SUBSET (SubIds \X Events)]
    /\ acked \subseteq Events /\ fulfilled \subseteq Events

NoSubscriptions == [s \in {} |-> <<>>]

RelayInit ==
    /\ StoreInit
    /\ server = "running"
    /\ ws = [c \in Clients |-> "none"]
    /\ handlers = {}
    /\ subscriptions = [c \in Clients |-> NoSubscriptions]
    /\ received = [c \in Clients |-> {}]
    /\ acked = {} /\ fulfilled = {}

-------------------------------------------------------------------------------
\* Connections

\* A client may come back after it was refused or has gone.
Connect(c) ==
    /\ server = "running" /\ ws[c] \in {"none", "refused"}
    /\ IF Cardinality(handlers) >= MaxConnections
       THEN /\ ws' = [ws EXCEPT ![c] = "refused"]
            /\ UNCHANGED handlers
       ELSE /\ ws' = [ws EXCEPT ![c] = "open"]
            /\ handlers' = handlers \cup {c}
    /\ UNCHANGED <<storeVars, server, subscriptions, received, acked, fulfilled>>

cleanup(cs) ==
    /\ subscriptions' = [c \in Clients |-> IF c \in cs THEN NoSubscriptions ELSE subscriptions[c]]
    /\ received' = [c \in Clients |-> IF c \in cs THEN {} ELSE received[c]]

\* The listeners stay on the socket until it is closed.
Listening(c) == ws[c] \in {"open", "closing"}

\* Mutation of OnClose: the handler stays in the map.
OnCloseLeaking(c) ==
    /\ Listening(c)
    /\ ws' = [ws EXCEPT ![c] = "none"]
    /\ cleanup({c})
    /\ UNCHANGED <<storeVars, server, handlers, acked, fulfilled>>

\* "close"; a socket that fails emits "error" first, which does the same.
OnClose(c) ==
    /\ Listening(c)
    /\ ws' = [ws EXCEPT ![c] = "none"]
    /\ cleanup({c})
    /\ handlers' = handlers \ {c}
    /\ UNCHANGED <<storeVars, server, acked, fulfilled>>

stop ==
    /\ server = "running"
    /\ server' = "stopped"
    /\ cleanup(handlers)
    /\ ws' = [c \in Clients |-> IF c \in handlers THEN "closing" ELSE ws[c]]
    /\ handlers' = {}
    /\ UNCHANGED <<storeVars, acked, fulfilled>>

-------------------------------------------------------------------------------
\* Messages of a client

MessageFrame == UNCHANGED <<server, ws, handlers, fulfilled>>

Others(c, s) == {r \in received[c] : r[1] # s}

\* Mutation of handleReq: a list that is too long is cut off.
handleReqTruncated(c, s, filters) ==
    /\ Listening(c)
    /\ s \in Subscribed(c) \/ Cardinality(Subscribed(c)) < MaxSubscriptions
    /\ LET some == IF Len(filters) <= MaxFilters THEN filters
                   ELSE SubSeq(filters, 1, MaxFilters) IN
       subscriptions' = [subscriptions EXCEPT ![c] =
           [t \in DOMAIN @ \cup {s} |-> IF t = s THEN some ELSE @[t]]]
    /\ UNCHANGED <<storeVars, received, acked>>
    /\ MessageFrame

\* Too many subscriptions or filters are answered with a NOTICE alone.
handleReq(c, s, filters) ==
    /\ Listening(c)
    /\ s \in Subscribed(c) \/ Cardinality(Subscribed(c)) < MaxSubscriptions
    /\ Len(filters) <= MaxFilters
    /\ subscriptions' = [subscriptions EXCEPT ![c] =
           [t \in DOMAIN @ \cup {s} |-> IF t = s THEN filters ELSE @[t]]]
    /\ \E found \in query(filters) :
           received' = [received EXCEPT ![c] =
               Others(c, s) \cup (IF ws[c] = "open" THEN {s} \X found ELSE {})]
    /\ UNCHANGED <<storeVars, acked>>
    /\ MessageFrame

\* Nobody but the sender hears of the event; a closing socket gets no OK.
handleEvent(c, e) ==
    /\ Listening(c)
    /\ store(e)
    /\ acked' = IF ws[c] = "open" THEN acked \cup {e} ELSE acked
    /\ UNCHANGED <<subscriptions, received>>
    /\ MessageFrame

handleClose(c, s) ==
    /\ Listening(c)
    /\ subscriptions' = [subscriptions EXCEPT ![c] = [t \in DOMAIN @ \ {s} |-> @[t]]]
    /\ received' = [received EXCEPT ![c] = Others(c, s)]
    /\ UNCHANGED <<storeVars, acked>>
    /\ MessageFrame

\* An EVENT without event or id throws, and so does the query of a REQ whose filter
\* has fields of wrong types, after the subscription was set.  Nobody catches what
\* a message listener throws: the process ends, and all sockets with it.  (Of a
\* table in memory nothing is asked afterwards; a file keeps it.)
Uncaught(c) ==
    /\ Listening(c)
    /\ server' = "crashed"
    /\ ws' = [d \in Clients |-> "none"]
    /\ cleanup(Clients)
    /\ handlers' = {}
    /\ UNCHANGED <<storeVars, acked, fulfilled>>

-------------------------------------------------------------------------------
\* Paid writes

Prices == [basePricePerByte |-> BasePricePerByte, kindOverrides |-> KindOverrides,
           spspMinPrice |-> SpspMinPrice]

Covers(amount, e) == e.pubkey = Owner \/ amount >= price(Prices, Bytes[e], e.kind)

\* Mutation of handlePayment: a payment is fulfilled whether or not it stores.
handlePaymentUnstored(e, amount) ==
    /\ server # "crashed" /\ Covers(amount, e)
    /\ fulfilled' = fulfilled \cup {e}
    /\ UNCHANGED <<storeVars, server, ws, handlers, subscriptions, received, acked>>

\* The BLS of the process, which stop leaves running.  Events whose signature is
\* wrong are refused; the owner's are free; the others are refused, and nothing
\* changes, if the amount falls short.
handlePayment(e, amount) ==
    /\ server # "crashed" /\ Covers(amount, e)
    /\ store(e)
    /\ fulfilled' = fulfilled \cup {e}
    /\ UNCHANGED <<server, ws, handlers, subscriptions, received, acked>>

-------------------------------------------------------------------------------
Message(c) ==
    \/ \E s \in SubIds : handleClose(c, s) \/ \E fs \in FilterLists : handleReq(c, s, fs)
    \/ \E e \in Events : handleEvent(c, e)
    \/ Uncaught(c)

RelayNext ==
    \/ \E c \in Clients : Connect(c) \/ OnClose(c) \/ Message(c)
    \/ stop
    \/ \E e \in Verified, amount \in Amounts : handlePayment(e, amount)

\* A closing handshake that is not answered is given up.
RelayFairness == \A c \in Clients : WF_relayVars(ws[c] = "closing" /\ OnClose(c))

RelaySpec == RelayInit /\ [][RelayNext]_relayVars /\ RelayFairness
-------------------------------------------------------------------------------
\* Properties

\* The limits hold at every moment, however connections fail, close and come
\* back: a slot is held by a connection whose socket is open, and an open socket
\* holds one, so that none leaks; and only live sockets have subscriptions.
LimitsHold ==
    /\ Cardinality(handlers) <= MaxConnections
    /\ handlers = {c \in Clients : ws[c] = "open"}
    /\ \A c \in Clients :
           /\ Cardinality(Subscribed(c)) <= MaxSubscriptions
           /\ \A s \in Subscribed(c) : Len(subscriptions[c][s]) <= MaxFilters
           /\ Subscribed(c) # {} => Listening(c)

\* Another event was submitted under the id of f.
HasNamesake(f) == \E g \in submitted : g # f /\ g.id = f.id

\* What was acknowledged or paid for is in the table, or a newer event of its author
\* and kind has taken its place, whoever stored that one.  Only events that borrow
\* an id, which the free EVENT message lets in, make the relay forget more: one may
\* be inserted in the place of either, or make the insert of either be ignored.
AcksKept ==
    \A e \in acked \cup fulfilled : \E f \in submitted :
        /\ f = e \/ (f.pubkey = e.pubkey /\ f.kind = e.kind /\ Newer(f, e))
        /\ f \in rows \/ HasNamesake(f)

\* Line 348 of SqliteEventStore.ts: a query finds the events matching any of the
\* provided filters (all events when there is none).  True of the lists of this
\* instance; not of one with an empty filter beside others, nor of one that mixes
\* limits.
QueryMatchesAny ==
    \A filters \in FilterLists : buildQuerySql(filters) = MatchingAny(rows, filters)

\* An event in the table that an open subscription without limit asks for.
Wanted(c, s, e) ==
    /\ s \in Subscribed(c) /\ ws[c] = "open" /\ e \in rows
    /\ \E i \in DOMAIN subscriptions[c][s] :
           matchFilter(e, subscriptions[c][s][i]) /\ subscriptions[c][s][i].limit = {}

\* docs/ILP-GATED-RELAY.md, line 147: the relay keeps a subscription open and
\* pushes new matching events.
EventsArePushed ==
    \A c \in Clients, s \in SubIds, e \in Events :
        Wanted(c, s, e) ~> (<<s, e>> \in received[c] \/ ~Wanted(c, s, e))
===============================================================================
