------------------------------- MODULE AgentNode -------------------------------
(***************************************************************************)
(* The container of a node (docker/src/entrypoint.ts): main() starts the   *)
(* BLS and the relay over one in-memory table, waits for the agent         *)
(* runtime, bootstraps, and starts the RelayMonitor and the social         *)
(* discovery on the node's own relay.  It may be killed at any moment, is  *)
(* started again, and finds nothing of what it had but the rows that its   *)
(* earlier lives left in the connector.                                    *)
(*                                                                         *)
(* The monitor is module RelayMonitor.  Bootstrap has module Bootstrap for *)
(* the detail: nothing else calls the connector while it runs, so here the *)
(* registration and the handshake of a peer are one step each.  Of social  *)
(* discovery (module SocialDiscovery) there is what it does to the         *)
(* connector: it adds any peers, several at a time, without settlement.    *)
(*                                                                         *)
(* The monitor and social discovery wrap their filter in an array, so the  *)
(* REQ constrains nothing: the relay answers with all its events, of every *)
(* author and kind, newest first, and the client filters none of them but  *)
(* those that do not verify.  The monitor takes an event of another kind   *)
(* for a leave of its author, and social discovery for a follow list.      *)
(***************************************************************************)
EXTENDS RelayMonitor, PeerSources, FiniteSets

CONSTANTS
    Me,         \* the node's own pubkey
    Events,     \* the events that may get into the relay
    Own,        \* our announcement
    Sources,    \* the peer lists a node may be configured with
    MaxLives    \* bound: starts of the process

\* An event that is no announcement is of a regular kind, and never peer information.
ASSUME EventsAssumption ==
    /\ Events \subseteq [author : Peers, kind : {"announcement", "other"}, stamp : Stamps,
                         content : Infos \cup {NoInfo}, verified : BOOLEAN]
    /\ \A e \in Events : e.kind = "other" => e.content = NoInfo
ASSUME MeAssumption == /\ Me \in Peers /\ Excluded = {Me}
                       /\ Own \in Events /\ Own.author = Me

\* A peer list: of each source, the entries in their order.
PeerEntries == [pubkey : Peers, origin : STRING, valid : BOOLEAN, relay : {"own", "theirs"}]
ASSUME SourcesAssumption ==
    \A s \in Sources :
        /\ s.genesis \in Seq(PeerEntries) /\ s.knownPeers \in Seq(PeerEntries)
        /\ s.additional.is = "array" => s.additional.entries \in Seq(PeerEntries)
        /\ s.registry.transactions \in Seq(PeerEntries)

VARIABLES
    hasRuntime,   \* AGENT_RUNTIME_URL is set
    sources,      \* what the peers are loaded from
    lives,
    node,         \* where main() is
    stored,       \* the relay's events: of each author the newest announcement,
                  \* and all others
    unfetched,    \* ArDrive transactions that could not be fetched
    known,        \* the peers to bootstrap with
    todo,         \* those that the present phase has yet to serve
    found,        \* of each bootstrapped peer: the announcement
    asked,        \* the monitor's REQ is on its way to the relay
    toServe,      \* events that the relay has sent to the monitor
    channels,     \* history: peers whose row got a channel in this life
    followed      \* history: peers social discovery told the connector of

bootVars == <<unfetched, known, todo, found>>
relayVars == <<stored, asked, toServe>>
fixedVars == <<hasRuntime, sources, lives>>
nodeVars == <<fixedVars, node, bootVars, relayVars, followed, channels>>
allVars == <<vars, nodeVars>>

results == DOMAIN found
Up == node # "down"

MonitorIdle ==
    /\ peerTimestamps' = [p \in Peers |-> 0]
    /\ registeredPeers' = {}
    /\ pc' = [k \in Tasks |-> "idle"]
    /\ call' = [k \in Tasks |-> "none"]
    /\ info' = [k \in Tasks |-> NoInfo]
    /\ attempt' = [k \in Tasks |-> 0]
    /\ charged' = [k \in Tasks |-> 0]

NodeInit ==
    /\ subscribed = FALSE
    /\ peerTimestamps = [p \in Peers |-> 0]
    /\ registeredPeers = {}
    /\ pc = [k \in Tasks |-> "idle"]
    /\ call = [k \in Tasks |-> "none"]
    /\ info = [k \in Tasks |-> NoInfo]
    /\ attempt = [k \in Tasks |-> 0]
    /\ charged = [k \in Tasks |-> 0]
    /\ connector = [p \in Peers |-> NoEntry]
    /\ hasRuntime \in BOOLEAN
    /\ sources \in Sources
    /\ lives = 0
    /\ node = "down"
    /\ stored = {}
    /\ unfetched = {} /\ known = NoPeers /\ todo = {} /\ found = NoPeers
    /\ asked = FALSE /\ toServe = {}
    /\ channels = {} /\ followed = {}

-------------------------------------------------------------------------------
\* The life of the process

\* SqliteEventStore(':memory:'), BLS, relay.
main ==
    /\ ~Up /\ lives < MaxLives
    /\ lives' = lives + 1
    /\ node' = "waiting"
    /\ UNCHANGED <<vars, hasRuntime, sources, bootVars, relayVars, followed, channels>>

\* A kill at any moment, an exception that nobody catches, a signal before its
\* handlers are there, an agent runtime that does not get healthy in time, or the
\* end of a shutdown.
Exit ==
    /\ Up
    /\ node' = "down"
    /\ subscribed' = FALSE
    /\ MonitorIdle
    /\ stored' = {}
    /\ unfetched' = {} /\ known' = NoPeers /\ todo' = {} /\ found' = NoPeers
    /\ asked' = FALSE /\ toServe' = {}
    /\ channels' = {} /\ followed' = {}
    /\ UNCHANGED <<connector, fixedVars>>

\* SIGTERM: the subscriptions end; tasks go on while the servers close.
shutdown ==
    /\ node = "ready"
    /\ node' = "stopping"
    /\ subscribed' = FALSE
    /\ asked' = FALSE /\ toServe' = {}
    /\ UNCHANGED <<peerTimestamps, registeredPeers, pc, call, info, attempt, connector,
                   charged, fixedVars, bootVars, stored, followed, channels>>

-------------------------------------------------------------------------------
\* The BLS and the relay

\* The announcements that e would replace.  Of two with the same stamp the lower
\* id stays (EventStore); here either may.
Namesakes(e) ==
    {f \in stored : e.kind = "announcement" /\ f.kind = "announcement" /\ f.author = e.author}

Put(e) == IF \E f \in Namesakes(e) : f.stamp > e.stamp THEN stored
          ELSE (stored \ Namesakes(e)) \cup {e}

\* Mutation of Store: the relay pushes the event to the monitor.
StorePushing(e) ==
    /\ Up
    /\ Put(e) # stored
    /\ stored' = Put(e)
    /\ toServe' = IF subscribed /\ ~asked THEN toServe \cup {e} ELSE toServe
    /\ UNCHANGED <<vars, fixedVars, node, bootVars, asked, followed, channels>>

\* An event is paid for at the BLS (ours need not be; requests of kind 23194 are
\* answered and not stored), or is published at the relay (handleEvent of its
\* ConnectionHandler), which costs nothing.  Neither verifies it.
Store(e) ==
    /\ Up
    /\ Put(e) # stored
    /\ stored' = Put(e)
    /\ UNCHANGED <<vars, fixedVars, node, bootVars, asked, toServe, followed, channels>>

-------------------------------------------------------------------------------
\* Bootstrap

StartBootstrap ==
    /\ node = "waiting"
    /\ node' = "registering"
    /\ \E failing \in SUBSET DOMAIN sources.registry.transactions :
           /\ unfetched' = failing
           /\ known' = knownPeersMap(sources, failing)
           /\ todo' = DOMAIN known'
    /\ UNCHANGED <<vars, fixedVars, found, relayVars, followed, channels>>

\* What a peer's relay may answer; ours has what it stored.  Nobody verifies it.
Announced(p) ==
    {e \in Events : /\ e.author = p /\ e.kind = "announcement" /\ e.content # NoInfo
                    /\ known[p].relay = "own" => e \in stored}

\* bootstrapWithPeer: the peer is a result whether or not the connector took it.
Bootstrapped(p) ==
    /\ node = "registering" /\ p \in todo
    /\ todo' = todo \ {p}
    /\ \E e \in Announced(p) :
           /\ found' = Merged(found, [q \in {p} |-> e])
           /\ connector' \in {connector,
                  [connector EXCEPT ![p] = [info |-> e.content, settled |-> 0]]}
    /\ UNCHANGED <<subscribed, peerTimestamps, registeredPeers, pc, call, info, attempt,
                   charged, fixedVars, node, unfetched, known, relayVars, followed, channels>>

\* Nothing found, no answer in time, or an announcement that does not parse.
BootstrapPeerFailed(p) ==
    /\ node = "registering" /\ p \in todo
    /\ todo' = todo \ {p}
    /\ UNCHANGED <<vars, fixedVars, node, unfetched, known, found, relayVars, followed,
                   channels>>

RegistrationDone ==
    /\ node = "registering" /\ todo = {}
    /\ node' = "handshaking"
    /\ todo' = IF hasRuntime THEN results ELSE {}
    /\ known' = NoPeers /\ unfetched' = {}
    /\ UNCHANGED <<vars, fixedVars, found, relayVars, followed, channels>>

\* performSpspHandshake: with a channel the row is replaced (or the connector
\* refuses); without, or if it fails, the row stays.
BootstrapHandshake(p) ==
    /\ node = "handshaking" /\ p \in todo
    /\ todo' = todo \ {p}
    /\ \/ UNCHANGED <<connector, channels>>
       \/ /\ connector' = [connector EXCEPT ![p] =
                 [info |-> found[p].content, settled |-> found[p].stamp]]
          /\ channels' = channels \cup {p}
    /\ UNCHANGED <<subscribed, peerTimestamps, registeredPeers, pc, call, info, attempt,
                   charged, fixedVars, node, unfetched, known, found, relayVars, followed>>

\* Without results the node stores its own announcement.  With a runtime the
\* monitor is started, then social discovery; "ready".
BootstrapDone ==
    /\ node = "handshaking" /\ todo = {}
    /\ node' = "ready"
    /\ stored' = IF results = {} THEN Put(Own) ELSE stored
    /\ subscribed' = hasRuntime
    /\ asked' = hasRuntime
    /\ UNCHANGED <<peerTimestamps, registeredPeers, pc, call, info, attempt, connector,
                   charged, fixedVars, bootVars, toServe, followed, channels>>

-------------------------------------------------------------------------------
\* The monitor

\* Mutation of ServeMonitor: only events since the start are sent.
ServeMonitorSince ==
    /\ asked
    /\ asked' = FALSE
    /\ toServe' = {}
    /\ UNCHANGED <<vars, fixedVars, node, bootVars, stored, followed, channels>>

\* The REQ: all that is in the relay by then is sent, and nothing afterwards.
ServeMonitor ==
    /\ asked
    /\ asked' = FALSE
    /\ toServe' = stored
    /\ UNCHANGED <<vars, fixedVars, node, bootVars, stored, followed, channels>>

\* The event handler: an event that is no peer information is a leave.
Handle(e) ==
    IF e.content = NoInfo
    THEN OnLeaveKnown(e.author, e.stamp) \/ OnLeaveUnknown(e.author, e.stamp)
    ELSE OnInfoKnown(e.author, e.stamp, e.content) \/ OnInfoNew(e.author, e.stamp, e.content)

\* Mutation of Skipped: the monitor is started without the bootstrapped peers.
SkippedStaleOnly(e) ==
    \/ ~e.verified
    \/ e.author \in Excluded
    \/ ~Fresh(e.author, e.stamp)

\* The client drops events that do not verify, and the handler those of the
\* bootstrapped peers and of ours, and those that are not newer than the last.
Skipped(e) ==
    \/ ~e.verified
    \/ e.author \in results \cup Excluded
    \/ ~Fresh(e.author, e.stamp)

\* The newest comes first.
Deliver(e) ==
    /\ e \in toServe
    /\ \A f \in toServe : f.stamp <= e.stamp
    /\ toServe' = toServe \ {e}
    /\ IF Skipped(e) THEN UNCHANGED vars ELSE Handle(e)
    /\ UNCHANGED <<fixedVars, node, bootVars, stored, asked, followed, channels>>

Monitor(k) ==
    /\ Answered(k) \/ Resumed(k)
    /\ channels' = channels \cup
           {p \in Peers : connector'[p].settled # 0 /\ connector'[p] # connector[p]}
    /\ UNCHANGED <<fixedVars, node, bootVars, relayVars, followed>>

-------------------------------------------------------------------------------
\* Social discovery: a contact has answered an SPSP request, and its row becomes one
\* without channel, from the announcement that the relay had when the follow was
\* taken up: it may have another by now, so here it is any.  Nor is there a bound
\* on the follows, or on those of one contact, that are served at a time.
Follow(e) ==
    /\ node \in {"ready", "stopping"}
    /\ e.kind = "announcement" /\ e.content # NoInfo /\ e.verified
    /\ connector' = [connector EXCEPT ![e.author] = [info |-> e.content, settled |-> 0]]
    /\ followed' = followed \cup {e.author}
    /\ UNCHANGED <<subscribed, peerTimestamps, registeredPeers, pc, call, info, attempt,
                   charged, fixedVars, node, bootVars, relayVars, channels>>

-------------------------------------------------------------------------------
Boot == \/ StartBootstrap \/ RegistrationDone \/ BootstrapDone
        \/ \E p \in Peers : Bootstrapped(p) \/ BootstrapPeerFailed(p) \/ BootstrapHandshake(p)

Handling == \E k \in Tasks : Monitor(k)

Served == ServeMonitor \/ \E e \in Events : Deliver(e)

NodeNext ==
    \/ main \/ Exit \/ shutdown
    \/ Boot \/ Served
    \/ \E e \in Events : Store(e) \/ Follow(e)
    \/ Handling

\* As long as the relay has something to send, or the connector or the runtime a
\* call to answer, or a task an answer to take, one of them goes on.  Nobody has to
\* publish, to follow, to kill or to start.
NodeFairness == WF_allVars(Served \/ Handling)

NodeSpec == NodeInit /\ [][NodeNext]_allVars /\ NodeFairness
-------------------------------------------------------------------------------
\* Properties

\* BootstrapService line 169 and GenesisPeerLoader: each known peer is there once;
\* the last configured entry counts before the newest of ArDrive that can be fetched,
\* which is asked for at our own relay, that before the last additional one and
\* the last genesis one.
SourcesMerged ==
    node = "registering" =>
        LET registered == {i \in DOMAIN sources.registry.transactions \ unfetched :
                              /\ sources.ardriveEnabled /\ sources.defaultRelay
                              /\ sources.registry.available
                              /\ sources.registry.transactions[i].valid}
            bundled == sources.genesis \o
                IF sources.additional.is = "array" THEN sources.additional.entries ELSE <<>>
            listed == {i \in DOMAIN bundled : bundled[i].valid}
            configured == sources.knownPeers
        IN \A p \in Peers :
            IF \E i \in DOMAIN configured : configured[i].pubkey = p
            THEN \E i \in DOMAIN configured :
                     /\ known[p] = configured[i] /\ known[p].pubkey = p
                     /\ \A j \in DOMAIN configured : j > i => configured[j].pubkey # p
            ELSE IF \E i \in registered : sources.registry.transactions[i].pubkey = p
            THEN \E i \in registered :
                     /\ known[p].origin = sources.registry.transactions[i].origin
                     /\ known[p].pubkey = p /\ known[p].relay = "own"
                     /\ \A j \in registered : j < i => sources.registry.transactions[j].pubkey # p
            ELSE IF \E i \in listed : bundled[i].pubkey = p
            THEN \E i \in listed : /\ known[p] = bundled[i] /\ known[p].pubkey = p
                                   /\ \A j \in listed : j > i => bundled[j].pubkey # p
            ELSE p \notin DOMAIN known

\* What module RelayMonitor needs for its peers to be routed to is so in a node:
\* its relay sends everything once, newest first, and an event that is older than
\* the last is dropped, so no two tasks of a peer are ever there in one life.
DeliveredSerially ==
    \A p \in Peers : Cardinality({k \in TasksOf(p) : pc[k] # "idle"}) <= 1

\* The row of a peer that bootstrap or the monitor opened a channel with in this
\* life settles on a channel: the one does not undo the other's work, and only
\* social discovery, which adds peers without settlement, does.
ChannelsKept ==
    \A p \in channels \ followed : connector[p].settled # 0

\* No announcement is lost for an older event: one that is in the relay when the
\* monitor has asked for it leads to a finished task for it, or for an event of its
\* author, of whatever kind, that is as new; unless it is replaced in the relay,
\* bootstrap served its author, or the node is stopped.
SnapshotServed ==
    \A e \in {a \in Events : a.kind = "announcement" /\ a.verified /\ a.author \notin Excluded} :
        (asked /\ e \in stored /\ e.author \notin results)
        ~> (\/ node # "ready" \/ e \notin stored
            \/ \E k \in TasksOf(e.author) : StampOf(k) >= e.stamp /\ pc[k] \in Finished)
===============================================================================
