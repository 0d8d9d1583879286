------------------------------- MODULE Bootstrap -------------------------------
(***************************************************************************)
(* BootstrapService (packages/core/src/bootstrap/BootstrapService.ts).     *)
(*                                                                         *)
(* bootstrap() is one coroutine: it queries the relay of each known peer   *)
(* over a WebSocket, registers the peer with the connector, handshakes     *)
(* with each registered peer over ILP and announces itself to each.  The   *)
(* sockets and timers of the queries are callbacks that run while it       *)
(* awaits, and long after the query they belong to was answered: no        *)
(* listener is removed and no timer is cleared.                            *)
(*                                                                         *)
(* Relays, connector and agent runtime are external.  HTTP calls are       *)
(* answered in the end (fetch gives up by itself); sockets may stay silent.*)
(* Nothing catches what a listener throws, nor the rejections of promises  *)
(* that nobody awaits: either ends the process.                            *)
(***************************************************************************)
EXTENDS Integers, Sequences, FiniteSetsExt, Functions

CONSTANTS
    Queue,        \* the known peers, merged and without duplicates
    BadPubkeys,   \* those whose pubkey is malformed
    Stamps,       \* created_at values of the events a relay may send
    Unparseable   \* stamps of events whose content does not parse

Peers == {Queue[i] : i \in DOMAIN Queue}

ASSUME QueueAssumption ==
    /\ Queue \in Seq(Peers)
    /\ \A i, j \in DOMAIN Queue : Queue[i] = Queue[j] => i = j
\* Among any events there is a newest one.
ASSUME BootstrapStampsAssumption ==
    /\ Stamps \subseteq Nat \ {0} /\ Unparseable \subseteq Stamps
    /\ \A S \in SUBSET Stamps \ {{}} : \E t \in S : \A u \in S : t >= u

VARIABLES
    clients,    \* what the service was given before bootstrap() is called
    phase,      \* what getPhase() tells
    step,       \* where bootstrap() is
    index,      \* its position in Queue, then in results
    call,       \* the HTTP call it awaits, and its answer
    socket,     \* the WebSocket of each query
    timer,      \* its timeout
    events,     \* the stamps of the events it received
    resolved,   \* its "resolved" flag
    promise,    \* its promise
    peerInfo,   \* the stamp of the event it is resolved with, or 0
    results,    \* the peers bootstrapped with
    channel,    \* those whose result has a channelId
    connector,  \* the connector's peer table
    offered     \* history: times our own info was handed over for a peer

queryVars == <<socket, timer, events, resolved, promise, peerInfo>>
resultVars == <<results, channel, offered>>
bootVars == <<clients, phase, step, index, call, queryVars, resultVars, connector>>

-------------------------------------------------------------------------------
Phases == {"discovering", "registering", "handshaking", "announcing", "ready"}

\* A connector admin client, an agent-runtime client, toonEncoder, toonDecoder.
Clients == {"admin", "runtime", "encoder", "decoder"}
HasAdmin == "admin" \in clients
HasRuntime == "runtime" \in clients
HasEncoder == "encoder" \in clients
HasCodec == {"encoder", "decoder"} \subseteq clients

\* Steps that await an HTTP answer; the others are "idle" (not yet called),
\* "loading" the peers, the head of one of the three loops, "querying", "done", or
\* "crashed" with the process.
Calling == {"adding", "handshaking", "updating", "announcing"}
Steps == Calling \cup {"idle", "loading", "nextPeer", "querying",
                       "nextHandshake", "nextAnnouncement", "done", "crashed"}

Settled(p) == promise[p] \in {"resolved", "rejected"}

\* The types of the service's state and of its queries; at most one hand-over of
\* our info per peer, and no more results than known peers.
BootTypeOK ==
    /\ clients \subseteq Clients
    /\ phase \in Phases
    /\ step \in Steps
    /\ index \in 1..(Len(Queue) + 1)
    /\ call \in {"none", "sent", "ok", "error", "channel", "plain", "refused"}
    /\ socket \in [Peers -> {"none", "connecting", "open", "closing", "closed"}]
    /\ timer \in [Peers -> {"none", "set", "fired"}]
    /\ events \in [Peers -> SUBSET Stamps]
    /\ resolved \in [Peers -> BOOLEAN]
    /\ promise \in [Peers -> {"none", "pending", "resolved", "rejected"}]
    /\ peerInfo \in [Peers -> Stamps \cup {0}]
    /\ results \in Seq(Peers) /\ Len(results) <= Len(Queue)
    /\ channel \subseteq Peers
    /\ connector \in [Peers -> {"absent", "listed", "settled"}]
    /\ offered \in [Peers -> 0..1]

BootInit ==
    /\ clients \in SUBSET Clients
    /\ phase = "discovering"
    /\ step = "idle"
    /\ index = 1
    /\ call = "none"
    /\ socket = [p \in Peers |-> "none"]
    /\ timer = [p \in Peers |-> "none"]
    /\ events = [p \in Peers |-> {}]
    /\ resolved = [p \in Peers |-> FALSE]
    /\ promise = [p \in Peers |-> "none"]
    /\ peerInfo = [p \in Peers |-> 0]
    /\ results = <<>>
    /\ channel = {}
    /\ connector = [p \in Peers |-> "absent"]
    /\ offered = [p \in Peers |-> 0]

-------------------------------------------------------------------------------
\* queryPeerInfo: the callbacks of one query.

\* Does nothing once the query is resolved.
cleanup(p) ==
    /\ resolved' = [resolved EXCEPT ![p] = TRUE]
    /\ socket' = [socket EXCEPT ![p] = IF resolved[p] THEN @ ELSE "closing"]

\* A promise settles once; later calls of resolve and reject do nothing.
Settle(p, outcome, t) ==
    IF promise[p] = "pending"
    THEN /\ promise' = [promise EXCEPT ![p] = outcome]
         /\ peerInfo' = [peerInfo EXCEPT ![p] = t]
    ELSE UNCHANGED <<promise, peerInfo>>

reject(p) == Settle(p, "rejected", 0)

\* The most recent event that arrived decides, parseable or not.
Answer(p) ==
    LET mostRecent == Max(events[p]) IN
    IF events[p] = {} \/ mostRecent \in Unparseable
    THEN reject(p)
    ELSE Settle(p, "resolved", mostRecent)

\* Callbacks run as long as the process does, and leave the coroutine alone.
CallbackFrame ==
    /\ step # "crashed"
    /\ UNCHANGED <<clients, phase, step, index, call, resultVars, connector>>

\* The REQ is sent at once.
OnOpen(p) ==
    /\ socket[p] = "connecting"
    /\ socket' = [socket EXCEPT ![p] = "open"]
    /\ UNCHANGED <<timer, events, resolved, promise, peerInfo>>
    /\ CallbackFrame

\* Messages are delivered until the close handshake ends.
OnEvent(p, t) ==
    /\ socket[p] \in {"open", "closing"}
    /\ events' = [events EXCEPT ![p] = @ \cup {t}]
    /\ UNCHANGED <<socket, timer, resolved, promise, peerInfo>>
    /\ CallbackFrame

OnEose(p) ==
    /\ socket[p] \in {"open", "closing"}
    /\ cleanup(p)
    /\ Answer(p)
    /\ UNCHANGED <<timer, events>>
    /\ CallbackFrame

\* A failed connection, or one that cleanup aborted while it was connecting.
OnError(p) ==
    /\ socket[p] \in {"connecting", "open", "closing"}
    /\ cleanup(p)
    /\ reject(p)
    /\ UNCHANGED <<timer, events>>
    /\ CallbackFrame

\* Mutation of OnClose: an early close is not reported.
OnCloseSilent(p) ==
    /\ socket[p] \in {"open", "closing"}
    /\ socket' = [socket EXCEPT ![p] = "closed"]
    /\ UNCHANGED <<timer, events, resolved, promise, peerInfo>>
    /\ CallbackFrame

OnClose(p) ==
    /\ socket[p] \in {"open", "closing"}
    /\ socket' = [socket EXCEPT ![p] = "closed"]
    /\ IF resolved[p]
       THEN UNCHANGED <<resolved, promise, peerInfo>>
       ELSE /\ resolved' = [resolved EXCEPT ![p] = TRUE]
            /\ reject(p)
    /\ UNCHANGED <<timer, events>>
    /\ CallbackFrame

\* Mutation of OnTimeout: without events it is taken for a slow relay.
OnTimeoutPatient(p) ==
    /\ timer[p] = "set"
    /\ timer' = [timer EXCEPT ![p] = "fired"]
    /\ IF resolved[p] \/ events[p] = {}
       THEN UNCHANGED <<socket, resolved, promise, peerInfo>>
       ELSE /\ cleanup(p)
            /\ Answer(p)
    /\ UNCHANGED events
    /\ CallbackFrame

OnTimeout(p) ==
    /\ timer[p] = "set"
    /\ timer' = [timer EXCEPT ![p] = "fired"]
    /\ IF resolved[p]
       THEN UNCHANGED <<socket, resolved, promise, peerInfo>>
       ELSE /\ cleanup(p)
            /\ Answer(p)
    /\ UNCHANGED events
    /\ CallbackFrame

-------------------------------------------------------------------------------
\* The coroutine.

At(s) == step = s

\* Continue at step s, awaiting an HTTP call when s is one that does.
GoTo(s) ==
    /\ step' = s
    /\ call' = IF s \in Calling THEN "sent" ELSE "none"

Answered(s, answers) == At(s) /\ call \in answers

StartBootstrap ==
    /\ At("idle")
    /\ phase' = "discovering"
    /\ GoTo("loading")
    /\ UNCHANGED <<clients, index, queryVars, resultVars, connector>>

\* loadPeers falls back on the genesis peers when ArDrive fails.
PeersLoaded ==
    /\ At("loading")
    /\ phase' = "registering"
    /\ GoTo("nextPeer")
    /\ UNCHANGED <<clients, index, queryVars, resultVars, connector>>

SkipBadPubkey ==
    /\ At("nextPeer") /\ index \in DOMAIN Queue
    /\ Queue[index] \in BadPubkeys
    /\ index' = index + 1
    /\ UNCHANGED <<clients, phase, step, call, queryVars, resultVars, connector>>

QueryPeer ==
    /\ At("nextPeer") /\ index \in DOMAIN Queue
    /\ Queue[index] \notin BadPubkeys
    /\ socket' = [socket EXCEPT ![Queue[index]] = "connecting"]
    /\ timer' = [timer EXCEPT ![Queue[index]] = "set"]
    /\ promise' = [promise EXCEPT ![Queue[index]] = "pending"]
    /\ GoTo("querying")
    /\ UNCHANGED <<clients, phase, index, events, resolved, peerInfo, resultVars, connector>>

\* Mutation of QueryFailed: the peer is registered all the same.
QueryFailedAdding ==
    /\ At("querying")
    /\ promise[Queue[index]] = "rejected"
    /\ GoTo("adding")
    /\ UNCHANGED <<clients, phase, index, queryVars, resultVars, connector>>

QueryFailed ==
    /\ At("querying")
    /\ promise[Queue[index]] = "rejected"
    /\ index' = index + 1
    /\ GoTo("nextPeer")
    /\ UNCHANGED <<clients, phase, queryVars, resultVars, connector>>

QueryDone ==
    /\ At("querying")
    /\ promise[Queue[index]] = "resolved"
    /\ HasAdmin
    /\ GoTo("adding")
    /\ UNCHANGED <<clients, phase, index, queryVars, resultVars, connector>>

\* With or without a connector, and whether or not it took the peer.  Without a
\* runtime our info goes to the peer's relay: publishOurInfo awaits the array of
\* promises that pool.publish returns, so that it waits for none of them and catches
\* no failure.
PeerBootstrapped ==
    LET p == Queue[index] IN
    /\ \/ At("querying") /\ promise[p] = "resolved" /\ ~HasAdmin
       \/ Answered("adding", {"ok", "error"})
    /\ results' = Append(results, p)
    /\ offered' = IF HasRuntime THEN offered ELSE [offered EXCEPT ![p] = @ + 1]
    /\ index' = index + 1
    /\ GoTo("nextPeer")
    /\ UNCHANGED <<clients, phase, queryVars, channel, connector>>

RegistrationEnds ==
    /\ At("nextPeer") /\ index \notin DOMAIN Queue
    /\ IF HasRuntime /\ results # <<>>
       THEN phase' = "handshaking" /\ GoTo("nextHandshake") /\ index' = 1
       ELSE phase' = "ready" /\ GoTo("done") /\ UNCHANGED index
    /\ UNCHANGED <<clients, queryVars, resultVars, connector>>

SendHandshake ==
    /\ At("nextHandshake") /\ index \in DOMAIN results
    /\ IF HasCodec
       THEN GoTo("handshaking") /\ UNCHANGED index
       ELSE index' = index + 1 /\ UNCHANGED <<step, call>>
    /\ UNCHANGED <<clients, phase, queryVars, resultVars, connector>>

\* Rejected, unreachable, undecodable, or accepted without a channel.
HandshakeWithoutChannel ==
    /\ Answered("handshaking", {"plain", "refused"})
    /\ index' = index + 1
    /\ GoTo("nextHandshake")
    /\ UNCHANGED <<clients, phase, queryVars, resultVars, connector>>

HandshakeWithChannel ==
    /\ Answered("handshaking", {"channel"})
    /\ channel' = channel \cup {results[index]}
    /\ IF HasAdmin
       THEN GoTo("updating") /\ UNCHANGED index
       ELSE GoTo("nextHandshake") /\ index' = index + 1
    /\ UNCHANGED <<clients, phase, queryVars, results, offered, connector>>

\* A failed update is logged; the result keeps its channelId.
UpdateAnswered ==
    /\ Answered("updating", {"ok", "error"})
    /\ index' = index + 1
    /\ GoTo("nextHandshake")
    /\ UNCHANGED <<clients, phase, queryVars, resultVars, connector>>

\* Mutation of HandshakesEnd: the position is not reset.
HandshakesEndInPlace ==
    /\ At("nextHandshake") /\ index \notin DOMAIN results
    /\ phase' = "announcing"
    /\ GoTo("nextAnnouncement")
    /\ UNCHANGED <<clients, index, queryVars, resultVars, connector>>

HandshakesEnd ==
    /\ At("nextHandshake") /\ index \notin DOMAIN results
    /\ phase' = "announcing"
    /\ index' = 1
    /\ GoTo("nextAnnouncement")
    /\ UNCHANGED <<clients, queryVars, resultVars, connector>>

SendAnnouncement ==
    /\ At("nextAnnouncement") /\ index \in DOMAIN results
    /\ IF HasEncoder
       THEN /\ offered' = [offered EXCEPT ![results[index]] = @ + 1]
            /\ GoTo("announcing")
            /\ UNCHANGED index
       ELSE index' = index + 1 /\ UNCHANGED <<step, call, offered>>
    /\ UNCHANGED <<clients, phase, queryVars, results, channel, connector>>

\* Mutation of AnnouncementAnswered: a refused announcement is sent again.
AnnouncementRetried ==
    /\ Answered("announcing", {"ok", "refused"})
    /\ index' = IF call = "ok" THEN index + 1 ELSE index
    /\ GoTo("nextAnnouncement")
    /\ UNCHANGED <<clients, phase, queryVars, resultVars, connector>>

AnnouncementAnswered ==
    /\ Answered("announcing", {"ok", "refused"})
    /\ index' = index + 1
    /\ GoTo("nextAnnouncement")
    /\ UNCHANGED <<clients, phase, queryVars, resultVars, connector>>

BootstrapReady ==
    /\ At("nextAnnouncement") /\ index \notin DOMAIN results
    /\ phase' = "ready"
    /\ GoTo("done")
    /\ UNCHANGED <<clients, index, queryVars, resultVars, connector>>

-------------------------------------------------------------------------------
\* The end of the process.  What the connector was sent it may have taken before.
Crash ==
    /\ step' = "crashed"
    /\ call' = "none"
    /\ UNCHANGED <<clients, phase, index, queryVars, resultVars, connector>>

\* A message of the relay that is no JSON, or an EVENT without an id, makes the
\* message listener throw, also long after the query was answered.
OnMalformed(p) ==
    /\ socket[p] \in {"open", "closing"} /\ ~At("crashed")
    /\ Crash

\* The relay refuses the info that PeerBootstrapped published, or does not answer.
PublicationFails(p) ==
    /\ ~HasRuntime /\ offered[p] = 1 /\ ~At("crashed")
    /\ Crash

-------------------------------------------------------------------------------
\* The connector, the agent runtime and the relays (external).

AnswerCall(answers) ==
    /\ call = "sent"
    /\ call' \in answers
    /\ UNCHANGED <<clients, phase, step, index, queryVars, resultVars>>

\* addPeer replaces the peer's row; its answer may be lost.
ConnectorAdds ==
    /\ step \in {"adding", "updating"}
    /\ connector' = IF At("adding")
                    THEN [connector EXCEPT ![Queue[index]] = "listed"]
                    ELSE [connector EXCEPT ![results[index]] = "settled"]
    /\ AnswerCall({"ok", "error"})

ConnectorRefuses ==
    /\ step \in {"adding", "updating"}
    /\ AnswerCall({"error"})
    /\ UNCHANGED connector

RuntimeAnswers ==
    /\ \/ At("handshaking") /\ AnswerCall({"channel", "plain", "refused"})
       \/ At("announcing") /\ AnswerCall({"ok", "refused"})
    /\ UNCHANGED connector

-------------------------------------------------------------------------------
Callback(p) == \/ OnOpen(p) \/ OnEose(p) \/ OnError(p) \/ OnClose(p)
               \/ OnMalformed(p) \/ \E t \in Stamps : OnEvent(p, t)

Coroutine ==
    \/ PeersLoaded \/ SkipBadPubkey \/ QueryPeer \/ QueryFailed \/ QueryDone
    \/ PeerBootstrapped \/ RegistrationEnds \/ SendHandshake
    \/ HandshakeWithoutChannel \/ HandshakeWithChannel \/ UpdateAnswered
    \/ HandshakesEnd \/ SendAnnouncement \/ AnnouncementAnswered \/ BootstrapReady

HttpAnswer == ConnectorAdds \/ ConnectorRefuses \/ RuntimeAnswers

BootNext ==
    \/ StartBootstrap
    \/ Coroutine
    \/ HttpAnswer
    \/ \E p \in Peers : Callback(p) \/ OnTimeout(p) \/ PublicationFails(p)

\* The event loop runs the coroutine and the timers that are due, and every HTTP
\* call is answered; nothing is expected of the sockets and the relays.
BootFairness == /\ WF_bootVars(Coroutine) /\ WF_bootVars(HttpAnswer)
                /\ \A p \in Peers : WF_bootVars(OnTimeout(p))

BootSpec == BootInit /\ [][BootNext]_bootVars /\ BootFairness
-------------------------------------------------------------------------------
\* Properties

Bootstrapped == Range(results)

\* Whichever of EOSE, error, close and timeout comes first, and whatever comes
\* after it: a query whose socket is gone or whose timer has fired is answered,
\* with an event that arrived and parses, or with a rejection.
QueryAnswered ==
    \A p \in Peers :
        /\ resolved[p] <=> Settled(p)
        /\ socket[p] = "closed" \/ timer[p] = "fired" => resolved[p]
        /\ promise[p] = "resolved" => peerInfo[p] \in events[p] \ Unparseable

\* The connector has no peer whose query failed; but for the one being added, or
\* that was when the process ended, it has only peers that bootstrap() returns and that the monitor will skip, and
\* settles with those alone whose result has the channel.
ConnectorMatchesResults ==
    \A p \in Peers :
        /\ connector[p] # "absent" =>
               /\ promise[p] = "resolved"
               /\ p \in Bootstrapped \/ (step \in {"adding", "crashed"} /\ Queue[index] = p)
        /\ connector[p] = "settled" => p \in channel
        /\ p \in channel => p \in Bootstrapped

\* When bootstrap is ready each peer it bootstrapped with was handed our own
\* info, once, directly or over ILP, and nobody else was (with a runtime but no
\* encoder to announce with, nobody is).
OfferedOnce ==
    phase = "ready" =>
        \A p \in Peers :
            offered[p] = IF p \in Bootstrapped /\ (HasRuntime => HasEncoder) THEN 1 ELSE 0

\* bootstrap() gets to the end although relays may never answer, connect or
\* close, and whatever the connector and the runtime answer: only the end of the
\* whole process keeps it from there.
BootstrapEnds == At("loading") ~> (phase = "ready" /\ At("done")) \/ At("crashed")
===============================================================================
