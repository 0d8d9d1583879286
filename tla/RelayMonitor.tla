----------------------------- MODULE RelayMonitor -----------------------------
(***************************************************************************)
(* RelayMonitor (packages/core/src/bootstrap/RelayMonitor.ts) with the     *)
(* paid handshake client it drives (packages/core/src/spsp/                *)
(* IlpSpspClient.ts).                                                      *)
(*                                                                         *)
(* The monitor means to subscribe to kind:10032 events, but the relay gets *)
(* a list for a filter and so no condition (module AgentNode), and the     *)
(* handler does not look at the kind: an event of another kind is one that *)
(* does not parse as peer information.  Every event that is accepted is    *)
(* served in an asynchronous task that nobody waits for.  A task is known  *)
(* by the peer and the created_at of its event, which is unique because    *)
(* only strictly newer events are accepted.  A task stops at each await    *)
(* (addPeer, sendIlpPacket, addPeer with settlement, removePeer), and the  *)
(* event handler and the other tasks run in between.                       *)
(*                                                                         *)
(* The connector and the agent runtime are external: a call is "sent",     *)
(* takes effect on their side at some later moment, and its answer resumes *)
(* the task.                                                               *)
(***************************************************************************)
EXTENDS Integers

CONSTANTS
    Peers,           \* event authors
    Excluded,        \* own pubkey and the peers bootstrap already served
    Stamps,          \* created_at values: bounds the events accepted per peer
    Infos,           \* peer information an event may carry
    NoInfo,          \* content that is empty or does not parse
    CanRemove,       \* the connector client has the optional removePeer
    ConnectorFaults, \* connector calls may fail, before or after taking effect
    SerialDelivery   \* a peer's next event arrives after its last was served

ASSUME ExcludedAssumption == Excluded \subseteq Peers
ASSUME StampsAssumption == Stamps \subseteq Nat \ {0}
ASSUME NoInfoAssumption == NoInfo \notin Infos
ASSUME ModesAssumption == /\ CanRemove \in BOOLEAN
                          /\ ConnectorFaults \in BOOLEAN
                          /\ SerialDelivery \in BOOLEAN

VARIABLES
    subscribed,      \* ~isUnsubscribed
    peerTimestamps,  \* newest created_at accepted from each peer, 0 if none
    registeredPeers, \* the monitor's set of registered peers
    pc,              \* where each task is
    call,            \* the call the task awaits, and its answer
    info,            \* what the task's event carries
    attempt,         \* packets the task's handshake has handed over
    connector,       \* the connector's peer table
    charged          \* history: packets of the task that reached the peer

vars == <<subscribed, peerTimestamps, registeredPeers, pc, call, info, attempt,
          connector, charged>>

-------------------------------------------------------------------------------
\* Tasks

Tasks == Peers \X Stamps
TasksOf(p) == {p} \X Stamps
PeerOf(k) == k[1]
StampOf(k) == k[2]

Awaiting == {"adding", "handshaking", "updating", "removing"}
Finished == {"ignored", "deregistered", "failed", "handshaked", "channelOpened"}

InFlight(k) == pc[k] \in Awaiting

\* Attempts of one handshake: the first and one retry.
MaxAttempts == 2

\* A row of the connector: the information it routes by, and the stamp of the
\* event whose handshake opened the channel it settles on (0: no settlement).
NoEntry == [info |-> NoInfo, settled |-> 0]
Entries == [info : Infos \cup {NoInfo}, settled : Stamps \cup {0}]

\* The types of the monitor's state, of its tasks and of the connector's table;
\* no task ever hands over more packets than MaxAttempts.
TypeOK ==
    /\ subscribed \in BOOLEAN
    /\ peerTimestamps \in [Peers -> Stamps \cup {0}]
    /\ registeredPeers \subseteq Peers
    /\ pc \in [Tasks -> {"idle"} \cup Awaiting \cup Finished]
    /\ call \in [Tasks -> {"none", "sent", "ok", "error", "channel", "plain",
                           "refused", "unreachable"}]
    /\ info \in [Tasks -> Infos \cup {NoInfo}]
    /\ attempt \in [Tasks -> 0..MaxAttempts]
    /\ connector \in [Peers -> Entries]
    /\ charged \in [Tasks -> 0..MaxAttempts]

Init ==
    /\ subscribed = TRUE
    /\ peerTimestamps = [p \in Peers |-> 0]
    /\ registeredPeers = {}
    /\ pc = [k \in Tasks |-> "idle"]
    /\ call = [k \in Tasks |-> "none"]
    /\ info = [k \in Tasks |-> NoInfo]
    /\ attempt = [k \in Tasks |-> 0]
    /\ connector = [p \in Peers |-> NoEntry]
    /\ charged = [k \in Tasks |-> 0]

-------------------------------------------------------------------------------
\* The event handler: everything up to the first await of the task it starts.

Fresh(p, t) == t > peerTimestamps[p]

\* Mutation of Accept: the excluded peers are forgotten.
AcceptExcluded(p, t) ==
    /\ subscribed
    /\ Fresh(p, t)
    /\ SerialDelivery => \A k \in TasksOf(p) : ~InFlight(k)
    /\ peerTimestamps' = [peerTimestamps EXCEPT ![p] = t]
    /\ UNCHANGED <<subscribed, attempt, connector, charged>>

Accept(p, t) ==
    /\ subscribed
    /\ p \notin Excluded
    /\ Fresh(p, t)
    /\ SerialDelivery => \A k \in TasksOf(p) : ~InFlight(k)
    /\ peerTimestamps' = [peerTimestamps EXCEPT ![p] = t]
    /\ UNCHANGED <<subscribed, attempt, connector, charged>>

\* Mutations of OnLeaveKnown: the peer stays in the set; a leave is skipped
\* like an announcement.
LeaveKept(p, t) ==
    /\ Accept(p, t)
    /\ p \in registeredPeers
    /\ pc' = [pc EXCEPT ![<<p, t>>] = IF CanRemove THEN "removing" ELSE "deregistered"]
    /\ call' = [call EXCEPT ![<<p, t>>] = IF CanRemove THEN "sent" ELSE "none"]
    /\ UNCHANGED <<registeredPeers, info>>
OnLeaveIgnored(p, t) ==
    /\ Accept(p, t)
    /\ p \in registeredPeers
    /\ pc' = [pc EXCEPT ![<<p, t>>] = "ignored"]
    /\ UNCHANGED <<registeredPeers, call, info>>

\* From a registered peer: empty or unparseable content, or another kind of event.
OnLeaveKnown(p, t) ==
    /\ Accept(p, t)
    /\ p \in registeredPeers
    /\ registeredPeers' = registeredPeers \ {p}
    /\ pc' = [pc EXCEPT ![<<p, t>>] = IF CanRemove THEN "removing" ELSE "deregistered"]
    /\ call' = [call EXCEPT ![<<p, t>>] = IF CanRemove THEN "sent" ELSE "none"]
    /\ UNCHANGED info

\* The same from a peer that is not (yet) registered.
OnLeaveUnknown(p, t) ==
    /\ Accept(p, t)
    /\ p \notin registeredPeers
    /\ pc' = [pc EXCEPT ![<<p, t>>] = "ignored"]
    /\ UNCHANGED <<registeredPeers, call, info>>

\* Peer information from a peer that is registered already.
OnInfoKnown(p, t, i) ==
    /\ Accept(p, t)
    /\ p \in registeredPeers
    /\ pc' = [pc EXCEPT ![<<p, t>>] = "ignored"]
    /\ info' = [info EXCEPT ![<<p, t>>] = i]
    /\ UNCHANGED <<registeredPeers, call>>

OnInfoNew(p, t, i) ==
    /\ Accept(p, t)
    /\ p \notin registeredPeers
    /\ pc' = [pc EXCEPT ![<<p, t>>] = "adding"]
    /\ call' = [call EXCEPT ![<<p, t>>] = "sent"]
    /\ info' = [info EXCEPT ![<<p, t>>] = i]
    /\ UNCHANGED registeredPeers

Unsubscribe ==
    /\ subscribed
    /\ subscribed' = FALSE
    /\ UNCHANGED <<peerTimestamps, registeredPeers, pc, call, info, attempt,
                   connector, charged>>

-------------------------------------------------------------------------------
\* The connector and the agent runtime (external).

Answer(k, answer) ==
    /\ call[k] = "sent"
    /\ call' = [call EXCEPT ![k] = answer]
    /\ UNCHANGED <<subscribed, peerTimestamps, registeredPeers, pc, info, attempt>>

\* addPeer replaces the peer's row.
ConnectorAdds(k) ==
    /\ pc[k] \in {"adding", "updating"}
    /\ connector' = [connector EXCEPT ![PeerOf(k)] =
           [info |-> info[k], settled |-> IF pc[k] = "updating" THEN StampOf(k) ELSE 0]]
    /\ \E answer \in {"ok"} \cup (IF ConnectorFaults THEN {"error"} ELSE {}) :
           Answer(k, answer)
    /\ UNCHANGED charged

\* removePeer of a peer it does not have is an error the monitor swallows.
ConnectorRemoves(k) ==
    /\ pc[k] = "removing"
    /\ connector' = [connector EXCEPT ![PeerOf(k)] = NoEntry]
    /\ \E answer \in {"ok", "error"} : Answer(k, answer)
    /\ UNCHANGED charged

ConnectorRefuses(k) ==
    /\ ConnectorFaults
    /\ pc[k] \in {"adding", "updating", "removing"}
    /\ Answer(k, "error")
    /\ UNCHANGED <<connector, charged>>

\* The packet reaches the peer, which opens a channel, or answers without one,
\* or answers what cannot be decoded; or the answer is lost on the way back.
RuntimeDelivers(k) ==
    /\ pc[k] = "handshaking"
    /\ charged' = [charged EXCEPT ![k] = @ + 1]
    /\ \E answer \in {"channel", "plain", "refused", "unreachable"} : Answer(k, answer)
    /\ UNCHANGED connector

\* The packet is rejected on the way, or the runtime cannot be reached.
RuntimeRejects(k) ==
    /\ pc[k] = "handshaking"
    /\ \E answer \in {"refused", "unreachable"} : Answer(k, answer)
    /\ UNCHANGED <<connector, charged>>

-------------------------------------------------------------------------------
\* The task, resumed by an answer.

Resume(k, from, answers, to) ==
    /\ pc[k] = from
    /\ call[k] \in answers
    /\ pc' = [pc EXCEPT ![k] = to]
    /\ call' = [call EXCEPT ![k] = IF to \in Awaiting THEN "sent" ELSE "none"]
    /\ UNCHANGED <<subscribed, peerTimestamps, info, connector, charged>>

\* Mutation of Registered: the peer is not noted.
RegisteredUnnoted(k) ==
    /\ Resume(k, "adding", {"ok"}, "handshaking")
    /\ attempt' = [attempt EXCEPT ![k] = 1]
    /\ UNCHANGED registeredPeers

Registered(k) ==
    /\ Resume(k, "adding", {"ok"}, "handshaking")
    /\ registeredPeers' = registeredPeers \cup {PeerOf(k)}
    /\ attempt' = [attempt EXCEPT ![k] = 1]

RegistrationFailed(k) ==
    /\ Resume(k, "adding", {"error"}, "failed")
    /\ UNCHANGED <<registeredPeers, attempt>>

\* Mutations of HandshakeRetry: no bound on the retries; retries not counted.
RetryUnbounded(k) ==
    /\ Resume(k, "handshaking", {"unreachable"}, "handshaking")
    /\ attempt' = [attempt EXCEPT ![k] = @ + 1]
    /\ UNCHANGED registeredPeers
RetryUncounted(k) ==
    /\ Resume(k, "handshaking", {"unreachable"}, "handshaking")
    /\ UNCHANGED <<registeredPeers, attempt>>

\* A network or timeout error is retried, with the same packet.
HandshakeRetry(k) ==
    /\ Resume(k, "handshaking", {"unreachable"}, "handshaking")
    /\ attempt[k] < MaxAttempts
    /\ attempt' = [attempt EXCEPT ![k] = @ + 1]
    /\ UNCHANGED registeredPeers

\* Mutation of HandshakeFailed: nothing handles a retry that fails too.
HandshakeRefused(k) ==
    /\ Resume(k, "handshaking", {"refused"}, "failed")
    /\ UNCHANGED <<registeredPeers, attempt>>

\* The handshake failed for good; the peer stays registered.
HandshakeFailed(k) ==
    /\ \/ Resume(k, "handshaking", {"refused"}, "failed")
       \/ /\ Resume(k, "handshaking", {"unreachable"}, "failed")
          /\ attempt[k] = MaxAttempts
    /\ UNCHANGED <<registeredPeers, attempt>>

HandshakePlain(k) ==
    /\ Resume(k, "handshaking", {"plain"}, "handshaked")
    /\ UNCHANGED <<registeredPeers, attempt>>

HandshakeChannel(k) ==
    /\ Resume(k, "handshaking", {"channel"}, "updating")
    /\ UNCHANGED <<registeredPeers, attempt>>

UpdateDone(k) ==
    /\ \/ Resume(k, "updating", {"ok"}, "channelOpened")
       \/ Resume(k, "updating", {"error"}, "failed")
    /\ UNCHANGED <<registeredPeers, attempt>>

RemoveDone(k) ==
    /\ Resume(k, "removing", {"ok", "error"}, "deregistered")
    /\ UNCHANGED <<registeredPeers, attempt>>

-------------------------------------------------------------------------------
OnEvent(p, t) ==
    \/ OnLeaveKnown(p, t)
    \/ OnLeaveUnknown(p, t)
    \/ \E i \in Infos : OnInfoKnown(p, t, i) \/ OnInfoNew(p, t, i)

Answered(k) ==
    \/ ConnectorAdds(k)
    \/ ConnectorRemoves(k)
    \/ ConnectorRefuses(k)
    \/ RuntimeDelivers(k)
    \/ RuntimeRejects(k)

Resumed(k) ==
    \/ Registered(k)
    \/ RegistrationFailed(k)
    \/ HandshakeRetry(k)
    \/ HandshakeFailed(k)
    \/ HandshakePlain(k)
    \/ HandshakeChannel(k)
    \/ UpdateDone(k)
    \/ RemoveDone(k)

Next ==
    \/ Unsubscribe
    \/ \E p \in Peers, t \in Stamps : OnEvent(p, t)
    \/ \E k \in Tasks : Answered(k) \/ Resumed(k)

\* Every call is answered in the end (fetch gives up by itself) and the event
\* loop runs every continuation; no event is ever bound to arrive.
Fairness == \A k \in Tasks : WF_vars(Answered(k)) /\ WF_vars(Resumed(k))

Spec == Init /\ [][Next]_vars /\ Fairness
-------------------------------------------------------------------------------
\* Properties of every run, whatever the interleaving and the faults.

\* Whatever the order in which tasks and answers interleave, a row of the
\* connector carries information its own peer announced; a channel in it was
\* negotiated by a handshake packet that reached that peer, from the same event
\* as the row's information; excluded peers are never touched.
ConnectorGrounded ==
    \A p \in Peers :
        /\ connector[p].info # NoInfo =>
               /\ p \notin Excluded
               /\ \E k \in TasksOf(p) :
                      /\ info[k] = connector[p].info
                      /\ StampOf(k) <= peerTimestamps[p]
        /\ connector[p].settled # 0 =>
               /\ info[<<p, connector[p].settled>>] = connector[p].info
               /\ charged[<<p, connector[p].settled>>] > 0

\* A retry never makes a task pay for more packets than it handed over, and
\* none is paid for an event whose addPeer was not confirmed.
ChargesBounded ==
    \A k \in Tasks :
        /\ charged[k] <= attempt[k]
        /\ attempt[k] > 0 =>
               pc[k] \in {"handshaking", "updating", "failed", "handshaked", "channelOpened"}

\* Every event that is accepted is served to the end: no lost answer, refusal
\* or retry leaves its task waiting for ever.
ProcessingEnds == \A k \in Tasks : InFlight(k) ~> ~InFlight(k)

-------------------------------------------------------------------------------
\* Properties that need SerialDelivery (or a connector that cannot remove).

\* A peer in registeredPeers, whose events are skipped, has its row in the
\* connector: the monitor never skips a peer that cannot be routed to.
RegisteredIsRouted ==
    \A p \in registeredPeers : connector[p] # NoEntry

\* Story 8.4, AC 6: two events of a peer both register it only when the peer
\* was deregistered in between.
NoDoubleRegistration ==
    \A p \in Peers : \A j, k \in TasksOf(p) :
        attempt[j] > 0 /\ attempt[k] > 0 /\ StampOf(j) < StampOf(k) =>
            \E m \in TasksOf(p) :
                /\ StampOf(j) < StampOf(m) /\ StampOf(m) < StampOf(k)
                /\ pc[m] \in {"removing", "deregistered"}

\* Story 8.4, AC 7: once every event of a peer is served, a peer whose newest
\* one has empty content is not registered.
LeaveObeyed ==
    \A p \in Peers :
        /\ peerTimestamps[p] # 0
        /\ info[<<p, peerTimestamps[p]>>] = NoInfo
        /\ \A k \in TasksOf(p) : ~InFlight(k)
        => p \notin registeredPeers

-------------------------------------------------------------------------------
\* What the monitor is for: the newest announcement of each peer decides
\* whether the connector has it.

\* What the newest accepted event of a peer carries.
newest(p) == info[<<p, peerTimestamps[p]>>]

Directory == INSTANCE PeerDirectory WITH
    wanted <- {p \in Peers : peerTimestamps[p] # 0 /\ newest(p) # NoInfo},
    listed <- {p \in Peers : connector[p] # NoEntry}

\* With a connector that answers what it does and can remove, and announcements
\* that do not overtake each other, every step of the monitor is a step of the
\* directory or none, and the connector catches up with every announcement.
ImplementsDirectory == Directory!Spec
===============================================================================
