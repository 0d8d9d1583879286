------------------------------- MODULE NodeProofs -------------------------------
(***************************************************************************)
(* Proofs about RelayMonitor, for every set of peers, stamps and contents, *)
(* and about AgentNode, which the monitor is a part of: also for every     *)
(* configuration of peers, every announcement and any number of lives.     *)
(***************************************************************************)
EXTENDS AgentNode, FiniteSetTheorems, WellFoundedInduction, TLAPS

-------------------------------------------------------------------------------
\* RelayMonitor

\* What holds of each task by itself, whatever the others do.
TaskInv ==
    \A k \in Tasks :
        /\ pc[k] # "idle" =>
               /\ PeerOf(k) \notin Excluded
               /\ StampOf(k) <= peerTimestamps[PeerOf(k)]
        /\ pc[k] \in {"adding", "handshaking", "updating"} => info[k] \in Infos
        /\ pc[k] = "handshaking" =>
               /\ attempt[k] > 0
               /\ call[k] = "sent" => charged[k] < attempt[k]
               /\ call[k] \in {"channel", "plain"} => charged[k] > 0
        /\ pc[k] = "updating" => charged[k] > 0

IndInv == TypeOK /\ TaskInv /\ ChargesBounded /\ ConnectorGrounded

\* A task is the pair of its peer and its stamp.
LEMMA TaskParts ==
    /\ \A k \in Tasks : /\ PeerOf(k) \in Peers
                        /\ StampOf(k) \in Stamps
                        /\ k = <<PeerOf(k), StampOf(k)>>
    /\ \A p \in Peers, t \in Stamps : /\ <<p, t>> \in Tasks
                                      /\ <<p, t>> \in TasksOf(p)
                                      /\ PeerOf(<<p, t>>) = p
                                      /\ StampOf(<<p, t>>) = t
    /\ \A p \in Peers : \A k \in TasksOf(p) : k \in Tasks /\ PeerOf(k) = p
    /\ \A k \in Tasks : k \in TasksOf(PeerOf(k))
BY DEF Tasks, TasksOf, PeerOf, StampOf

\* Stamps are positive integers, so 0 stands for "none" without ambiguity.
LEMMA StampNumbers == /\ \A t \in Stamps : t \in Int /\ t > 0
                      /\ 0 \notin Stamps
BY StampsAssumption

\* The invariant holds before the first announcement arrives.
LEMMA InitInd == Init => IndInv
<1> SUFFICES ASSUME Init PROVE IndInv
    OBVIOUS
<1>1. TypeOK
    BY DEF Init, TypeOK, NoEntry, Entries, MaxAttempts
<1>2. TaskInv /\ ChargesBounded
    BY DEF Init, TaskInv, ChargesBounded
<1>3. ConnectorGrounded
    BY DEF Init, ConnectorGrounded, NoEntry
<1>4. QED
    BY <1>1, <1>2, <1>3 DEF IndInv

\* An accepted event starts a task that was idle, and leaves what the other
\* tasks carry alone.
LEMMA EventInd ==
    ASSUME IndInv, NEW p \in Peers, NEW t \in Stamps, OnEvent(p, t)
    PROVE  IndInv'
<1> DEFINE n == <<p, t>>
<1> n \in Tasks /\ PeerOf(n) = p /\ StampOf(n) = t
    BY TaskParts
<1> USE DEF IndInv
<1>1. p \notin Excluded /\ t > peerTimestamps[p]
      /\ peerTimestamps' = [peerTimestamps EXCEPT ![p] = t]
      /\ UNCHANGED <<subscribed, attempt, connector, charged>>
    BY DEF OnEvent, OnLeaveKnown, OnLeaveUnknown, OnInfoKnown, OnInfoNew, Accept, Fresh
<1>2. pc[n] = "idle" /\ peerTimestamps[p] \in Int
    BY <1>1, StampNumbers DEF TaskInv, TypeOK
<1>3. PICK c \in {"removing", "deregistered", "ignored", "adding"},
           d \in {"sent", "none"}, i \in Infos \cup {NoInfo} :
          /\ pc' = [pc EXCEPT ![n] = c]
          /\ call' = call \/ call' = [call EXCEPT ![n] = d]
          /\ info' = info \/ info' = [info EXCEPT ![n] = i]
          /\ c = "adding" => info' = [info EXCEPT ![n] = i] /\ i \in Infos
    BY DEF OnEvent, OnLeaveKnown, OnLeaveUnknown, OnInfoKnown, OnInfoNew
<1>4. registeredPeers' \subseteq registeredPeers
    BY DEF OnEvent, OnLeaveKnown, OnLeaveUnknown, OnInfoKnown, OnInfoNew
<1>5. TypeOK'
    BY <1>1, <1>3, <1>4 DEF TypeOK, Awaiting, Finished
<1>6. \A k \in Tasks : /\ k # n => pc'[k] = pc[k] /\ info'[k] = info[k] /\ call'[k] = call[k]
                       /\ pc'[n] = c
    BY <1>3 DEF TypeOK
<1>7. \A q \in Peers : /\ peerTimestamps[q] \in Int /\ peerTimestamps'[q] \in Int
                       /\ peerTimestamps[q] <= peerTimestamps'[q]
    BY <1>1, StampNumbers DEF TypeOK
<1>8. TaskInv'
  <2> SUFFICES ASSUME NEW k \in Tasks
               PROVE  /\ pc'[k] # "idle" =>
                          /\ PeerOf(k) \notin Excluded
                          /\ StampOf(k) <= peerTimestamps'[PeerOf(k)]
                      /\ pc'[k] \in {"adding", "handshaking", "updating"} => info'[k] \in Infos
                      /\ pc'[k] = "handshaking" =>
                          /\ attempt'[k] > 0
                          /\ call'[k] = "sent" => charged'[k] < attempt'[k]
                          /\ call'[k] \in {"channel", "plain"} => charged'[k] > 0
                      /\ pc'[k] = "updating" => charged'[k] > 0
      BY DEF TaskInv
  <2>1. CASE k = n
      BY <2>1, <1>1, <1>3, <1>6, <1>7, StampNumbers DEF TypeOK
  <2>2. CASE k # n
      BY <2>2, <1>1, <1>6, <1>7, TaskParts, StampNumbers DEF TaskInv
  <2>3. QED
      BY <2>1, <2>2
<1>9. ChargesBounded'
    BY <1>1, <1>2, <1>6 DEF ChargesBounded, TypeOK
<1>10. ConnectorGrounded'
  <2> SUFFICES ASSUME NEW q \in Peers
               PROVE  /\ connector[q].info # NoInfo =>
                          /\ q \notin Excluded
                          /\ \E k \in TasksOf(q) :
                                /\ info'[k] = connector[q].info
                                /\ StampOf(k) <= peerTimestamps'[q]
                      /\ connector[q].settled # 0 =>
                          /\ info'[<<q, connector[q].settled>>] = connector[q].info
                          /\ charged[<<q, connector[q].settled>>] > 0
      BY <1>1 DEF ConnectorGrounded
  <2>1. ASSUME connector[q].info # NoInfo
        PROVE  \E k \in TasksOf(q) : /\ info'[k] = connector[q].info
                                     /\ StampOf(k) <= peerTimestamps'[q]
    <3>1. PICK k \in TasksOf(q) : info[k] = connector[q].info /\ StampOf(k) <= peerTimestamps[q]
        BY <2>1 DEF ConnectorGrounded
    <3>2. k # n
        BY <3>1, <1>1, <1>2, TaskParts, StampNumbers
    <3>3. QED
        BY <3>1, <3>2, <1>6, <1>7, TaskParts, StampNumbers
  <2>2. ASSUME connector[q].settled # 0
        PROVE  info'[<<q, connector[q].settled>>] = connector[q].info
    <3> DEFINE s == <<q, connector[q].settled>>
    <3>1. s \in Tasks /\ charged[s] > 0 /\ info[s] = connector[q].info
        BY <2>2, TaskParts DEF ConnectorGrounded, TypeOK, Entries
    <3>2. s # n
        BY <3>1, <1>2 DEF ChargesBounded, TypeOK
    <3>3. QED
        BY <3>1, <3>2, <1>6
  <2>3. QED
      BY <2>1, <2>2 DEF ConnectorGrounded
<1>11. QED
    BY <1>5, <1>8, <1>9, <1>10

\* An answer touches the call, the charge and the connector row of one task.
LEMMA AnsweredInd ==
    ASSUME IndInv, NEW n \in Tasks, Answered(n)
    PROVE  IndInv'
<1> DEFINE p == PeerOf(n)
<1> p \in Peers /\ StampOf(n) \in Stamps /\ n = <<p, StampOf(n)>> /\ n \in TasksOf(p)
    BY TaskParts
<1> USE DEF IndInv
<1>1. /\ UNCHANGED <<subscribed, peerTimestamps, registeredPeers, pc, info, attempt>>
      /\ call[n] = "sent"
    BY DEF Answered, ConnectorAdds, ConnectorRemoves, ConnectorRefuses, RuntimeDelivers,
           RuntimeRejects, Answer
<1>2. /\ StampOf(n) \in Int /\ peerTimestamps[p] \in Int
      /\ \A k \in Tasks : charged[k] \in 0..2 /\ attempt[k] \in 0..2
    BY StampNumbers DEF TypeOK, MaxAttempts
<1>3. CASE ConnectorAdds(n)
  <2> DEFINE e == [info |-> info[n],
                   settled |-> IF pc[n] = "updating" THEN StampOf(n) ELSE 0]
  <2>1. PICK a \in {"ok", "error"} : call' = [call EXCEPT ![n] = a]
      BY <1>3 DEF ConnectorAdds, Answer
  <2>2. /\ pc[n] \in {"adding", "updating"}
        /\ connector' = [connector EXCEPT ![p] = e]
        /\ UNCHANGED charged
      BY <1>3 DEF ConnectorAdds
  <2>3. TypeOK'
    <3>1. e \in Entries
        BY DEF Entries, TypeOK
    <3>2. QED
        BY <1>1, <2>1, <2>2, <3>1 DEF TypeOK
  <2>4. TaskInv' /\ ChargesBounded'
      BY <1>1, <2>1, <2>2 DEF TaskInv, ChargesBounded, TypeOK
  <2>5. ConnectorGrounded'
    <3>1. p \notin Excluded /\ StampOf(n) <= peerTimestamps[p]
        BY <2>2 DEF TaskInv
    <3>2. e.settled # 0 => e.settled = StampOf(n) /\ charged[n] > 0
        BY <2>2 DEF TaskInv
    <3>3. connector'[p] = e /\ \A q \in Peers : q # p => connector'[q] = connector[q]
        BY <2>2 DEF TypeOK
    <3>4. ASSUME NEW q \in Peers, q = p
          PROVE  /\ connector'[q].info # NoInfo =>
                      /\ q \notin Excluded
                      /\ \E k \in TasksOf(q) :
                            /\ info'[k] = connector'[q].info
                            /\ StampOf(k) <= peerTimestamps'[q]
                 /\ connector'[q].settled # 0 =>
                      /\ info'[<<q, connector'[q].settled>>] = connector'[q].info
                      /\ charged'[<<q, connector'[q].settled>>] > 0
        BY <3>1, <3>2, <3>3, <3>4, <1>1, <2>2
    <3>5. QED
        BY <3>3, <3>4, <1>1, <2>2 DEF ConnectorGrounded
  <2>6. QED
      BY <2>3, <2>4, <2>5
<1>4. CASE ConnectorRemoves(n)
  <2>1. PICK a \in {"ok", "error"} : call' = [call EXCEPT ![n] = a]
      BY <1>4 DEF ConnectorRemoves, Answer
  <2>2. /\ pc[n] = "removing"
        /\ connector' = [connector EXCEPT ![p] = NoEntry]
        /\ UNCHANGED charged
      BY <1>4 DEF ConnectorRemoves
  <2>3. TypeOK'
      BY <1>1, <2>1, <2>2 DEF TypeOK, NoEntry, Entries
  <2>4. TaskInv' /\ ChargesBounded'
      BY <1>1, <2>1, <2>2 DEF TaskInv, ChargesBounded, TypeOK
  <2>5. ConnectorGrounded'
      BY <1>1, <2>2 DEF ConnectorGrounded, TypeOK, NoEntry
  <2>6. QED
      BY <2>3, <2>4, <2>5
<1>5. CASE ConnectorRefuses(n) \/ RuntimeRejects(n)
  <2>1. PICK a \in {"error", "refused", "unreachable"} : call' = [call EXCEPT ![n] = a]
      BY <1>5 DEF ConnectorRefuses, RuntimeRejects, Answer
  <2>2. UNCHANGED <<connector, charged>>
      BY <1>5 DEF ConnectorRefuses, RuntimeRejects
  <2>3. TypeOK'
      BY <1>1, <2>1, <2>2 DEF TypeOK
  <2>4. TaskInv' /\ ChargesBounded'
      BY <1>1, <2>1, <2>2 DEF TaskInv, ChargesBounded, TypeOK
  <2>5. ConnectorGrounded'
      BY <1>1, <2>2 DEF ConnectorGrounded
  <2>6. QED
      BY <2>3, <2>4, <2>5
<1>6. CASE RuntimeDelivers(n)
  <2>1. PICK a \in {"channel", "plain", "refused", "unreachable"} :
            call' = [call EXCEPT ![n] = a]
      BY <1>6 DEF RuntimeDelivers, Answer
  <2>2. /\ pc[n] = "handshaking"
        /\ charged' = [charged EXCEPT ![n] = @ + 1]
        /\ UNCHANGED connector
      BY <1>6 DEF RuntimeDelivers
  <2>3. charged[n] < attempt[n] /\ attempt[n] > 0
      BY <1>1, <2>2 DEF TaskInv
  <2>4. TypeOK'
      BY <1>1, <1>2, <2>1, <2>2, <2>3 DEF TypeOK, MaxAttempts
  <2>5. TaskInv' /\ ChargesBounded'
      BY <1>1, <1>2, <2>1, <2>2, <2>3 DEF TaskInv, ChargesBounded, TypeOK
  <2>6. ConnectorGrounded'
    <3>1. \A k \in Tasks : charged[k] > 0 => charged'[k] > 0
        BY <1>2, <2>2 DEF TypeOK
    <3>2. \A q \in Peers : connector[q].settled # 0 => <<q, connector[q].settled>> \in Tasks
        BY TaskParts DEF TypeOK, Entries
    <3>3. QED
        BY <1>1, <2>2, <3>1, <3>2 DEF ConnectorGrounded
  <2>7. QED
      BY <2>4, <2>5, <2>6
<1>7. QED
    BY <1>3, <1>4, <1>5, <1>6 DEF Answered

\* A resumed task changes its own program counter, call and attempt only.
LEMMA ResumedInd ==
    ASSUME IndInv, NEW n \in Tasks, Resumed(n)
    PROVE  IndInv'
<1> PeerOf(n) \in Peers
    BY TaskParts
<1> USE DEF IndInv
<1>1. UNCHANGED <<subscribed, peerTimestamps, info, connector, charged>>
    BY DEF Resumed, Registered, RegistrationFailed, HandshakeRetry, HandshakeFailed,
           HandshakePlain, HandshakeChannel, UpdateDone, RemoveDone, Resume
<1>2. ConnectorGrounded'
    BY <1>1 DEF ConnectorGrounded
<1>3. \A k \in Tasks : charged[k] \in 0..2 /\ attempt[k] \in 0..2
    BY DEF TypeOK, MaxAttempts
<1>4. CASE Registered(n)
  <2>1. charged[n] = 0
      BY <1>3, <1>4 DEF Registered, Resume, ChargesBounded
  <2>2. /\ pc[n] = "adding"
        /\ pc' = [pc EXCEPT ![n] = "handshaking"]
        /\ call' = [call EXCEPT ![n] = "sent"]
        /\ attempt' = [attempt EXCEPT ![n] = 1]
        /\ registeredPeers' \subseteq Peers
      BY <1>4 DEF Registered, Resume, Awaiting, TypeOK
  <2>3. TypeOK'
      BY <1>1, <2>2 DEF TypeOK, Awaiting, MaxAttempts
  <2>4. TaskInv' /\ ChargesBounded'
      BY <1>1, <1>3, <2>1, <2>2 DEF TaskInv, ChargesBounded, TypeOK
  <2>5. QED
      BY <1>2, <2>3, <2>4
<1>5. CASE HandshakeRetry(n)
  <2>1. /\ pc[n] = "handshaking" /\ attempt[n] < 2
        /\ pc' = [pc EXCEPT ![n] = "handshaking"]
        /\ call' = [call EXCEPT ![n] = "sent"]
        /\ attempt' = [attempt EXCEPT ![n] = @ + 1]
        /\ UNCHANGED registeredPeers
      BY <1>5 DEF HandshakeRetry, Resume, Awaiting, MaxAttempts
  <2>2. TypeOK'
      BY <1>1, <1>3, <2>1 DEF TypeOK, MaxAttempts
  <2>3. TaskInv' /\ ChargesBounded'
      BY <1>1, <1>3, <2>1 DEF TaskInv, ChargesBounded, TypeOK
  <2>4. QED
      BY <1>2, <2>2, <2>3
<1>6. CASE HandshakeChannel(n)
  <2>1. /\ pc[n] = "handshaking" /\ call[n] = "channel"
        /\ pc' = [pc EXCEPT ![n] = "updating"]
        /\ call' = [call EXCEPT ![n] = "sent"]
        /\ UNCHANGED <<registeredPeers, attempt>>
      BY <1>6 DEF HandshakeChannel, Resume, Awaiting
  <2>2. TypeOK'
      BY <1>1, <2>1 DEF TypeOK, Awaiting
  <2>3. TaskInv' /\ ChargesBounded'
      BY <1>1, <1>3, <2>1 DEF TaskInv, ChargesBounded, TypeOK
  <2>4. QED
      BY <1>2, <2>2, <2>3
<1>7. CASE \/ RegistrationFailed(n) \/ HandshakeFailed(n) \/ HandshakePlain(n)
           \/ UpdateDone(n) \/ RemoveDone(n)
  <2>1. PICK c \in Finished :
            /\ pc' = [pc EXCEPT ![n] = c]
            /\ call' = [call EXCEPT ![n] = "none"]
            /\ UNCHANGED <<registeredPeers, attempt>>
            /\ pc[n] \in Awaiting
            /\ pc[n] \in {"adding", "removing"} \/ c \in {"failed", "handshaked", "channelOpened"}
      BY <1>7 DEF RegistrationFailed, HandshakeFailed, HandshakePlain, UpdateDone, RemoveDone,
                  Resume, Finished, Awaiting
  <2>2. TypeOK'
      BY <1>1, <2>1 DEF TypeOK
  <2>3. TaskInv' /\ ChargesBounded'
      BY <1>1, <1>3, <2>1 DEF TaskInv, ChargesBounded, TypeOK, Finished, Awaiting
  <2>4. QED
      BY <1>2, <2>2, <2>3
<1>8. QED
    BY <1>4, <1>5, <1>6, <1>7 DEF Resumed

\* Every step keeps it: an event, an answer, a resumed task or unsubscribing.
LEMMA StepInd == IndInv /\ [Next]_vars => IndInv'
<1> SUFFICES ASSUME IndInv, [Next]_vars PROVE IndInv'
    OBVIOUS
<1>1. CASE UNCHANGED vars
    BY <1>1 DEF vars, IndInv, TypeOK, TaskInv, ChargesBounded, ConnectorGrounded
<1>2. CASE Unsubscribe
    BY <1>2 DEF Unsubscribe, IndInv, TypeOK, TaskInv, ChargesBounded, ConnectorGrounded
<1>3. ASSUME NEW p \in Peers, NEW t \in Stamps, OnEvent(p, t) PROVE IndInv'
    BY <1>3, EventInd
<1>4. ASSUME NEW k \in Tasks, Answered(k) \/ Resumed(k) PROVE IndInv'
    BY <1>4, AnsweredInd, ResumedInd
<1>5. QED
    BY <1>1, <1>2, <1>3, <1>4 DEF Next

\* So it holds in every state.
LEMMA Inductive == Spec => []IndInv
BY InitInd, StepInd, PTL DEF Spec

\* The state of the monitor, its tasks and the connector stays well formed.
THEOREM TypeCorrect == Spec => []TypeOK
<1>1. IndInv => TypeOK
    BY DEF IndInv
<1>2. QED
    BY <1>1, Inductive, PTL

\* No interleaving of events, tasks and answers lets a task pay for a packet it
\* did not hand over, or at all before its addPeer was confirmed.
THEOREM ChargesAreBounded == Spec => []ChargesBounded
<1>1. IndInv => ChargesBounded
    BY DEF IndInv
<1>2. QED
    BY <1>1, Inductive, PTL

\* Whatever overtakes what, the connector's rows come from their own peers'
\* announcements, and their channels from handshakes those peers were paid for.
THEOREM ConnectorIsGrounded == Spec => []ConnectorGrounded
<1>1. IndInv => ConnectorGrounded
    BY DEF IndInv
<1>2. QED
    BY <1>1, Inductive, PTL

-------------------------------------------------------------------------------
\* Without overtaking: the events of one peer do not overtake its own tasks
\* (SerialDelivery), and connector calls may fail or not.

\* Only the newest event of a peer can be in service, and the registered set
\* says where it is.
TurnInv ==
    \A k \in Tasks :
        /\ InFlight(k) => StampOf(k) = peerTimestamps[PeerOf(k)]
        /\ pc[k] \in {"adding", "removing"} => PeerOf(k) \notin registeredPeers
        /\ pc[k] \in {"handshaking", "updating"} => PeerOf(k) \in registeredPeers
        /\ pc[k] = "adding" /\ call[k] = "ok" => connector[PeerOf(k)] # NoEntry

NewestInv ==
    \A p \in registeredPeers : peerTimestamps[p] \in Stamps /\ newest(p) \in Infos

Deregisters(m) == pc[m] \in {"removing", "deregistered"}

\* A peer that was registered and no longer is has deregistered since.
HistoryInv ==
    \A k \in Tasks :
        attempt[k] > 0 /\ PeerOf(k) \notin registeredPeers =>
            \E m \in TasksOf(PeerOf(k)) : StampOf(k) < StampOf(m) /\ Deregisters(m)

SerialInv == TurnInv /\ NewestInv /\ HistoryInv /\ RegisteredIsRouted /\ NoDoubleRegistration

\* A monitor that starts has no task in flight.
LEMMA InitSerial == Init => SerialInv
<1> SUFFICES ASSUME Init PROVE SerialInv
    OBVIOUS
<1>1. TurnInv /\ NewestInv /\ HistoryInv /\ RegisteredIsRouted
    BY DEF Init, TurnInv, NewestInv, HistoryInv, RegisteredIsRouted, InFlight, Awaiting
<1>2. NoDoubleRegistration
    BY TaskParts DEF Init, NoDoubleRegistration
<1>3. QED
    BY <1>1, <1>2 DEF SerialInv

\* An event that is accepted finds no task of its peer in flight.
LEMMA EventSerial ==
    ASSUME SerialDelivery, IndInv, SerialInv,
           NEW p \in Peers, NEW t \in Stamps, OnEvent(p, t)
    PROVE  SerialInv'
<1> DEFINE n == <<p, t>>
<1> n \in Tasks /\ n \in TasksOf(p) /\ PeerOf(n) = p /\ StampOf(n) = t
    BY TaskParts
<1> USE DEF IndInv, SerialInv
<1>1. /\ t > peerTimestamps[p]
      /\ \A k \in TasksOf(p) : ~InFlight(k)
      /\ peerTimestamps' = [peerTimestamps EXCEPT ![p] = t]
      /\ UNCHANGED <<subscribed, attempt, connector, charged>>
    BY DEF OnEvent, OnLeaveKnown, OnLeaveUnknown, OnInfoKnown, OnInfoNew, Accept, Fresh
<1>2. pc[n] = "idle" /\ peerTimestamps[p] \in Int
    BY <1>1, StampNumbers DEF TaskInv, TypeOK
<1>3. attempt[n] = 0
    BY <1>2 DEF ChargesBounded, TypeOK, MaxAttempts
<1>4. PICK c \in {"removing", "deregistered", "ignored", "adding"},
           d \in {"sent", "none"} :
          /\ pc' = [pc EXCEPT ![n] = c]
          /\ \/ call' = call /\ c = "ignored"
             \/ call' = [call EXCEPT ![n] = d]
          /\ \/ c \in {"removing", "deregistered"} /\ p \in registeredPeers
                /\ registeredPeers' = registeredPeers \ {p} /\ info' = info
             \/ c = "adding" /\ p \notin registeredPeers
                /\ registeredPeers' = registeredPeers /\ d = "sent"
                /\ call' = [call EXCEPT ![n] = d]
                /\ \E i \in Infos : info' = [info EXCEPT ![n] = i]
             \/ c = "ignored" /\ p \notin registeredPeers
                /\ registeredPeers' = registeredPeers /\ info' = info
             \/ c = "ignored" /\ p \in registeredPeers
                /\ registeredPeers' = registeredPeers
                /\ \E i \in Infos : info' = [info EXCEPT ![n] = i]
    BY DEF OnEvent, OnLeaveKnown, OnLeaveUnknown, OnInfoKnown, OnInfoNew
<1>5. /\ pc'[n] = c
      /\ c = "adding" => call'[n] = "sent"
      /\ \A k \in Tasks : k # n => pc'[k] = pc[k] /\ call'[k] = call[k] /\ info'[k] = info[k]
    BY <1>4 DEF TypeOK
<1>6. /\ peerTimestamps'[p] = t
      /\ \A q \in Peers : q # p =>
             /\ peerTimestamps'[q] = peerTimestamps[q]
             /\ q \in registeredPeers' <=> q \in registeredPeers
    BY <1>1, <1>4 DEF TypeOK
<1>7. /\ c \in {"removing", "deregistered"} => p \notin registeredPeers'
      /\ c = "adding" => p \notin registeredPeers'
      /\ c = "ignored" => (p \in registeredPeers' <=> p \in registeredPeers)
    BY <1>4
<1>8. TurnInv'
  <2> SUFFICES ASSUME NEW k \in Tasks
               PROVE  /\ InFlight(k)' => StampOf(k) = peerTimestamps'[PeerOf(k)]
                      /\ pc'[k] \in {"adding", "removing"} => PeerOf(k) \notin registeredPeers'
                      /\ pc'[k] \in {"handshaking", "updating"} => PeerOf(k) \in registeredPeers'
                      /\ pc'[k] = "adding" /\ call'[k] = "ok" => connector'[PeerOf(k)] # NoEntry
      BY DEF TurnInv
  <2>1. CASE k = n
      BY <2>1, <1>4, <1>5, <1>6, <1>7 DEF InFlight, Awaiting
  <2>2. CASE k # n /\ PeerOf(k) = p
      BY <2>2, <1>1, <1>5, TaskParts DEF InFlight, Awaiting
  <2>3. CASE PeerOf(k) # p
      BY <2>3, <1>1, <1>5, <1>6, TaskParts DEF TurnInv, InFlight
  <2>4. QED
      BY <2>1, <2>2, <2>3
<1>9. NewestInv'
  <2> SUFFICES ASSUME NEW q \in registeredPeers'
               PROVE  peerTimestamps'[q] \in Stamps /\ info'[<<q, peerTimestamps'[q]>>] \in Infos
      BY DEF NewestInv, newest
  <2>1. q \in Peers /\ q \in registeredPeers
      BY <1>4 DEF TypeOK
  <2>2. CASE q = p
    <3>1. c = "ignored" /\ \E i \in Infos : info' = [info EXCEPT ![n] = i]
        BY <2>1, <2>2, <1>4, <1>7
    <3>2. info'[n] \in Infos
        BY <3>1 DEF TypeOK
    <3>3. QED
        BY <2>2, <3>2, <1>6
  <2>3. CASE q # p
    <3>1. peerTimestamps'[q] \in Stamps /\ info[<<q, peerTimestamps'[q]>>] \in Infos
        BY <2>1, <2>3, <1>6 DEF NewestInv, newest
    <3>2. <<q, peerTimestamps'[q]>> \in Tasks /\ <<q, peerTimestamps'[q]>> # n
        BY <2>1, <2>3, <3>1, TaskParts
    <3>3. QED
        BY <3>1, <3>2, <1>5
  <2>4. QED
      BY <2>2, <2>3
<1>10. \A m \in Tasks : Deregisters(m) => Deregisters(m)'
    BY <1>2, <1>5 DEF Deregisters
<1>11. HistoryInv'
  <2> SUFFICES ASSUME NEW k \in Tasks, attempt[k] > 0, PeerOf(k) \notin registeredPeers'
               PROVE  \E m \in TasksOf(PeerOf(k)) : StampOf(k) < StampOf(m) /\ Deregisters(m)'
      BY <1>1 DEF HistoryInv
  <2>1. CASE PeerOf(k) \in registeredPeers
    <3>1. PeerOf(k) = p /\ Deregisters(n)'
        BY <2>1, <1>4, <1>5 DEF Deregisters
    <3>2. pc[k] # "idle"
        BY DEF ChargesBounded
    <3>3. StampOf(k) <= peerTimestamps[p]
        BY <3>1, <3>2 DEF TaskInv
    <3>4. StampOf(k) < t
        BY <3>3, <1>1, <1>2, TaskParts, StampNumbers
    <3>5. QED
        BY <3>1, <3>4
  <2>2. CASE PeerOf(k) \notin registeredPeers
    <3>1. PICK m \in TasksOf(PeerOf(k)) : StampOf(k) < StampOf(m) /\ Deregisters(m)
        BY <2>2 DEF HistoryInv
    <3>2. Deregisters(m)'
        BY <3>1, <1>10, TaskParts
    <3>3. QED
        BY <3>1, <3>2
  <2>3. QED
      BY <2>1, <2>2
<1>12. RegisteredIsRouted'
    BY <1>1, <1>4 DEF RegisteredIsRouted
<1>13. NoDoubleRegistration'
  <2> SUFFICES ASSUME NEW q \in Peers, NEW j \in TasksOf(q), NEW k \in TasksOf(q),
                      attempt[j] > 0, attempt[k] > 0, StampOf(j) < StampOf(k)
               PROVE  \E m \in TasksOf(q) :
                         /\ StampOf(j) < StampOf(m) /\ StampOf(m) < StampOf(k)
                         /\ pc'[m] \in {"removing", "deregistered"}
      BY <1>1 DEF NoDoubleRegistration
  <2>1. PICK m \in TasksOf(q) : /\ StampOf(j) < StampOf(m) /\ StampOf(m) < StampOf(k)
                                /\ Deregisters(m)
      BY DEF NoDoubleRegistration, Deregisters
  <2>2. Deregisters(m)'
      BY <2>1, <1>10, TaskParts
  <2>3. QED
      BY <2>1, <2>2 DEF Deregisters
<1>14. QED
    BY <1>8, <1>9, <1>11, <1>12, <1>13

\* An answer changes no task's place and no registration; the only answer that
\* takes a row away belongs to a peer that is not registered.
LEMMA AnsweredSerial ==
    ASSUME IndInv, SerialInv, NEW n \in Tasks, Answered(n)
    PROVE  SerialInv'
<1> DEFINE p == PeerOf(n)
<1> p \in Peers /\ n \in TasksOf(p)
    BY TaskParts
<1> USE DEF IndInv, SerialInv
<1>1. /\ UNCHANGED <<subscribed, peerTimestamps, registeredPeers, pc, info, attempt>>
      /\ call[n] = "sent"
      /\ \A k \in Tasks : k # n => call'[k] = call[k]
    BY DEF Answered, ConnectorAdds, ConnectorRemoves, ConnectorRefuses, RuntimeDelivers,
           RuntimeRejects, Answer, TypeOK
<1>2. /\ \A q \in Peers : q # p => connector'[q] = connector[q]
      /\ \/ pc[n] \in {"adding", "updating"} /\ connector'[p] # NoEntry
         \/ pc[n] = "removing" /\ connector'[p] = NoEntry
         \/ connector'[p] = connector[p] /\ call'[n] # "ok"
  <2>1. CASE ConnectorAdds(n)
    <3>1. info[n] # NoInfo /\ pc[n] \in {"adding", "updating"}
        BY <2>1, NoInfoAssumption DEF ConnectorAdds, TaskInv
    <3>2. QED
        BY <2>1, <3>1 DEF ConnectorAdds, TypeOK, NoEntry
  <2>2. CASE ConnectorRemoves(n)
      BY <2>2 DEF ConnectorRemoves, TypeOK
  <2>3. CASE ConnectorRefuses(n) \/ RuntimeDelivers(n) \/ RuntimeRejects(n)
      BY <2>3 DEF ConnectorRefuses, RuntimeDelivers, RuntimeRejects, Answer, TypeOK
  <2>4. QED
      BY <2>1, <2>2, <2>3 DEF Answered
<1>3. pc[n] = "removing" => /\ p \notin registeredPeers
                            /\ \A k \in TasksOf(p) : pc[k] # "adding"
  <2> SUFFICES ASSUME pc[n] = "removing"
               PROVE  /\ p \notin registeredPeers
                      /\ \A k \in TasksOf(p) : pc[k] # "adding"
      OBVIOUS
  <2>1. p \notin registeredPeers /\ StampOf(n) = peerTimestamps[p]
      BY DEF TurnInv, InFlight, Awaiting
  <2>2. ASSUME NEW k \in TasksOf(p), pc[k] = "adding" PROVE FALSE
    <3>1. k \in Tasks /\ StampOf(k) = peerTimestamps[p]
        BY <2>2, TaskParts DEF TurnInv, InFlight, Awaiting
    <3>2. k = n
        BY <3>1, <2>1, TaskParts
    <3>3. QED
        BY <3>2, <2>2
  <2>3. QED
      BY <2>1, <2>2
<1>4. TurnInv'
  <2> SUFFICES ASSUME NEW k \in Tasks, pc[k] = "adding", call'[k] = "ok"
               PROVE  connector'[PeerOf(k)] # NoEntry
      BY <1>1 DEF TurnInv, InFlight
  <2>1. CASE k = n
      BY <2>1, <1>2
  <2>2. CASE k # n
      BY <2>2, <1>1, <1>2, <1>3, TaskParts DEF TurnInv
  <2>3. QED
      BY <2>1, <2>2
<1>5. RegisteredIsRouted'
  <2> SUFFICES ASSUME NEW q \in registeredPeers PROVE connector'[q] # NoEntry
      BY <1>1 DEF RegisteredIsRouted
  <2>1. q \in Peers /\ connector[q] # NoEntry
      BY DEF RegisteredIsRouted, TypeOK
  <2>2. QED
      BY <2>1, <1>2, <1>3
<1>6. NewestInv' /\ HistoryInv' /\ NoDoubleRegistration'
    BY <1>1 DEF NewestInv, newest, HistoryInv, Deregisters, NoDoubleRegistration
<1>7. QED
    BY <1>4, <1>5, <1>6

\* The task that resumes is the one in service: only it can register its peer,
\* and it finds every earlier registration undone.
LEMMA ResumedSerial ==
    ASSUME IndInv, SerialInv, NEW n \in Tasks, Resumed(n)
    PROVE  SerialInv'
<1> DEFINE p == PeerOf(n)
<1> p \in Peers /\ n \in TasksOf(p)
    BY TaskParts
<1> USE DEF IndInv, SerialInv
<1>1. UNCHANGED <<subscribed, peerTimestamps, info, connector, charged>>
    BY DEF Resumed, Registered, RegistrationFailed, HandshakeRetry, HandshakeFailed,
           HandshakePlain, HandshakeChannel, UpdateDone, RemoveDone, Resume
<1>2. /\ InFlight(n)
      /\ \A k \in Tasks : k # n => pc'[k] = pc[k] /\ call'[k] = call[k]
                                   /\ attempt'[k] = attempt[k]
    BY DEF Resumed, Registered, RegistrationFailed, HandshakeRetry, HandshakeFailed,
           HandshakePlain, HandshakeChannel, UpdateDone, RemoveDone, Resume, InFlight,
           Awaiting, TypeOK
<1>3. \/ /\ pc[n] = "adding" /\ call[n] = "ok" /\ pc'[n] = "handshaking"
         /\ registeredPeers' = registeredPeers \cup {p}
      \/ /\ pc[n] = "handshaking" /\ pc'[n] \in {"handshaking", "updating"} \cup Finished
         /\ registeredPeers' = registeredPeers
      \/ /\ pc[n] \in {"adding", "updating"} /\ pc'[n] \in Finished
         /\ registeredPeers' = registeredPeers /\ attempt' = attempt
      \/ /\ pc[n] = "removing" /\ pc'[n] = "deregistered"
         /\ registeredPeers' = registeredPeers /\ attempt' = attempt
    BY DEF Resumed, Registered, RegistrationFailed, HandshakeRetry, HandshakeFailed,
           HandshakePlain, HandshakeChannel, UpdateDone, RemoveDone, Resume, TypeOK, Finished
<1>4. StampOf(n) = peerTimestamps[p]
    BY <1>2 DEF TurnInv
<1>5. \A k \in Tasks : InFlight(k) /\ PeerOf(k) = p => k = n
    BY <1>4, TaskParts DEF TurnInv
<1>6. TurnInv'
  <2> SUFFICES ASSUME NEW k \in Tasks
               PROVE  /\ InFlight(k)' => StampOf(k) = peerTimestamps'[PeerOf(k)]
                      /\ pc'[k] \in {"adding", "removing"} => PeerOf(k) \notin registeredPeers'
                      /\ pc'[k] \in {"handshaking", "updating"} => PeerOf(k) \in registeredPeers'
                      /\ pc'[k] = "adding" /\ call'[k] = "ok" => connector'[PeerOf(k)] # NoEntry
      BY DEF TurnInv
  <2>1. CASE k = n
      BY <2>1, <1>1, <1>3, <1>4 DEF TurnInv, Finished
  <2>2. CASE k # n /\ PeerOf(k) = p
      BY <2>2, <1>2, <1>5 DEF InFlight, Awaiting
  <2>3. CASE PeerOf(k) # p
      BY <2>3, <1>1, <1>2, <1>3 DEF TurnInv, InFlight
  <2>4. QED
      BY <2>1, <2>2, <2>3
<1>7. NewestInv'
  <2> SUFFICES ASSUME NEW q \in registeredPeers'
               PROVE  peerTimestamps[q] \in Stamps /\ newest(q) \in Infos
      BY <1>1 DEF NewestInv, newest
  <2>1. CASE q \in registeredPeers
      BY <2>1 DEF NewestInv
  <2>2. CASE q \notin registeredPeers
    <3>1. q = p /\ pc[n] = "adding"
        BY <2>2, <1>3
    <3>2. info[n] \in Infos /\ n = <<p, peerTimestamps[p]>>
        BY <3>1, <1>4, TaskParts DEF TaskInv
    <3>3. QED
        BY <3>1, <3>2, <1>4, TaskParts DEF newest
  <2>3. QED
      BY <2>1, <2>2
<1>8. \A m \in Tasks : Deregisters(m) => Deregisters(m)'
    BY <1>2, <1>3 DEF Deregisters
<1>9. \A k \in Tasks : attempt'[k] > 0 => attempt[k] > 0 \/ (k = n /\ pc[n] = "adding")
  <2> SUFFICES ASSUME NEW k \in Tasks, attempt'[k] > 0
               PROVE  attempt[k] > 0 \/ (k = n /\ pc[n] = "adding")
      OBVIOUS
  <2>1. CASE k = n
      BY <2>1, <1>3 DEF TaskInv
  <2>2. CASE k # n
      BY <2>2, <1>2
  <2>3. QED
      BY <2>1, <2>2
<1>10. HistoryInv'
  <2> SUFFICES ASSUME NEW k \in Tasks, attempt'[k] > 0, PeerOf(k) \notin registeredPeers'
               PROVE  \E m \in TasksOf(PeerOf(k)) : StampOf(k) < StampOf(m) /\ Deregisters(m)'
      BY DEF HistoryInv
  <2>1. attempt[k] > 0 /\ PeerOf(k) \notin registeredPeers
    <3>1. CASE k = n /\ pc[n] = "adding"
        BY <3>1, <1>2, <1>3, <1>9 DEF ChargesBounded, Finished
    <3>2. QED
        BY <3>1, <1>3, <1>9
  <2>2. PICK m \in TasksOf(PeerOf(k)) : StampOf(k) < StampOf(m) /\ Deregisters(m)
      BY <2>1 DEF HistoryInv
  <2>3. QED
      BY <2>2, <1>8, TaskParts
<1>11. RegisteredIsRouted'
    BY <1>1, <1>3 DEF RegisteredIsRouted, TurnInv
<1>12. NoDoubleRegistration'
  <2> SUFFICES ASSUME NEW q \in Peers, NEW j \in TasksOf(q), NEW k \in TasksOf(q),
                      attempt'[j] > 0, attempt'[k] > 0, StampOf(j) < StampOf(k)
               PROVE  \E m \in TasksOf(q) :
                         /\ StampOf(j) < StampOf(m) /\ StampOf(m) < StampOf(k)
                         /\ Deregisters(m)'
      BY DEF NoDoubleRegistration, Deregisters
  <2>1. j \in Tasks /\ k \in Tasks /\ PeerOf(j) = q /\ PeerOf(k) = q
      BY TaskParts
  <2>2. CASE attempt[j] > 0 /\ attempt[k] > 0
    <3>1. PICK m \in TasksOf(q) : /\ StampOf(j) < StampOf(m) /\ StampOf(m) < StampOf(k)
                                  /\ Deregisters(m)
        BY <2>2 DEF NoDoubleRegistration, Deregisters
    <3>2. QED
        BY <3>1, <1>8, TaskParts
  <2>3. CASE k = n /\ pc[n] = "adding" /\ attempt[j] > 0
    <3>1. PeerOf(j) \notin registeredPeers
        BY <2>1, <2>3 DEF TurnInv
    <3>2. PICK m \in TasksOf(q) : StampOf(j) < StampOf(m) /\ Deregisters(m)
        BY <2>1, <2>3, <3>1 DEF HistoryInv
    <3>3. m \in Tasks /\ PeerOf(m) = q /\ pc[m] # "idle" /\ m # n
        BY <3>2, <2>3, TaskParts DEF Deregisters
    <3>4. StampOf(m) <= StampOf(n) /\ StampOf(m) # StampOf(n)
        BY <2>1, <2>3, <3>3, <1>4, TaskParts DEF TaskInv
    <3>5. StampOf(m) \in Int /\ StampOf(n) \in Int
        BY <3>3, TaskParts, StampNumbers
    <3>6. StampOf(m) < StampOf(k)
        BY <2>3, <3>4, <3>5
    <3>7. QED
        BY <3>2, <3>3, <3>6, <1>8
  <2>4. CASE j = n /\ pc[n] = "adding"
    <3>1. pc[k] # "idle" \/ k = n
        BY <2>1, <1>9 DEF ChargesBounded
    <3>2. StampOf(k) <= StampOf(n)
        BY <2>1, <2>4, <3>1, <1>4, TaskParts, StampNumbers DEF TaskInv
    <3>3. QED
        BY <2>1, <2>4, <3>2, TaskParts, StampNumbers
  <2>5. QED
      BY <2>1, <2>2, <2>3, <2>4, <1>9
<1>13. QED
    BY <1>6, <1>7, <1>10, <1>11, <1>12

\* A step of a monitor whose tasks of a peer never overlap keeps the invariant.
LEMMA StepSerial ==
    ASSUME SerialDelivery, IndInv, SerialInv, [Next]_vars
    PROVE  SerialInv'
<1>1. CASE UNCHANGED vars \/ Unsubscribe
    BY <1>1 DEF vars, Unsubscribe, SerialInv, TurnInv, InFlight, NewestInv, newest, HistoryInv,
                Deregisters, RegisteredIsRouted, NoDoubleRegistration
<1>2. ASSUME NEW p \in Peers, NEW t \in Stamps, OnEvent(p, t) PROVE SerialInv'
    BY <1>2, EventSerial
<1>3. ASSUME NEW k \in Tasks, Answered(k) \/ Resumed(k) PROVE SerialInv'
    BY <1>3, AnsweredSerial, ResumedSerial
<1>4. QED
    BY <1>1, <1>2, <1>3 DEF Next

\* So it holds in every state of the serial monitor.
LEMMA SerialInductive ==
    ASSUME SerialDelivery PROVE Spec => []SerialInv
<1>1. IndInv /\ SerialInv /\ [Next]_vars => SerialInv'
    BY StepSerial
<1>2. QED
    BY <1>1, InitSerial, Inductive, PTL DEF Spec

\* A peer whose further events are skipped because it is registered does have a
\* row in the connector, however many connector calls fail.
THEOREM SerialRouted ==
    ASSUME SerialDelivery PROVE Spec => []RegisteredIsRouted
<1>1. SerialInv => RegisteredIsRouted
    BY DEF SerialInv
<1>2. QED
    BY <1>1, SerialInductive, PTL

\* AC 6: no peer is registered, and asked for a paid handshake, twice without a
\* deregistration in between.
THEOREM SerialRegistersOnce ==
    ASSUME SerialDelivery PROVE Spec => []NoDoubleRegistration
<1>1. SerialInv => NoDoubleRegistration
    BY DEF SerialInv
<1>2. QED
    BY <1>1, SerialInductive, PTL

\* AC 7: an empty announcement that is the newest leaves its peer unregistered.
THEOREM SerialLeaveObeyed ==
    ASSUME SerialDelivery PROVE Spec => []LeaveObeyed
<1>1. SerialInv => LeaveObeyed
    BY NoInfoAssumption DEF SerialInv, NewestInv, newest, LeaveObeyed
<1>2. QED
    BY <1>1, SerialInductive, PTL

-------------------------------------------------------------------------------
\* The monitor implements PeerDirectory, step by step, if besides the connector
\* answers what it does and can remove.

wantedPeers == {p \in Peers : peerTimestamps[p] # 0 /\ newest(p) # NoInfo}
listedPeers == {p \in Peers : connector[p] # NoEntry}

\* How far the connector is behind is told by the one task in service.
DirInv ==
    /\ \A k \in Tasks :
           /\ pc[k] = "adding" => /\ call[k] \in {"sent", "ok"}
                                  /\ call[k] = "sent" => PeerOf(k) \notin listedPeers
           /\ pc[k] = "removing" => /\ call[k] \in {"sent", "ok", "error"}
                                    /\ call[k] = "sent" => PeerOf(k) \in listedPeers
                                    /\ call[k] # "sent" => PeerOf(k) \notin listedPeers
           /\ pc[k] = "updating" => call[k] \in {"sent", "ok"}
    /\ \A p \in Peers : p \notin registeredPeers =>
           /\ p \in wantedPeers => \E k \in TasksOf(p) : pc[k] = "adding"
           /\ p \in listedPeers => \E k \in TasksOf(p) : pc[k] \in {"adding", "removing"}
    /\ \A k \in Tasks : pc[k] = "idle" => info[k] = NoInfo

DirAssumption == SerialDelivery /\ CanRemove /\ ~ConnectorFaults

FullInv == IndInv /\ SerialInv /\ DirInv

Mapped == [Directory!Next]_<<wantedPeers, listedPeers>>

\* The monitor starts with nothing wanted and nothing applied.
LEMMA InitDir == Init => DirInv /\ Directory!Init
BY DEF Init, DirInv, wantedPeers, listedPeers, NoEntry, Directory!Init

\* With no task in flight, what is wanted is what is listed; the event changes
\* what is wanted, if anything.
LEMMA EventDir ==
    ASSUME DirAssumption, FullInv, NEW p \in Peers, NEW t \in Stamps, OnEvent(p, t)
    PROVE  DirInv' /\ Mapped
<1> DEFINE n == <<p, t>>
<1> n \in Tasks /\ n \in TasksOf(p) /\ PeerOf(n) = p /\ StampOf(n) = t
    BY TaskParts
<1> USE DEF FullInv, IndInv, SerialInv, DirAssumption
<1>1. /\ t > peerTimestamps[p]
      /\ \A k \in TasksOf(p) : ~InFlight(k)
      /\ peerTimestamps' = [peerTimestamps EXCEPT ![p] = t]
      /\ UNCHANGED <<subscribed, attempt, connector, charged>>
    BY DEF OnEvent, OnLeaveKnown, OnLeaveUnknown, OnInfoKnown, OnInfoNew, Accept, Fresh
<1>2. pc[n] = "idle" /\ info[n] = NoInfo /\ peerTimestamps[p] \in Int /\ t # 0
    BY <1>1, StampNumbers DEF TaskInv, TypeOK, DirInv
<1>3. \/ /\ p \in registeredPeers /\ registeredPeers' = registeredPeers \ {p}
         /\ pc' = [pc EXCEPT ![n] = "removing"]
         /\ call' = [call EXCEPT ![n] = "sent"] /\ info' = info
      \/ /\ p \notin registeredPeers /\ registeredPeers' = registeredPeers
         /\ pc' = [pc EXCEPT ![n] = "ignored"] /\ call' = call /\ info' = info
      \/ /\ p \in registeredPeers /\ registeredPeers' = registeredPeers
         /\ pc' = [pc EXCEPT ![n] = "ignored"] /\ call' = call
         /\ \E i \in Infos : info' = [info EXCEPT ![n] = i]
      \/ /\ p \notin registeredPeers /\ registeredPeers' = registeredPeers
         /\ pc' = [pc EXCEPT ![n] = "adding"]
         /\ call' = [call EXCEPT ![n] = "sent"]
         /\ \E i \in Infos : info' = [info EXCEPT ![n] = i]
    BY DEF OnEvent, OnLeaveKnown, OnLeaveUnknown, OnInfoKnown, OnInfoNew
<1>4. /\ \A k \in Tasks : k # n => pc'[k] = pc[k] /\ call'[k] = call[k] /\ info'[k] = info[k]
      /\ \A q \in Peers : q # p => peerTimestamps'[q] = peerTimestamps[q]
      /\ peerTimestamps'[p] = t
    BY <1>1, <1>3 DEF TypeOK
<1>5. listedPeers' = listedPeers
    BY <1>1 DEF listedPeers
<1>6. \A q \in Peers : q # p => (q \in wantedPeers' <=> q \in wantedPeers)
  <2> SUFFICES ASSUME NEW q \in Peers, q # p, peerTimestamps[q] # 0
               PROVE  info'[<<q, peerTimestamps[q]>>] = info[<<q, peerTimestamps[q]>>]
      BY <1>4 DEF wantedPeers, newest
  <2>1. <<q, peerTimestamps[q]>> \in Tasks /\ <<q, peerTimestamps[q]>> # n
      BY TaskParts DEF TypeOK
  <2>2. QED
      BY <2>1, <1>4
<1>7. p \in wantedPeers' <=> info'[n] # NoInfo
    BY <1>2, <1>4 DEF wantedPeers, newest
<1>8. \A k \in TasksOf(p) : pc[k] \notin {"adding", "removing"}
    BY <1>1 DEF InFlight, Awaiting
<1>9. /\ p \in registeredPeers => p \in wantedPeers /\ p \in listedPeers
      /\ p \notin registeredPeers => p \notin wantedPeers /\ p \notin listedPeers
  <2>1. ASSUME p \in registeredPeers PROVE p \in wantedPeers /\ p \in listedPeers
      BY <2>1, NoInfoAssumption, StampNumbers DEF NewestInv, RegisteredIsRouted, wantedPeers, listedPeers
  <2>2. ASSUME p \notin registeredPeers PROVE p \notin wantedPeers /\ p \notin listedPeers
      BY <2>2, <1>8 DEF DirInv
  <2>3. QED
      BY <2>1, <2>2
<1>10. info'[n] \in Infos \cup {NoInfo}
    BY <1>2, <1>3 DEF TypeOK
<1>11. /\ info' = info => info'[n] = NoInfo
       /\ (\E i \in Infos : info' = [info EXCEPT ![n] = i]) => info'[n] # NoInfo
    BY <1>2, NoInfoAssumption DEF TypeOK
<1>12. Mapped
  <2>1. wantedPeers' = wantedPeers \/ wantedPeers' = wantedPeers \cup {p}
        \/ wantedPeers' = wantedPeers \ {p}
      BY <1>6 DEF wantedPeers
  <2>2. CASE p \in registeredPeers /\ info'[n] = NoInfo
    <3>1. wantedPeers' = wantedPeers \ {p}
        BY <2>1, <2>2, <1>7
    <3>2. QED
        BY <2>2, <3>1, <1>5, <1>9 DEF Mapped, Directory!Next, Directory!Leave, wantedPeers, listedPeers
  <2>3. CASE p \notin registeredPeers /\ info'[n] # NoInfo
    <3>1. wantedPeers' = wantedPeers \cup {p}
        BY <2>1, <2>3, <1>7
    <3>2. QED
        BY <2>3, <3>1, <1>5, <1>9 DEF Mapped, Directory!Next, Directory!Announce, wantedPeers, listedPeers
  <2>4. CASE p \in registeredPeers /\ info'[n] # NoInfo
    <3>1. wantedPeers' = wantedPeers
        BY <2>1, <2>4, <1>7, <1>9
    <3>2. QED
        BY <3>1, <1>5 DEF Mapped
  <2>5. CASE p \notin registeredPeers /\ info'[n] = NoInfo
    <3>1. wantedPeers' = wantedPeers
        BY <2>1, <2>5, <1>7, <1>9
    <3>2. QED
        BY <3>1, <1>5 DEF Mapped
  <2>6. QED
      BY <2>2, <2>3, <2>4, <2>5
<1>13. DirInv'
  <2>1. ASSUME NEW k \in Tasks
        PROVE  /\ pc'[k] = "adding" => /\ call'[k] \in {"sent", "ok"}
                                       /\ call'[k] = "sent" => PeerOf(k) \notin listedPeers'
               /\ pc'[k] = "removing" => /\ call'[k] \in {"sent", "ok", "error"}
                                         /\ call'[k] = "sent" => PeerOf(k) \in listedPeers'
                                         /\ call'[k] # "sent" => PeerOf(k) \notin listedPeers'
               /\ pc'[k] = "updating" => call'[k] \in {"sent", "ok"}
               /\ pc'[k] = "idle" => info'[k] = NoInfo
    <3>1. CASE k = n
        BY <3>1, <1>3, <1>5, <1>9 DEF TypeOK
    <3>2. CASE k # n
        BY <3>2, <1>4, <1>5 DEF DirInv
    <3>3. QED
        BY <3>1, <3>2
  <2>2. ASSUME NEW q \in Peers, q \notin registeredPeers'
        PROVE  /\ q \in wantedPeers' => \E k \in TasksOf(q) : pc'[k] = "adding"
               /\ q \in listedPeers' => \E k \in TasksOf(q) : pc'[k] \in {"adding", "removing"}
    <3>1. CASE q = p
        BY <3>1, <2>2, <1>3, <1>5, <1>7, <1>9, <1>11 DEF TypeOK
    <3>2. CASE q # p
      <4>1. q \notin registeredPeers /\ \A k \in TasksOf(q) : pc'[k] = pc[k]
          BY <3>2, <2>2, <1>3, <1>4, TaskParts
      <4>2. QED
          BY <4>1, <3>2, <1>5, <1>6 DEF DirInv
    <3>3. QED
        BY <3>1, <3>2
  <2>3. QED
      BY <2>1, <2>2 DEF DirInv
<1>14. QED
    BY <1>12, <1>13

\* The connector serving a call is the step of the directory.
LEMMA AnsweredDir ==
    ASSUME DirAssumption, FullInv, NEW n \in Tasks, Answered(n)
    PROVE  DirInv' /\ Mapped
<1> DEFINE p == PeerOf(n)
<1> p \in Peers /\ n \in TasksOf(p)
    BY TaskParts
<1> USE DEF FullInv, IndInv, SerialInv, DirAssumption
<1>1. /\ UNCHANGED <<subscribed, peerTimestamps, registeredPeers, pc, info, attempt>>
      /\ call[n] = "sent"
      /\ \A k \in Tasks : k # n => call'[k] = call[k]
    BY DEF Answered, ConnectorAdds, ConnectorRemoves, ConnectorRefuses, RuntimeDelivers,
           RuntimeRejects, Answer, TypeOK
<1>2. wantedPeers' = wantedPeers
    BY <1>1 DEF wantedPeers, newest
<1>3. \A k \in Tasks : InFlight(k) /\ PeerOf(k) = p /\ InFlight(n) => k = n
    BY TaskParts DEF TurnInv
<1>4. CASE pc[n] = "adding"
  <2>1. ConnectorAdds(n)
      BY <1>4 DEF Answered, ConnectorAdds, ConnectorRemoves, ConnectorRefuses, RuntimeDelivers,
                  RuntimeRejects
  <2>2. call'[n] = "ok" /\ info[n] # NoInfo
      BY <2>1, <1>4, NoInfoAssumption DEF ConnectorAdds, Answer, TaskInv, TypeOK
  <2>3. connector'[p].info = info[n] /\ \A q \in Peers : q # p => connector'[q] = connector[q]
      BY <2>1 DEF ConnectorAdds, TypeOK
  <2>4. p \in listedPeers' /\ p \notin listedPeers /\ \A q \in Peers : q # p =>
            (q \in listedPeers' <=> q \in listedPeers)
      BY <2>2, <2>3, <1>1, <1>4 DEF listedPeers, NoEntry, DirInv
  <2>5. p \in wantedPeers
    <3>1. StampOf(n) = peerTimestamps[p]
        BY <1>4 DEF TurnInv, InFlight, Awaiting
    <3>2. QED
        BY <3>1, <2>2, TaskParts, StampNumbers DEF wantedPeers, newest
  <2>6. Mapped
    <3>1. listedPeers' = listedPeers \cup {p}
        BY <2>4 DEF listedPeers
    <3>2. QED
        BY <3>1, <2>4, <2>5, <1>2 DEF Mapped, Directory!Next, Directory!Apply, wantedPeers, listedPeers
  <2>7. \A k \in Tasks : k # n /\ PeerOf(k) = p => pc[k] \notin {"adding", "removing"}
      BY <1>3, <1>4 DEF InFlight, Awaiting
  <2>8. DirInv'
    <3>1. ASSUME NEW k \in Tasks
          PROVE  /\ pc[k] = "adding" => /\ call'[k] \in {"sent", "ok"}
                                        /\ call'[k] = "sent" => PeerOf(k) \notin listedPeers'
                 /\ pc[k] = "removing" => /\ call'[k] \in {"sent", "ok", "error"}
                                          /\ call'[k] = "sent" => PeerOf(k) \in listedPeers'
                                          /\ call'[k] # "sent" => PeerOf(k) \notin listedPeers'
                 /\ pc[k] = "updating" => call'[k] \in {"sent", "ok"}
      <4>1. CASE k = n
          BY <4>1, <2>2, <1>4
      <4>2. CASE k # n
          BY <4>2, <2>4, <2>7, <1>1, TaskParts DEF DirInv
      <4>3. QED
          BY <4>1, <4>2
    <3>2. \A q \in Peers : q \notin registeredPeers =>
              /\ q \in wantedPeers => \E k \in TasksOf(q) : pc[k] = "adding"
              /\ q \in listedPeers' => \E k \in TasksOf(q) : pc[k] \in {"adding", "removing"}
        BY <2>4, <1>4 DEF DirInv
    <3>3. QED
        BY <3>1, <3>2, <1>1, <1>2 DEF DirInv
  <2>9. QED
      BY <2>6, <2>8
<1>5. CASE pc[n] = "removing"
  <2>1. ConnectorRemoves(n)
      BY <1>5 DEF Answered, ConnectorAdds, ConnectorRemoves, ConnectorRefuses, RuntimeDelivers,
                  RuntimeRejects
  <2>2. call'[n] \in {"ok", "error"}
      BY <2>1 DEF ConnectorRemoves, Answer, TypeOK
  <2>3. connector'[p] = NoEntry /\ \A q \in Peers : q # p => connector'[q] = connector[q]
      BY <2>1 DEF ConnectorRemoves, TypeOK
  <2>4. p \notin listedPeers' /\ p \in listedPeers /\ \A q \in Peers : q # p =>
            (q \in listedPeers' <=> q \in listedPeers)
      BY <2>3, <1>1, <1>5 DEF listedPeers, DirInv
  <2>5. \A k \in Tasks : k # n /\ PeerOf(k) = p => pc[k] \notin {"adding", "removing"}
      BY <1>3, <1>5 DEF InFlight, Awaiting
  <2>6. p \notin wantedPeers
    <3>1. p \notin registeredPeers
        BY <1>5 DEF TurnInv
    <3>2. \A k \in TasksOf(p) : pc[k] # "adding"
        BY <2>5, <1>5, TaskParts
    <3>3. QED
        BY <3>1, <3>2 DEF DirInv
  <2>7. Mapped
    <3>1. listedPeers' = listedPeers \ {p}
        BY <2>4 DEF listedPeers
    <3>2. QED
        BY <3>1, <2>4, <2>6, <1>2 DEF Mapped, Directory!Next, Directory!Apply, wantedPeers, listedPeers
  <2>8. DirInv'
    <3>1. ASSUME NEW k \in Tasks
          PROVE  /\ pc[k] = "adding" => /\ call'[k] \in {"sent", "ok"}
                                        /\ call'[k] = "sent" => PeerOf(k) \notin listedPeers'
                 /\ pc[k] = "removing" => /\ call'[k] \in {"sent", "ok", "error"}
                                          /\ call'[k] = "sent" => PeerOf(k) \in listedPeers'
                                          /\ call'[k] # "sent" => PeerOf(k) \notin listedPeers'
                 /\ pc[k] = "updating" => call'[k] \in {"sent", "ok"}
      <4>1. CASE k = n
          BY <4>1, <2>2, <2>4, <1>5
      <4>2. CASE k # n
          BY <4>2, <2>4, <2>5, <1>1, TaskParts DEF DirInv
      <4>3. QED
          BY <4>1, <4>2
    <3>2. \A q \in Peers : q \notin registeredPeers =>
              /\ q \in wantedPeers => \E k \in TasksOf(q) : pc[k] = "adding"
              /\ q \in listedPeers' => \E k \in TasksOf(q) : pc[k] \in {"adding", "removing"}
        BY <2>4 DEF DirInv
    <3>3. QED
        BY <3>1, <3>2, <1>1, <1>2 DEF DirInv
  <2>9. QED
      BY <2>7, <2>8
<1>6. CASE pc[n] = "updating"
  <2>1. ConnectorAdds(n)
      BY <1>6 DEF Answered, ConnectorAdds, ConnectorRemoves, ConnectorRefuses, RuntimeDelivers,
                  RuntimeRejects
  <2>2. call'[n] = "ok" /\ info[n] # NoInfo
      BY <2>1, <1>6, NoInfoAssumption DEF ConnectorAdds, Answer, TaskInv, TypeOK
  <2>3. connector'[p].info = info[n] /\ \A q \in Peers : q # p => connector'[q] = connector[q]
      BY <2>1 DEF ConnectorAdds, TypeOK
  <2>4. connector[p] # NoEntry
      BY <1>6 DEF TurnInv, RegisteredIsRouted
  <2>5. listedPeers' = listedPeers
      BY <2>2, <2>3, <2>4 DEF listedPeers, NoEntry
  <2>6. QED
      BY <2>2, <2>5, <1>1, <1>2, <1>6 DEF DirInv, Mapped
<1>7. CASE pc[n] = "handshaking"
  <2>1. listedPeers' = listedPeers
      BY <1>7 DEF Answered, ConnectorAdds, ConnectorRemoves, ConnectorRefuses, RuntimeDelivers,
                  RuntimeRejects, listedPeers
  <2>2. QED
      BY <2>1, <1>1, <1>2, <1>7 DEF DirInv, Mapped
<1>8. QED
    BY <1>4, <1>5, <1>6, <1>7 DEF Answered, ConnectorAdds, ConnectorRemoves, ConnectorRefuses,
           RuntimeDelivers, RuntimeRejects

\* Resuming a task is invisible to the directory.
LEMMA ResumedDir ==
    ASSUME DirAssumption, FullInv, NEW n \in Tasks, Resumed(n)
    PROVE  DirInv' /\ Mapped
<1> DEFINE p == PeerOf(n)
<1> p \in Peers /\ n \in TasksOf(p)
    BY TaskParts
<1> USE DEF FullInv, IndInv, SerialInv, DirAssumption
<1>1. UNCHANGED <<subscribed, peerTimestamps, info, connector, charged>>
    BY DEF Resumed, Registered, RegistrationFailed, HandshakeRetry, HandshakeFailed,
           HandshakePlain, HandshakeChannel, UpdateDone, RemoveDone, Resume
<1>2. \A k \in Tasks : k # n => pc'[k] = pc[k] /\ call'[k] = call[k]
    BY DEF Resumed, Registered, RegistrationFailed, HandshakeRetry, HandshakeFailed,
           HandshakePlain, HandshakeChannel, UpdateDone, RemoveDone, Resume, TypeOK
<1>3. \/ /\ pc[n] = "adding" /\ pc'[n] = "handshaking"
         /\ registeredPeers' = registeredPeers \cup {p}
      \/ /\ pc[n] \in {"handshaking", "updating"}
         /\ pc'[n] \in {"handshaking", "updating"} \cup Finished
         /\ pc'[n] = "updating" => call'[n] = "sent"
         /\ registeredPeers' = registeredPeers
      \/ /\ pc[n] = "adding" /\ call[n] = "error"
      \/ /\ pc[n] = "removing" /\ call[n] \in {"ok", "error"} /\ pc'[n] = "deregistered"
         /\ registeredPeers' = registeredPeers
    BY DEF Resumed, Registered, RegistrationFailed, HandshakeRetry, HandshakeFailed,
           HandshakePlain, HandshakeChannel, UpdateDone, RemoveDone, Resume, TypeOK, Finished,
           Awaiting
<1>4. ~(pc[n] = "adding" /\ call[n] = "error")
    BY DEF DirInv
<1>5. wantedPeers' = wantedPeers /\ listedPeers' = listedPeers
    BY <1>1 DEF wantedPeers, newest, listedPeers
<1>6. ASSUME NEW k \in Tasks
      PROVE  /\ pc'[k] = "adding" => /\ call'[k] \in {"sent", "ok"}
                                     /\ call'[k] = "sent" => PeerOf(k) \notin listedPeers
             /\ pc'[k] = "removing" => /\ call'[k] \in {"sent", "ok", "error"}
                                       /\ call'[k] = "sent" => PeerOf(k) \in listedPeers
                                       /\ call'[k] # "sent" => PeerOf(k) \notin listedPeers
             /\ pc'[k] = "updating" => call'[k] \in {"sent", "ok"}
             /\ pc'[k] = "idle" => info[k] = NoInfo
  <2>1. CASE k = n
      BY <2>1, <1>3, <1>4 DEF Finished
  <2>2. CASE k # n
      BY <2>2, <1>2 DEF DirInv
  <2>3. QED
      BY <2>1, <2>2
<1>7. ASSUME NEW q \in Peers, q \notin registeredPeers'
      PROVE  /\ q \in wantedPeers => \E k \in TasksOf(q) : pc'[k] = "adding"
             /\ q \in listedPeers => \E k \in TasksOf(q) : pc'[k] \in {"adding", "removing"}
  <2>1. q \notin registeredPeers
      BY <1>3, <1>4, <1>7
  <2>2. CASE q # p
    <3>1. \A k \in TasksOf(q) : pc'[k] = pc[k]
        BY <2>2, <1>2, TaskParts
    <3>2. QED
        BY <2>1, <3>1 DEF DirInv
  <2>3. CASE q = p
    <3>1. pc[n] = "removing" /\ call[n] \in {"ok", "error"}
        BY <2>1, <2>3, <1>3, <1>4, <1>7 DEF TurnInv
    <3>2. \A k \in TasksOf(p) : k # n => pc[k] \notin {"adding", "removing"}
      <4> SUFFICES ASSUME NEW k \in TasksOf(p), k # n, pc[k] \in {"adding", "removing"}
                   PROVE  FALSE
          OBVIOUS
      <4>1. k \in Tasks /\ PeerOf(k) = p
          BY TaskParts
      <4>2. StampOf(k) = peerTimestamps[p] /\ StampOf(n) = peerTimestamps[p]
          BY <4>1, <3>1 DEF TurnInv, InFlight, Awaiting
      <4>3. QED
          BY <4>1, <4>2, TaskParts
    <3>3. p \notin listedPeers
        BY <3>1 DEF DirInv
    <3>4. p \notin wantedPeers
        BY <2>1, <2>3, <3>1, <3>2 DEF DirInv
    <3>5. QED
        BY <2>3, <3>3, <3>4
  <2>4. QED
      BY <2>2, <2>3
<1>8. DirInv'
    BY <1>1, <1>5, <1>6, <1>7 DEF DirInv
<1>9. QED
    BY <1>5, <1>8 DEF Mapped

\* Every step of the monitor is one of the directory, or a stutter.
LEMMA StepDir ==
    ASSUME DirAssumption, FullInv, [Next]_vars
    PROVE  DirInv' /\ Mapped
<1>1. CASE UNCHANGED vars \/ Unsubscribe
    BY <1>1 DEF vars, Unsubscribe, FullInv, DirInv, wantedPeers, listedPeers, newest, Mapped
<1>2. ASSUME NEW p \in Peers, NEW t \in Stamps, OnEvent(p, t) PROVE DirInv' /\ Mapped
    BY <1>2, EventDir
<1>3. ASSUME NEW k \in Tasks, Answered(k) \/ Resumed(k) PROVE DirInv' /\ Mapped
    BY <1>3, AnsweredDir, ResumedDir
<1>4. QED
    BY <1>1, <1>2, <1>3 DEF Next

\* The safety part of ImplementsDirectory: every step of the monitor announces,
\* withdraws or applies one peer's newest announcement, or changes neither.
THEOREM ImplementsDirectorySteps ==
    ASSUME DirAssumption
    PROVE  Spec => Directory!Init /\ [][Directory!Next]_<<wantedPeers, listedPeers>>
<1>1. Init => DirInv /\ Directory!Init
    BY InitDir
<1>2. IndInv /\ SerialInv /\ DirInv /\ [Next]_vars => DirInv' /\ Mapped
    BY StepDir DEF FullInv
<1>3. SerialDelivery
    BY DEF DirAssumption
<1>4. Spec => []SerialInv
    BY <1>3, SerialInductive
<1>5. QED
    BY <1>1, <1>2, <1>4, Inductive, PTL DEF Spec, Mapped

-------------------------------------------------------------------------------
\* AgentNode

\* What the steps need to know of the values of the variables.
NodeTypes ==
    /\ pc \in [Tasks -> {"idle"} \cup Awaiting \cup Finished]
    /\ DOMAIN connector = Peers
    /\ peerTimestamps \in [Peers -> Stamps \cup {0}]
    /\ stored \subseteq Events
    /\ results \subseteq Peers /\ \A p \in results : found[p] \in Events
    /\ toServe \subseteq Events
    /\ channels \subseteq Peers
    /\ registeredPeers \subseteq Peers
    /\ node \in {"down", "waiting", "registering", "handshaking", "ready", "stopping"}

AllIdle == \A k \in Tasks : pc[k] = "idle"

\* Where main() is tells what there can be: the monitor asks the relay only once
\* the node is ready, and nothing is delivered before the relay answers.
StageInv ==
    /\ node \notin {"ready", "stopping"} =>
           ~asked /\ toServe = {} /\ AllIdle /\ registeredPeers = {}
    /\ asked => toServe = {} /\ AllIdle /\ registeredPeers = {}
    /\ node \in {"down", "waiting", "registering"} => channels = {}
    /\ node = "handshaking" => todo \subseteq results

\* What is still to be delivered is not newer than the event that a peer's task is
\* for, so it starts no other: and no peer is registered when its task starts.
OneTaskInv ==
    /\ \A e \in toServe : \A j \in TasksOf(e.author) :
           pc[j] # "idle" => e.stamp <= peerTimestamps[e.author]
    /\ \A j, k \in Tasks : pc[j] # "idle" /\ pc[k] # "idle" /\ PeerOf(j) = PeerOf(k) => j = k
    /\ \A p \in registeredPeers : \E k \in TasksOf(p) : pc[k] # "idle"

\* Bootstrap and the monitor share no peer, and a peer whose channel the monitor
\* opened has a task that will not touch the connector's row but to update it.
ChannelInv ==
    /\ \A k \in Tasks : pc[k] # "idle" => PeerOf(k) \notin results
    /\ \A k \in Tasks : pc[k] # "removing"
    /\ \A p \in channels : \/ p \in results
                           \/ \E k \in TasksOf(p) : pc[k] \in {"updating", "channelOpened", "failed"}

NodeInv == NodeTypes /\ StageInv /\ OneTaskInv /\ ChannelInv /\ ChannelsKept


\* A node that has not been started has nothing.
LEMMA NodeInitInd == NodeInit => NodeInv
<1> SUFFICES ASSUME NodeInit PROVE NodeInv
    OBVIOUS
<1>1. results = {}
    BY DEF NodeInit, NoPeers, results
<1>2. NodeTypes
    BY <1>1 DEF NodeInit, NodeTypes
<1>3. StageInv /\ OneTaskInv /\ ChannelInv /\ ChannelsKept
    BY DEF NodeInit, StageInv, OneTaskInv, ChannelInv, ChannelsKept, AllIdle
<1>4. QED
    BY <1>2, <1>3 DEF NodeInv

\* The start of the process, its end, and the shutdown.
LEMMA LifeInd == NodeInv /\ (main \/ Exit \/ shutdown) => NodeInv'
<1> SUFFICES ASSUME NodeInv, main \/ Exit \/ shutdown PROVE NodeInv'
    OBVIOUS
<1> USE DEF NodeInv
<1>1. CASE main
    <2>1. NodeTypes'
        BY <1>1 DEF NodeTypes, main, Up, vars, relayVars, bootVars, results
    <2>2. StageInv'
        BY <1>1 DEF StageInv, AllIdle, main, Up, vars, relayVars, bootVars
    <2>3. OneTaskInv' /\ ChannelInv' /\ ChannelsKept'
        BY <1>1 DEF OneTaskInv, ChannelInv, ChannelsKept, main, vars, relayVars,
               bootVars, results
    <2>4. QED
        BY <2>1, <2>2, <2>3
<1>2. CASE Exit
    <2>1. results' = {}
        BY <1>2 DEF Exit, NoPeers, results
    <2>2. NodeTypes'
        BY <1>2, <2>1 DEF NodeTypes, Exit, MonitorIdle
    <2>3. StageInv' /\ OneTaskInv' /\ ChannelInv' /\ ChannelsKept'
        BY <1>2 DEF StageInv, AllIdle, OneTaskInv, ChannelInv, ChannelsKept, Exit, MonitorIdle
    <2>4. QED
        BY <2>2, <2>3
<1>3. CASE shutdown
    <2>1. NodeTypes'
        BY <1>3 DEF NodeTypes, shutdown, bootVars, results
    <2>2. StageInv'
        BY <1>3 DEF StageInv, AllIdle, shutdown
    <2>3. OneTaskInv' /\ ChannelInv' /\ ChannelsKept'
        BY <1>3 DEF OneTaskInv, ChannelInv, ChannelsKept, shutdown, bootVars, results
    <2>4. QED
        BY <2>1, <2>2, <2>3
<1>4. QED
    BY <1>1, <1>2, <1>3

\* What gets into the relay's table is an event.
LEMMA PutTypes == ASSUME NodeTypes, NEW e \in Events PROVE Put(e) \subseteq Events
<1> QED
    BY DEF NodeTypes, Put, Namesakes

\* An event that is stored changes the table and nothing else.
LEMMA StoreInd ==
    ASSUME NodeInv, NEW e \in Events, Store(e)
    PROVE  NodeInv'
<1> USE DEF NodeInv
<1>1. /\ UNCHANGED <<peerTimestamps, pc, registeredPeers, connector, node, known, todo, found,
                     asked, toServe, followed, channels>>
      /\ stored' = Put(e)
    BY DEF Store, vars, bootVars
<1>2. NodeTypes'
    BY <1>1, PutTypes DEF NodeTypes, results
<1>3. StageInv' /\ OneTaskInv' /\ ChannelInv' /\ ChannelsKept'
    BY <1>1 DEF StageInv, AllIdle, OneTaskInv, ChannelInv, ChannelsKept, results
<1>4. QED
    BY <1>2, <1>3

\* While the node bootstraps no task of the monitor is there.
LEMMA BootInd == NodeInv /\ Boot => NodeInv'
<1> SUFFICES ASSUME NodeInv, Boot PROVE NodeInv'
    OBVIOUS
<1> USE DEF NodeInv
<1>1. node \notin {"ready", "stopping"} /\ UNCHANGED <<peerTimestamps, pc, registeredPeers, toServe, followed>>
    BY DEF Boot, StartBootstrap, RegistrationDone, BootstrapDone, Bootstrapped,
           BootstrapPeerFailed, BootstrapHandshake, vars, relayVars
<1>2. ~asked /\ toServe = {} /\ AllIdle /\ registeredPeers = {}
    BY <1>1 DEF StageInv
<1>3. OneTaskInv'
    BY <1>1 DEF OneTaskInv
<1>4. \A k \in Tasks : pc'[k] = "idle"
    BY <1>1, <1>2 DEF AllIdle
<1>5. CASE StartBootstrap
    <2>1. UNCHANGED <<connector, found, stored, asked, channels>>
          /\ node = "waiting" /\ node' = "registering"
        BY <1>5 DEF StartBootstrap, vars, relayVars
    <2>2. NodeTypes'
        BY <1>1, <2>1 DEF NodeTypes, results
    <2>3. StageInv' /\ ChannelInv' /\ ChannelsKept'
        BY <1>1, <1>2, <1>4, <2>1 DEF StageInv, AllIdle, ChannelInv, ChannelsKept
    <2>4. QED
        BY <1>3, <2>2, <2>3
<1>6. CASE \E p \in Peers : Bootstrapped(p)
    <2>1. PICK p \in Peers : Bootstrapped(p)
        BY <1>6
    <2>2. PICK e \in Events :
              /\ found' = Merged(found, [q \in {p} |-> e])
              /\ DOMAIN connector' = Peers
        BY <2>1 DEF Bootstrapped, Announced, NodeTypes
    <2>3. results' = results \cup {p} /\ \A q \in results' : found'[q] \in Events
        BY <2>2 DEF results, Merged, NodeTypes
    <2>4. UNCHANGED <<stored, asked, channels, node>> /\ node = "registering"
        BY <2>1 DEF Bootstrapped, relayVars
    <2>5. NodeTypes'
        BY <1>1, <2>2, <2>3, <2>4 DEF NodeTypes
    <2>6. channels' = {}
        BY <2>4 DEF StageInv
    <2>7. StageInv' /\ ChannelInv' /\ ChannelsKept'
        BY <1>1, <1>2, <1>4, <2>4, <2>6 DEF StageInv, AllIdle, ChannelInv, ChannelsKept
    <2>8. QED
        BY <1>3, <2>5, <2>7
<1>7. CASE \E p \in Peers : BootstrapPeerFailed(p)
    <2>1. UNCHANGED <<connector, found, stored, asked, channels, node>>
          /\ node = "registering"
        BY <1>7 DEF BootstrapPeerFailed, vars, relayVars
    <2>2. NodeTypes'
        BY <1>1, <2>1 DEF NodeTypes, results
    <2>3. StageInv' /\ ChannelInv' /\ ChannelsKept'
        BY <1>1, <1>2, <1>4, <2>1 DEF StageInv, AllIdle, ChannelInv, ChannelsKept
    <2>4. QED
        BY <1>3, <2>2, <2>3
<1>8. CASE RegistrationDone
    <2>1. /\ UNCHANGED <<connector, found, stored, asked, channels>>
          /\ node = "registering" /\ node' = "handshaking"
          /\ todo' \subseteq results
        BY <1>8 DEF RegistrationDone, vars, relayVars
    <2>2. NodeTypes'
        BY <1>1, <2>1 DEF NodeTypes, results
    <2>3. channels' = {}
        BY <2>1 DEF StageInv
    <2>4. StageInv' /\ ChannelInv' /\ ChannelsKept'
        BY <1>1, <1>2, <1>4, <2>1, <2>3
           DEF StageInv, AllIdle, ChannelInv, ChannelsKept, results
    <2>5. QED
        BY <1>3, <2>2, <2>4
<1>9. CASE \E p \in Peers : BootstrapHandshake(p)
    <2>1. PICK p \in Peers : BootstrapHandshake(p)
        BY <1>9
    <2>2. /\ UNCHANGED <<found, stored, asked, node>> /\ node = "handshaking"
          /\ p \in todo /\ todo' = todo \ {p}
        BY <2>1 DEF BootstrapHandshake, relayVars
    <2>3. p \in results /\ found[p].stamp # 0
        BY <2>2, StampNumbers, EventsAssumption DEF StageInv, NodeTypes
    <2>4. DOMAIN connector' = Peers /\ channels' \subseteq channels \cup {p}
        BY <2>1 DEF BootstrapHandshake, NodeTypes
    <2>5. NodeTypes'
        BY <1>1, <2>2, <2>4 DEF NodeTypes, results
    <2>6. StageInv' /\ ChannelInv'
        BY <1>1, <1>2, <1>4, <2>2, <2>3, <2>4
           DEF StageInv, AllIdle, ChannelInv, results
    <2>7. ChannelsKept'
        <3>1. CASE UNCHANGED <<connector, channels>>
            BY <1>1, <3>1 DEF ChannelsKept
        <3>2. CASE /\ connector' = [connector EXCEPT ![p] =
                          [info |-> found[p].content, settled |-> found[p].stamp]]
                   /\ channels' = channels \cup {p}
            BY <1>1, <2>3, <3>2 DEF ChannelsKept, NodeTypes
        <3>3. QED
            BY <2>1, <3>1, <3>2 DEF BootstrapHandshake
    <2>8. QED
        BY <1>3, <2>5, <2>6, <2>7
<1>10. CASE BootstrapDone
    <2>1. /\ UNCHANGED <<connector, found, channels>>
          /\ node = "handshaking" /\ node' = "ready"
          /\ stored' = stored \/ stored' = Put(Own)
        BY <1>10 DEF BootstrapDone, bootVars
    <2>2. NodeTypes'
        BY <1>1, <2>1, MeAssumption, PutTypes DEF NodeTypes, results
    <2>3. StageInv' /\ ChannelInv' /\ ChannelsKept'
        BY <1>1, <1>2, <1>4, <2>1
           DEF StageInv, AllIdle, ChannelInv, ChannelsKept, results
    <2>4. QED
        BY <1>3, <2>2, <2>3
<1>11. QED
    BY <1>5, <1>6, <1>7, <1>8, <1>9, <1>10 DEF Boot

\* What an event does that is not skipped, when its peer has no task.
LEMMA HandleEffects ==
    ASSUME NodeTypes, NEW e \in Events, ~Skipped(e), Handle(e), e.author \notin registeredPeers
    PROVE  /\ e.author \in Peers /\ e.stamp \in Stamps /\ e.author \notin results
           /\ e.stamp > peerTimestamps[e.author]
           /\ peerTimestamps' = [peerTimestamps EXCEPT ![e.author] = e.stamp]
           /\ \E to \in {"ignored", "adding"} : pc' = [pc EXCEPT ![<<e.author, e.stamp>>] = to]
           /\ UNCHANGED <<registeredPeers, connector>>
<1>1. e.author \in Peers /\ e.stamp \in Stamps
    BY EventsAssumption
<1>2. e.author \notin results /\ e.stamp > peerTimestamps[e.author]
    BY DEF Skipped, Fresh
<1>3. QED
    BY <1>1, <1>2 DEF Handle, OnLeaveKnown, OnLeaveUnknown, OnInfoKnown, OnInfoNew, Accept

\* The relay serves the monitor once, before which no task is there; an event that
\* starts a task is newer than any before and not older than any to come, so its
\* peer had no task, and will have no other.
LEMMA ServedInd == NodeInv /\ Served => NodeInv'
<1> SUFFICES ASSUME NodeInv, Served PROVE NodeInv'
    OBVIOUS
<1> USE DEF NodeInv
<1>1. UNCHANGED <<connector, found, followed, channels, stored, node, todo>>
    <2>1. CASE ServeMonitor
        BY <2>1 DEF ServeMonitor, vars, bootVars
    <2>2. CASE \E e \in Events : Deliver(e)
        BY <2>2 DEF Deliver, Handle, OnLeaveKnown, OnLeaveUnknown, OnInfoKnown, OnInfoNew,
               Accept, vars, bootVars
    <2>3. QED
        BY <2>1, <2>2 DEF Served
<1>2. ChannelsKept'
    BY <1>1 DEF ChannelsKept
<1>3. CASE ServeMonitor
    <2>1. /\ UNCHANGED <<peerTimestamps, pc, registeredPeers>>
          /\ asked /\ ~asked'
          /\ toServe' = stored
        BY <1>3 DEF ServeMonitor, vars
    <2>2. node \in {"ready", "stopping"} /\ AllIdle /\ registeredPeers = {}
        BY <2>1 DEF StageInv, NodeTypes
    <2>3. NodeTypes'
        BY <1>1, <2>1 DEF NodeTypes, results
    <2>4. StageInv'
        BY <1>1, <2>1, <2>2 DEF StageInv
    <2>5. \A k \in Tasks : pc'[k] = "idle"
        BY <2>1, <2>2 DEF AllIdle
    <2>6. \A e \in toServe' : \A j \in TasksOf(e.author) : j \in Tasks
        BY <2>3, EventsAssumption, TaskParts DEF NodeTypes
    <2>7. OneTaskInv'
        BY <2>1, <2>2, <2>5, <2>6 DEF OneTaskInv
    <2>8. ChannelInv'
        BY <1>1, <2>1 DEF ChannelInv, results
    <2>9. QED
        BY <1>2, <2>3, <2>4, <2>7, <2>8
<1>4. CASE \E e \in Events : Deliver(e)
    <2>1. PICK e \in Events : Deliver(e)
        BY <1>4
    <2> DEFINE p == e.author
               n == <<p, e.stamp>>
    <2>2. /\ e \in toServe /\ toServe' = toServe \ {e}
          /\ \A f \in toServe : f.stamp <= e.stamp
          /\ asked' = asked
        BY <2>1 DEF Deliver
    <2>3. node \in {"ready", "stopping"} /\ ~asked
        BY <2>2 DEF StageInv, NodeTypes
    <2>4. CASE Skipped(e)
        <3>1. UNCHANGED <<peerTimestamps, pc, registeredPeers>>
            BY <2>1, <2>4 DEF Deliver, vars
        <3>2. NodeTypes' /\ StageInv'
            BY <1>1, <2>2, <2>3, <3>1 DEF NodeTypes, StageInv, results
        <3>3. OneTaskInv' /\ ChannelInv'
            BY <1>1, <2>2, <3>1 DEF OneTaskInv, ChannelInv, results
        <3>4. QED
            BY <1>2, <3>2, <3>3
    <2>5. CASE ~Skipped(e)
        <3>1. p \in Peers /\ e.stamp \in Stamps /\ n \in Tasks /\ PeerOf(n) = p
            BY EventsAssumption DEF Tasks, PeerOf
        <3>2. \A j \in TasksOf(p) : pc[j] = "idle" /\ j \in Tasks
            <4>1. e.stamp > peerTimestamps[p]
                BY <2>5 DEF Skipped, Fresh
            <4>2. peerTimestamps[p] \in Stamps \cup {0}
                BY <3>1 DEF NodeTypes
            <4>3. e.stamp \in Int /\ peerTimestamps[p] \in Int
                BY <3>1, <4>2, StampNumbers
            <4>4. ~(e.stamp <= peerTimestamps[p])
                BY <4>1, <4>3
            <4>5. QED
                BY <2>2, <3>1, <4>4, TaskParts DEF OneTaskInv
        <3>3. p \notin registeredPeers
            BY <3>2 DEF OneTaskInv
        <3>4. Handle(e)
            BY <2>1, <2>5 DEF Deliver
        <3>5. /\ p \notin results
              /\ peerTimestamps' = [peerTimestamps EXCEPT ![p] = e.stamp]
              /\ registeredPeers' = registeredPeers
            BY <2>5, <3>3, <3>4, HandleEffects
        <3>6. PICK to \in {"ignored", "adding"} : pc' = [pc EXCEPT ![n] = to]
            BY <2>5, <3>3, <3>4, HandleEffects
        <3>7. /\ \A k \in Tasks : k # n => pc'[k] = pc[k]
              /\ pc'[n] = to /\ pc[n] = "idle"
            BY <3>1, <3>2, <3>6, TaskParts DEF NodeTypes
        <3> HIDE DEF n
        <3>8. NodeTypes'
            <4>1. pc' \in [Tasks -> {"idle"} \cup Awaiting \cup Finished]
                BY <3>6 DEF NodeTypes, Awaiting, Finished
            <4>2. peerTimestamps' \in [Peers -> Stamps \cup {0}]
                BY <3>1, <3>5 DEF NodeTypes
            <4>3. QED
                BY <1>1, <2>2, <3>5, <4>1, <4>2 DEF NodeTypes, results
        <3>9. StageInv'
            BY <1>1, <2>2, <2>3 DEF StageInv
        <3>10. OneTaskInv'
            <4>1. ASSUME NEW f \in toServe', NEW j \in TasksOf(f.author), pc'[j] # "idle"
                  PROVE  f.stamp <= peerTimestamps'[f.author]
                <5>1. f \in toServe /\ f.author \in Peers /\ j \in Tasks /\ PeerOf(j) = f.author
                    BY <2>2, EventsAssumption, TaskParts DEF NodeTypes
                <5>2. CASE f.author = p
                    BY <2>2, <3>5, <3>1, <5>1, <5>2 DEF NodeTypes
                <5>3. CASE f.author # p
                    <6>1. pc[j] # "idle"
                        BY <3>1, <3>7, <4>1, <5>1, <5>3
                    <6>2. peerTimestamps'[f.author] = peerTimestamps[f.author]
                        BY <3>5, <5>1, <5>3 DEF NodeTypes
                    <6>3. QED
                        BY <5>1, <6>1, <6>2 DEF OneTaskInv
                <5>4. QED
                    BY <5>2, <5>3
            <4>2. \A j, k \in Tasks : pc'[j] # "idle" /\ pc'[k] # "idle" /\ PeerOf(j) = PeerOf(k)
                                          => j = k
                BY <3>1, <3>2, <3>7, TaskParts DEF OneTaskInv
            <4>3. \A q \in registeredPeers : \E k \in TasksOf(q) : pc'[k] # "idle"
                BY <3>7, TaskParts DEF OneTaskInv, NodeTypes
            <4>4. QED
                BY <3>5, <4>1, <4>2, <4>3 DEF OneTaskInv
        <3>11. ChannelInv'
            <4>1. \A k \in Tasks : pc'[k] # "idle" => PeerOf(k) \notin results
                BY <3>1, <3>5, <3>7 DEF ChannelInv
            <4>2. \A k \in Tasks : pc'[k] # "removing"
                BY <3>7 DEF ChannelInv
            <4>3. \A q \in channels : \/ q \in results
                      \/ \E k \in TasksOf(q) : pc'[k] \in {"updating", "channelOpened", "failed"}
                BY <3>7, TaskParts DEF ChannelInv, NodeTypes
            <4>4. QED
                BY <1>1, <4>1, <4>2, <4>3 DEF ChannelInv, results
        <3>12. QED
            BY <1>2, <3>8, <3>9, <3>10, <3>11
    <2>6. QED
        BY <2>4, <2>5
<1>5. QED
    BY <1>3, <1>4 DEF Served

\* What an answer or a resumed task may change of the rows and of its place.
LEMMA MonitorEffects ==
    ASSUME NodeInv, NEW k \in Tasks, Answered(k) \/ Resumed(k)
    PROVE  /\ pc[k] \in {"adding", "handshaking", "updating"}
           /\ \E to \in {"adding", "handshaking", "updating", "failed", "handshaked",
                         "channelOpened"} :
                  /\ pc' = [pc EXCEPT ![k] = to]
                  /\ pc[k] = "updating" => to \in {"updating", "channelOpened", "failed"}
                  /\ connector' # connector => to = pc[k]
           /\ registeredPeers' \in {registeredPeers, registeredPeers \cup {PeerOf(k)}}
           /\ \/ connector' = connector
              \/ connector' = [connector EXCEPT ![PeerOf(k)] =
                     [info |-> info[k], settled |-> IF pc[k] = "updating" THEN StampOf(k) ELSE 0]]
<1>1. pc[k] # "removing" /\ pc = [pc EXCEPT ![k] = pc[k]]
    BY DEF NodeInv, ChannelInv, NodeTypes
<1>2. CASE Answered(k)
    <2>1. /\ pc[k] \in {"adding", "handshaking", "updating"}
          /\ pc' = pc /\ registeredPeers' = registeredPeers
        BY <1>1, <1>2 DEF Answered, ConnectorAdds, ConnectorRemoves, ConnectorRefuses,
               RuntimeDelivers, RuntimeRejects, Answer
    <2>2. \/ connector' = connector
          \/ connector' = [connector EXCEPT ![PeerOf(k)] =
                 [info |-> info[k], settled |-> IF pc[k] = "updating" THEN StampOf(k) ELSE 0]]
        BY <1>1, <1>2 DEF Answered, ConnectorAdds, ConnectorRemoves, ConnectorRefuses,
               RuntimeDelivers, RuntimeRejects
    <2>3. pc' = [pc EXCEPT ![k] = pc[k]]
        BY <1>1, <2>1
    <2>4. QED
        BY <2>1, <2>2, <2>3
<1>3. CASE Resumed(k)
    <2>1. connector' = connector
        BY <1>3 DEF Resumed, Registered, RegistrationFailed, HandshakeRetry, HandshakeFailed,
               HandshakePlain, HandshakeChannel, UpdateDone, RemoveDone, Resume
    <2>2. registeredPeers' \in {registeredPeers, registeredPeers \cup {PeerOf(k)}}
        BY <1>3 DEF Resumed, Registered, RegistrationFailed, HandshakeRetry, HandshakeFailed,
               HandshakePlain, HandshakeChannel, UpdateDone, RemoveDone
    <2>3. /\ pc[k] \in {"adding", "handshaking", "updating"}
          /\ \E to \in {"adding", "handshaking", "updating", "failed", "handshaked",
                         "channelOpened"} :
                  /\ pc' = [pc EXCEPT ![k] = to]
                  /\ pc[k] = "updating" => to \in {"updating", "channelOpened", "failed"}
        BY <1>1, <1>3 DEF Resumed, Registered, RegistrationFailed, HandshakeRetry,
               HandshakeFailed, HandshakePlain, HandshakeChannel, UpdateDone, RemoveDone, Resume
    <2>4. QED
        BY <2>1, <2>2, <2>3
<1>4. QED
    BY <1>2, <1>3

\* A task stays the only one of its peer, and a row that it writes without a
\* channel is none that bootstrap, or it, opened one for.
LEMMA MonitorInd == ASSUME NodeInv, NEW n \in Tasks, Monitor(n) PROVE NodeInv'
<1> DEFINE p == PeerOf(n)
<1> USE DEF NodeInv
<1>1. /\ UNCHANGED <<peerTimestamps, node, found, todo, stored, asked, toServe, followed>>
      /\ channels' = channels \cup
           {q \in Peers : connector'[q].settled # 0 /\ connector'[q] # connector[q]}
    BY DEF Monitor, bootVars, relayVars, Answered, ConnectorAdds, ConnectorRemoves,
           ConnectorRefuses, RuntimeDelivers, RuntimeRejects, Answer, Resumed, Registered,
           RegistrationFailed, HandshakeRetry, HandshakeFailed, HandshakePlain,
           HandshakeChannel, UpdateDone, RemoveDone, Resume
<1>2. p \in Peers /\ n \in TasksOf(p) /\ StampOf(n) # 0
    BY TaskParts, StampNumbers
<1>3. pc[n] \in {"adding", "handshaking", "updating"}
    BY MonitorEffects DEF Monitor
<1>4. PICK to \in {"adding", "handshaking", "updating", "failed", "handshaked",
                   "channelOpened"} :
          /\ pc' = [pc EXCEPT ![n] = to]
          /\ pc[n] = "updating" => to \in {"updating", "channelOpened", "failed"}
          /\ connector' # connector => to = pc[n]
    BY MonitorEffects DEF Monitor
<1>5. registeredPeers' \in {registeredPeers, registeredPeers \cup {p}}
    BY MonitorEffects DEF Monitor
<1>6. \/ connector' = connector
      \/ connector' = [connector EXCEPT ![p] =
             [info |-> info[n], settled |-> IF pc[n] = "updating" THEN StampOf(n) ELSE 0]]
    BY MonitorEffects DEF Monitor
<1>7. /\ \A k \in Tasks : k # n => pc'[k] = pc[k]
      /\ pc'[n] = to
    BY <1>4 DEF NodeTypes
<1>8. /\ node \in {"ready", "stopping"} /\ ~asked
      /\ p \notin results
    BY <1>3 DEF StageInv, AllIdle, ChannelInv
<1>9. NodeTypes'
    <2>1. pc' \in [Tasks -> {"idle"} \cup Awaiting \cup Finished]
        BY <1>4 DEF NodeTypes, Awaiting, Finished
    <2>2. DOMAIN connector' = Peers
        BY <1>6 DEF NodeTypes
    <2>3. registeredPeers' \subseteq Peers
        BY <1>5, <1>2 DEF NodeTypes
    <2>4. QED
        BY <1>1, <2>1, <2>2, <2>3 DEF NodeTypes, results
<1>10. StageInv'
    BY <1>1, <1>8 DEF StageInv
<1>11. OneTaskInv'
    <2>1. \A k \in Tasks : pc'[k] = "idle" <=> pc[k] = "idle"
        BY <1>3, <1>7
    <2>2. \A q \in registeredPeers' : \E k \in TasksOf(q) : pc'[k] # "idle"
        BY <1>2, <1>3, <1>5, <2>1, TaskParts DEF OneTaskInv, NodeTypes
    <2>3. \A e \in toServe : \A j \in TasksOf(e.author) :
              pc'[j] # "idle" => e.stamp <= peerTimestamps[e.author]
        BY <2>1, TaskParts, EventsAssumption DEF OneTaskInv, NodeTypes
    <2>4. QED
        BY <1>1, <2>1, <2>2, <2>3 DEF OneTaskInv
<1>12. p \in channels => pc[n] = "updating"
    <2>1. SUFFICES ASSUME p \in channels PROVE pc[n] = "updating"
        OBVIOUS
    <2>2. PICK k \in TasksOf(p) : pc[k] \in {"updating", "channelOpened", "failed"}
        BY <2>1, <1>8 DEF ChannelInv
    <2>3. k = n
        BY <2>2, <1>3, TaskParts DEF OneTaskInv
    <2>4. QED
        BY <1>3, <2>2, <2>3
<1>13. /\ \A q \in Peers : q # p => connector'[q] = connector[q]
       /\ connector'[p] # connector[p] =>
              connector'[p].settled = IF pc[n] = "updating" THEN StampOf(n) ELSE 0
    BY <1>2, <1>6 DEF NodeTypes
<1>14. ChannelsKept'
    <2> SUFFICES ASSUME NEW q \in channels' \ followed' PROVE connector'[q].settled # 0
        BY DEF ChannelsKept
    <2>1. CASE q \notin channels
        BY <2>1, <1>1
    <2>2. CASE q \in channels /\ connector'[q] = connector[q]
        BY <2>2, <1>1 DEF ChannelsKept
    <2>3. CASE q \in channels /\ connector'[q] # connector[q]
        <3>1. CASE q = p
            BY <1>2, <1>12, <1>13, <2>3, <3>1
        <3>2. CASE q # p
            BY <2>3, <3>2, <1>13 DEF NodeTypes
        <3>3. QED
            BY <3>1, <3>2
    <2>4. QED
        BY <2>1, <2>2, <2>3
<1>15. ChannelInv'
    <2>1. \A k \in Tasks : pc'[k] # "idle" => PeerOf(k) \notin results'
        BY <1>1, <1>7, <1>8 DEF ChannelInv, results
    <2>2. \A k \in Tasks : pc'[k] # "removing"
        BY <1>7 DEF ChannelInv
    <2>3. ASSUME NEW q \in channels'
          PROVE  \/ q \in results'
                 \/ \E k \in TasksOf(q) : pc'[k] \in {"updating", "channelOpened", "failed"}
        <3>1. CASE q \in channels
            <4>1. CASE q \in results
                BY <1>1, <4>1 DEF results
            <4>2. CASE q \notin results
                <5>1. PICK k \in TasksOf(q) : pc[k] \in {"updating", "channelOpened", "failed"}
                    BY <3>1, <4>2 DEF ChannelInv
                <5>2. CASE k = n
                    BY <5>1, <5>2, <1>4, <1>3, <1>7
                <5>3. CASE k # n
                    BY <5>1, <5>3, <1>7, <3>1, TaskParts DEF NodeTypes
                <5>4. QED
                    BY <5>2, <5>3
            <4>3. QED
                BY <4>1, <4>2
        <3>2. CASE q \notin channels
            <4>1. q \in Peers /\ connector'[q].settled # 0 /\ connector'[q] # connector[q]
                BY <1>1, <3>2
            <4>2. q = p
                BY <4>1, <1>13
            <4>3. pc[n] = "updating"
                BY <4>1, <4>2, <1>13
            <4>4. connector' # connector
                BY <4>1
            <4>5. pc'[n] = "updating"
                BY <4>3, <4>4, <1>4, <1>7
            <4>6. QED
                BY <4>5, <4>2, <1>2
        <3>3. QED
            BY <3>1, <3>2
    <2>4. QED
        BY <2>1, <2>2, <2>3 DEF ChannelInv
<1>16. QED
    BY <1>9, <1>10, <1>11, <1>14, <1>15

\* Social discovery touches the rows of those it follows, and nothing of the monitor.
LEMMA FollowInd ==
    ASSUME NodeInv, NEW e \in Events, Follow(e)
    PROVE  NodeInv'
<1> USE DEF NodeInv
<1>1. /\ UNCHANGED <<peerTimestamps, pc, registeredPeers, node, found, todo, stored, asked,
                     toServe, channels>>
      /\ connector' = [connector EXCEPT ![e.author] = [info |-> e.content, settled |-> 0]]
      /\ followed' = followed \cup {e.author}
    BY DEF Follow, bootVars, relayVars
<1>2. NodeTypes'
    BY <1>1 DEF NodeTypes, results
<1>3. StageInv' /\ OneTaskInv' /\ ChannelInv'
    BY <1>1 DEF StageInv, AllIdle, OneTaskInv, ChannelInv, results
<1>4. ChannelsKept'
    BY <1>1 DEF ChannelsKept
<1>5. QED
    BY <1>2, <1>3, <1>4

\* Every step of a node keeps the invariant.
LEMMA NodeStep == NodeInv /\ [NodeNext]_allVars => NodeInv'
<1> SUFFICES ASSUME NodeInv, [NodeNext]_allVars PROVE NodeInv'
    OBVIOUS
<1>1. CASE main \/ Exit \/ shutdown
    BY <1>1, LifeInd
<1>2. CASE \E e \in Events : Store(e) \/ Follow(e)
    BY <1>2, StoreInd, FollowInd
<1>3. CASE Boot \/ Served
    BY <1>3, BootInd, ServedInd
<1>4. CASE Handling
    BY <1>4, MonitorInd DEF Handling
<1>5. CASE UNCHANGED allVars
    BY <1>5 DEF allVars, nodeVars, vars, fixedVars, bootVars, relayVars, NodeInv,
           NodeTypes, StageInv, AllIdle, OneTaskInv, ChannelInv, ChannelsKept, results
<1>6. QED
    BY <1>1, <1>2, <1>3, <1>4, <1>5 DEF NodeNext

LEMMA NodeInductive == NodeSpec => []NodeInv
<1> USE DEF NodeSpec
<1> QED
    BY NodeInitInd, NodeStep, PTL

\* Two events of a peer are never served at a time in a node, in any life and
\* whatever is paid for, follows, fails or is killed: what module RelayMonitor
\* assumes for its peers to be routed to is so.
THEOREM EventsComeSerially == NodeSpec => []DeliveredSerially
<1>1. OneTaskInv => DeliveredSerially
    <2> SUFFICES ASSUME OneTaskInv, NEW p \in Peers
                 PROVE  Cardinality({k \in TasksOf(p) : pc[k] # "idle"}) <= 1
        BY DEF DeliveredSerially
    <2> DEFINE S == {k \in TasksOf(p) : pc[k] # "idle"}
    <2>1. \A j, k \in S : j = k
        BY TaskParts DEF OneTaskInv
    <2>2. CASE S = {}
        BY <2>2, FS_EmptySet
    <2>3. CASE S # {}
        <3>1. PICK k \in S : TRUE
            BY <2>3
        <3>2. S = {k}
            BY <2>1, <3>1
        <3>3. Cardinality(S) = 1
            BY <3>2, FS_Singleton
        <3>4. QED
            BY <3>3
    <2>4. QED
        BY <2>2, <2>3
<1>2. QED
    BY <1>1, NodeInductive, PTL DEF NodeInv

\* The row of a peer that bootstrap or the monitor opened a channel with settles
\* on one for the rest of that life, unless social discovery added the peer.
THEOREM ChannelsAreKept == NodeSpec => []ChannelsKept
<1> QED
    BY NodeInductive, PTL DEF NodeInv

-------------------------------------------------------------------------------
\* The peers to bootstrap with

\* Naturals have a least element.
LEMMA LeastNat ==
    ASSUME NEW T, T \subseteq Nat, T # {}
    PROVE  \E x \in T : \A y \in T : x <= y
<1> DEFINE R == {ss \in Nat \X Nat : ss[1] < ss[2]}
<1>1. IsWellFoundedOn(R, Nat)
    BY NatLessThanWellFounded DEF OpToRel
<1>2. \A y \in T, x \in T : <<y, x>> \in R <=> y < x
    OBVIOUS
<1> HIDE DEF R
<1>3. PICK x \in T : \A y \in T : <<y, x>> \notin R
    BY <1>1, WFMin
<1>4. \A y \in T : ~(y < x)
    BY <1>2, <1>3
<1>5. QED
    BY <1>4

\* Some positions of a list have a greatest one.
LEMMA GreatestPosition ==
    ASSUME NEW S, NEW list \in Seq(PeerEntries), S \subseteq DOMAIN list, S # {}
    PROVE  \E i \in S : \A j \in S : j <= i
<1>1. Len(list) \in Nat /\ \A i \in S : i \in 1..Len(list)
    OBVIOUS
<1> DEFINE T == {Len(list) - i : i \in S}
<1>2. T # {} /\ T \subseteq Nat
    BY <1>1
<1>3. PICK x \in T : \A y \in T : x <= y
    BY <1>2, LeastNat
<1>4. PICK i \in S : x = Len(list) - i
    BY <1>3
<1>5. ASSUME NEW j \in S PROVE j <= i
    <2> DEFINE n == Len(list)
    <2>1. n \in Nat /\ i \in Int /\ j \in Int
        BY <1>1
    <2>2. n - i <= n - j
        BY <1>3, <1>4
    <2> HIDE DEF n
    <2>3. QED
        BY <2>1, <2>2
<1>6. QED
    BY <1>5

\* A Map of the entries at some positions of a list keeps of a pubkey the last.
LastKept(map, list, positions, p) ==
    /\ p \in DOMAIN map <=> \E i \in positions : list[i].pubkey = p
    /\ p \in DOMAIN map =>
           \E i \in positions : /\ map[p] = list[i] /\ list[i].pubkey = p
                                /\ \A j \in positions : j > i => list[j].pubkey # p

\* Of a pubkey that occurs the last entry is kept, and no other pubkey is there.
LEMMA LastIsKept ==
    ASSUME NEW list \in Seq(PeerEntries), NEW S, S \subseteq DOMAIN list, NEW p
    PROVE  LastKept(deduplicateByPubkey(list, S), list, S, p)
<1> DEFINE D == deduplicateByPubkey(list, S)
           Last(i) == /\ list[i].pubkey = p
                      /\ \A j \in S : list[j].pubkey = p => j <= i
<1>1. p \in DOMAIN D <=> \E i \in S : list[i].pubkey = p
    BY DEF deduplicateByPubkey
<1>2. ASSUME p \in DOMAIN D
      PROVE  \E i \in S : /\ D[p] = list[i] /\ list[i].pubkey = p
                          /\ \A j \in S : j > i => list[j].pubkey # p
    <2> DEFINE T == {i \in S : list[i].pubkey = p}
    <2>1. T # {} /\ T \subseteq DOMAIN list
        BY <1>1, <1>2
    <2>2. \E i \in T : \A j \in T : j <= i
        BY <2>1, GreatestPosition
    <2>3. \E i \in S : Last(i)
        BY <2>2
    <2>4. D[p] = list[CHOOSE i \in S : Last(i)]
        BY <1>2 DEF deduplicateByPubkey
    <2> HIDE DEF Last
    <2>5. PICK i \in S : D[p] = list[i] /\ Last(i)
        BY <2>3, <2>4
    <2>6. \A j \in S : j > i => list[j].pubkey # p
        <3> SUFFICES ASSUME NEW j \in S, j > i, list[j].pubkey = p PROVE FALSE
            OBVIOUS
        <3>1. j <= i /\ i \in Int /\ j \in Int
            BY <2>5 DEF Last
        <3>2. QED
            BY <3>1
    <2>7. QED
        BY <2>5, <2>6 DEF Last
<1>3. QED
    BY <1>1, <1>2 DEF LastKept

\* Of ArDrive the first usable transaction of a pubkey counts.
LEMMA FirstIsFetched ==
    ASSUME NEW registry, registry.transactions \in Seq(PeerEntries), registry.available,
           NEW failed, NEW p
    PROVE  LET F == fetchPeers(registry, failed)
               list == registry.transactions
               S == {i \in DOMAIN list \ failed : list[i].valid}
           IN /\ p \in DOMAIN F <=> \E i \in S : list[i].pubkey = p
              /\ p \in DOMAIN F => \E i \in S :
                     /\ F[p] = list[i] /\ list[i].pubkey = p
                     /\ \A j \in S : j < i => list[j].pubkey # p
<1> DEFINE F == fetchPeers(registry, failed)
           list == registry.transactions
           S == {i \in DOMAIN list \ failed : list[i].valid}
           First(i) == /\ list[i].pubkey = p
                       /\ \A j \in S : list[j].pubkey = p => i <= j
<1>1. S = Valid(list) \ failed
    BY DEF Valid
<1>2. p \in DOMAIN F <=> \E i \in S : list[i].pubkey = p
    BY <1>1 DEF fetchPeers
<1>3. ASSUME p \in DOMAIN F
      PROVE  \E i \in S : /\ F[p] = list[i] /\ list[i].pubkey = p
                          /\ \A j \in S : j < i => list[j].pubkey # p
    <2> DEFINE T == {i \in S : list[i].pubkey = p}
    <2>1. T # {} /\ T \subseteq Nat
        BY <1>2, <1>3
    <2>2. \E i \in T : \A j \in T : i <= j
        BY <2>1, LeastNat
    <2>3. \E i \in S : First(i)
        BY <2>2
    <2>4. F[p] = list[CHOOSE i \in S : First(i)]
        BY <1>1, <1>3 DEF fetchPeers
    <2> HIDE DEF First
    <2>5. PICK i \in S : F[p] = list[i] /\ First(i)
        BY <2>3, <2>4
    <2>6. \A j \in S : j < i => list[j].pubkey # p
        <3> SUFFICES ASSUME NEW j \in S, j < i, list[j].pubkey = p PROVE FALSE
            OBVIOUS
        <3>1. i <= j /\ i \in Int /\ j \in Int
            BY <2>5 DEF First
        <3>2. QED
            BY <3>1
    <2>7. QED
        BY <2>5, <2>6 DEF First
<1>4. QED
    BY <1>2, <1>3

\* What GenesisPeerLoader makes of the genesis peers and of the additional ones
\* is the last of each pubkey in the one list followed by the other.
LEMMA LastOfBoth ==
    ASSUME NEW first \in Seq(PeerEntries), NEW second \in Seq(PeerEntries), NEW p
    PROVE  LastKept(Merged(deduplicateByPubkey(first, Valid(first)),
                           deduplicateByPubkey(second, Valid(second))),
                    first \o second, Valid(first \o second), p)
<1> DEFINE D == deduplicateByPubkey(first, Valid(first))
           E == deduplicateByPubkey(second, Valid(second))
           A == Merged(D, E)
           both == first \o second
           listed == {i \in DOMAIN both : both[i].valid}
           n == Len(first)
           m == Len(second)
<1>0. Valid(first) \subseteq DOMAIN first /\ Valid(second) \subseteq DOMAIN second
    BY DEF Valid
<1>1. /\ p \in DOMAIN D <=> \E i \in Valid(first) : first[i].pubkey = p
      /\ p \in DOMAIN D => \E i \in Valid(first) :
             /\ D[p] = first[i] /\ first[i].pubkey = p
             /\ \A j \in Valid(first) : j > i => first[j].pubkey # p
    BY <1>0, LastIsKept DEF LastKept
<1>2. /\ p \in DOMAIN E <=> \E i \in Valid(second) : second[i].pubkey = p
      /\ p \in DOMAIN E => \E i \in Valid(second) :
             /\ E[p] = second[i] /\ second[i].pubkey = p
             /\ \A j \in Valid(second) : j > i => second[j].pubkey # p
    BY <1>0, LastIsKept DEF LastKept
<1>3. /\ DOMAIN A = DOMAIN D \cup DOMAIN E
      /\ p \in DOMAIN A => A[p] = IF p \in DOMAIN E THEN E[p] ELSE D[p]
    BY DEF Merged
<1>4. /\ n \in Nat /\ m \in Nat /\ DOMAIN first = 1..n /\ DOMAIN second = 1..m
      /\ DOMAIN both = 1..(n + m)
      /\ \A i \in 1..n : both[i] = first[i]
      /\ \A i \in 1..m : both[n + i] = second[i]
    OBVIOUS
<1>5. \A i \in Valid(first) : i \in listed /\ i \in 1..n /\ both[i] = first[i]
    BY <1>4 DEF Valid
<1>6. \A i \in Valid(second) : n + i \in listed /\ i \in 1..m /\ both[n + i] = second[i]
    BY <1>4 DEF Valid
<1>7. ASSUME NEW i \in listed
      PROVE  \/ i \in Valid(first)
             \/ i - n \in Valid(second) /\ i = n + (i - n) /\ i > n
    <2>1. i \in 1..(n + m) /\ both[i].valid
        BY <1>4
    <2>2. CASE i \in 1..n
        BY <2>1, <2>2, <1>4 DEF Valid
    <2>3. CASE i \notin 1..n
        <3> DEFINE j == i - n
        <3>1. j \in 1..m /\ i = n + j /\ i > n
            BY <2>1, <2>3, <1>4
        <3>2. second[j] = both[i]
            BY <3>1, <1>4
        <3>3. j \in Valid(second)
            BY <3>1, <3>2, <2>1, <1>4 DEF Valid
        <3>4. QED
            BY <3>1, <3>3
    <2>4. QED
        BY <2>2, <2>3
<1> HIDE DEF D, E, A, both, listed, n, m
<1>8. p \in DOMAIN A <=> \E i \in listed : both[i].pubkey = p
    <2>1. ASSUME p \in DOMAIN A PROVE \E i \in listed : both[i].pubkey = p
        BY <2>1, <1>1, <1>2, <1>3, <1>5, <1>6
    <2>2. ASSUME NEW i \in listed, both[i].pubkey = p PROVE p \in DOMAIN A
        <3>1. CASE i \in Valid(first)
            BY <2>2, <3>1, <1>1, <1>3, <1>5
        <3>2. CASE i - n \in Valid(second) /\ i = n + (i - n)
            BY <2>2, <3>2, <1>2, <1>3, <1>6
        <3>3. QED
            BY <1>7, <3>1, <3>2
    <2>3. QED
        BY <2>1, <2>2
<1>9. ASSUME p \in DOMAIN A
      PROVE  \E i \in listed : /\ A[p] = both[i] /\ both[i].pubkey = p
                               /\ \A j \in listed : j > i => both[j].pubkey # p
    <2>1. CASE p \in DOMAIN E
        <3>1. PICK i \in Valid(second) :
                  /\ E[p] = second[i] /\ second[i].pubkey = p
                  /\ \A j \in Valid(second) : j > i => second[j].pubkey # p
            BY <1>2, <2>1
        <3>2. n + i \in listed /\ i \in 1..m /\ A[p] = both[n + i] /\ both[n + i].pubkey = p
            BY <1>3, <1>6, <1>9, <2>1, <3>1
        <3>3. ASSUME NEW j \in listed, j > n + i PROVE both[j].pubkey # p
            <4>1. j \notin Valid(first)
                <5>1. n \in Nat /\ m \in Nat /\ i \in 1..m /\ j > n + i
                    BY <1>4, <3>2, <3>3
                <5>2. j \in 1..n => FALSE
                    BY <5>1
                <5>3. QED
                    BY <1>5, <5>2
            <4>2. j - n \in Valid(second) /\ j = n + (j - n)
                BY <1>7, <4>1
            <4>3. j - n \in 1..m /\ both[j] = second[j - n]
                BY <4>2, <1>6
            <4>4. j - n > i
                BY <1>4, <3>2, <3>3, <4>2, <4>3
            <4>5. QED
                BY <3>1, <4>2, <4>3, <4>4
        <3>4. QED
            BY <3>2, <3>3
    <2>2. CASE p \notin DOMAIN E
        <3>1. PICK i \in Valid(first) :
                  /\ D[p] = first[i] /\ first[i].pubkey = p
                  /\ \A j \in Valid(first) : j > i => first[j].pubkey # p
            BY <1>1, <1>3, <1>9, <2>2
        <3>2. i \in listed /\ A[p] = both[i] /\ both[i].pubkey = p
            BY <1>3, <1>5, <1>9, <2>2, <3>1
        <3>3. ASSUME NEW j \in listed, j > i PROVE both[j].pubkey # p
            <4>1. CASE j \in Valid(first)
                BY <1>5, <3>1, <3>3, <4>1
            <4>2. CASE j - n \in Valid(second) /\ j = n + (j - n)
                BY <1>2, <1>6, <2>2, <4>2
            <4>3. QED
                BY <1>7, <4>1, <4>2
        <3>4. QED
            BY <3>2, <3>3
    <2>3. QED
        BY <2>1, <2>2
<1>10. QED
    <2>1. listed = Valid(both)
        BY DEF listed, Valid
    <2>2. LastKept(A, both, listed, p)
        BY <1>8, <1>9 DEF LastKept
    <2>3. QED
        BY <2>1, <2>2 DEF D, E, A, both

\* The sources are merged as promised.
LEMMA MergedAsPromised ==
    ASSUME sources \in Sources, known = knownPeersMap(sources, unfetched)
    PROVE  SourcesMerged
<1> DEFINE list == sources.registry.transactions
           registered == {i \in DOMAIN list \ unfetched :
                             /\ sources.ardriveEnabled /\ sources.defaultRelay
                             /\ sources.registry.available
                             /\ list[i].valid}
           second == IF sources.additional.is = "array" THEN sources.additional.entries ELSE <<>>
           first == sources.genesis
           bundled == first \o second
           listed == {i \in DOMAIN bundled : bundled[i].valid}
           configured == sources.knownPeers
           all == loadAllPeers(sources.genesis, sources.additional)
           ardrive == IF sources.ardriveEnabled /\ sources.defaultRelay
                      THEN fetchPeers(sources.registry, unfetched) ELSE NoPeers
           fromRegistry == [p \in DOMAIN ardrive |-> AtDefaultRelay(ardrive[p])]
           own == deduplicateByPubkey(configured, DOMAIN configured)
<1>1. /\ first \in Seq(PeerEntries) /\ second \in Seq(PeerEntries)
      /\ configured \in Seq(PeerEntries) /\ list \in Seq(PeerEntries)
    BY SourcesAssumption
<1>2. all = Merged(deduplicateByPubkey(first, Valid(first)),
                   deduplicateByPubkey(second, Valid(second)))
    <2>1. CASE sources.additional.is = "array"
        BY <2>1 DEF loadAllPeers, loadGenesisPeers, loadAdditionalPeers
    <2>2. CASE sources.additional.is # "array"
        <3>1. Valid(<<>>) = {}
            BY DEF Valid
        <3>2. deduplicateByPubkey(<<>>, {}) = NoPeers
            BY DEF deduplicateByPubkey, NoPeers
        <3>3. QED
            BY <2>2, <3>1, <3>2 DEF loadAllPeers, loadGenesisPeers, loadAdditionalPeers
    <2>3. QED
        BY <2>1, <2>2
<1>3. known = Merged(Merged(all, fromRegistry), own)
    BY DEF knownPeersMap, loadPeers
<1> HIDE DEF all, own, first, second, configured, list
<1>4. ASSUME NEW p \in Peers
      PROVE  IF \E i \in DOMAIN configured : configured[i].pubkey = p
             THEN \E i \in DOMAIN configured :
                      /\ known[p] = configured[i] /\ known[p].pubkey = p
                      /\ \A j \in DOMAIN configured : j > i => configured[j].pubkey # p
             ELSE IF \E i \in registered : list[i].pubkey = p
             THEN \E i \in registered :
                      /\ known[p].origin = list[i].origin
                      /\ known[p].pubkey = p /\ known[p].relay = "own"
                      /\ \A j \in registered : j < i => list[j].pubkey # p
             ELSE IF \E i \in listed : bundled[i].pubkey = p
             THEN \E i \in listed : /\ known[p] = bundled[i] /\ known[p].pubkey = p
                                    /\ \A j \in listed : j > i => bundled[j].pubkey # p
             ELSE p \notin DOMAIN known
    <2>1. /\ p \in DOMAIN known <=> p \in DOMAIN own \/ p \in DOMAIN fromRegistry \/ p \in DOMAIN all
          /\ p \in DOMAIN own => known[p] = own[p]
          /\ p \notin DOMAIN own /\ p \in DOMAIN fromRegistry => known[p] = fromRegistry[p]
          /\ p \notin DOMAIN own /\ p \notin DOMAIN fromRegistry /\ p \in DOMAIN all =>
                 known[p] = all[p]
        BY <1>3 DEF Merged
    <2>2. LastKept(own, configured, DOMAIN configured, p)
        <3>1. DOMAIN configured \subseteq DOMAIN configured
            OBVIOUS
        <3>2. QED
            BY <1>1, <3>1, LastIsKept DEF own
    <2>3. LastKept(all, bundled, listed, p)
        <3>1. listed = Valid(bundled)
            BY DEF Valid
        <3>2. QED
            BY <1>1, <1>2, <3>1, LastOfBoth
    <2>4. /\ p \in DOMAIN fromRegistry <=> \E i \in registered : list[i].pubkey = p
          /\ p \in DOMAIN fromRegistry => \E i \in registered :
                 /\ fromRegistry[p].origin = list[i].origin
                 /\ fromRegistry[p].pubkey = p /\ fromRegistry[p].relay = "own"
                 /\ \A j \in registered : j < i => list[j].pubkey # p
        <3>1. CASE /\ sources.ardriveEnabled /\ sources.defaultRelay
                   /\ sources.registry.available
            <4> DEFINE registry == sources.registry
                       F == fetchPeers(registry, unfetched)
                       S == {i \in DOMAIN list \ unfetched : list[i].valid}
            <4>1. S = registered /\ ardrive = F
                BY <3>1
            <4>2. /\ p \in DOMAIN F <=> \E i \in S : list[i].pubkey = p
                  /\ p \in DOMAIN F => \E i \in S :
                         /\ F[p] = list[i] /\ list[i].pubkey = p
                         /\ \A j \in S : j < i => list[j].pubkey # p
                <5>1. registry.transactions = list /\ registry.available
                    BY <3>1 DEF list
                <5>2. registry.transactions \in Seq(PeerEntries)
                    BY <1>1, <5>1
                <5> HIDE DEF registry, F
                <5> DEFINE T == {i \in DOMAIN registry.transactions \ unfetched :
                                    registry.transactions[i].valid}
                <5>3. /\ p \in DOMAIN F <=> \E i \in T : registry.transactions[i].pubkey = p
                      /\ p \in DOMAIN F => \E i \in T :
                             /\ F[p] = registry.transactions[i]
                             /\ registry.transactions[i].pubkey = p
                             /\ \A j \in T : j < i => registry.transactions[j].pubkey # p
                    BY <5>1, <5>2, FirstIsFetched DEF F
                <5>4. QED
                    BY <5>1, <5>3
            <4> HIDE DEF F, S
            <4>3. DOMAIN fromRegistry = DOMAIN F /\ (p \in DOMAIN F => fromRegistry[p] = AtDefaultRelay(F[p]))
                BY <4>1
            <4>4. \A i \in S : list[i] \in PeerEntries
                BY <1>1 DEF S
            <4>5. \A e \in PeerEntries : /\ AtDefaultRelay(e).origin = e.origin
                                         /\ AtDefaultRelay(e).pubkey = e.pubkey
                                         /\ AtDefaultRelay(e).relay = "own"
                BY DEF AtDefaultRelay, PeerEntries
            <4> HIDE DEF registered, fromRegistry
            <4>6. QED
                BY <4>1, <4>2, <4>3, <4>4, <4>5
        <3>2. CASE ~(/\ sources.ardriveEnabled /\ sources.defaultRelay
                     /\ sources.registry.available)
            <4>1. registered = {}
                BY <3>2
            <4>2. DOMAIN fromRegistry = {}
                BY <3>2 DEF fetchPeers, NoPeers
            <4>3. QED
                BY <4>1, <4>2
        <3>3. QED
            BY <3>1, <3>2
    <2> HIDE DEF registered, listed, bundled, fromRegistry
    <2>5. CASE p \in DOMAIN own
        BY <2>1, <2>2, <2>5 DEF LastKept
    <2>6. CASE p \notin DOMAIN own /\ p \in DOMAIN fromRegistry
        BY <2>1, <2>2, <2>4, <2>6 DEF LastKept
    <2>7. CASE p \notin DOMAIN own /\ p \notin DOMAIN fromRegistry
        BY <2>1, <2>2, <2>3, <2>4, <2>7 DEF LastKept
    <2>8. QED
        BY <2>5, <2>6, <2>7
<1>5. QED
    BY <1>4 DEF SourcesMerged, first, second, configured, list

\* While it registers a node goes through what it merged at the start.
KnownInv == /\ sources \in Sources
            /\ node = "registering" => known = knownPeersMap(sources, unfetched)

LEMMA KnownStep == KnownInv /\ [NodeNext]_allVars => KnownInv'
<1> SUFFICES ASSUME KnownInv, [NodeNext]_allVars PROVE KnownInv'
    OBVIOUS
<1>1. CASE main \/ Exit \/ shutdown
    BY <1>1 DEF KnownInv, main, Exit, shutdown, fixedVars
<1>2. CASE \E e \in Events : Store(e) \/ Follow(e)
    BY <1>2 DEF KnownInv, Store, Follow, fixedVars, bootVars
<1>3. CASE Boot
    BY <1>3 DEF KnownInv, Boot, StartBootstrap, RegistrationDone, BootstrapDone, Bootstrapped,
           BootstrapPeerFailed, BootstrapHandshake, fixedVars
<1>4. CASE Served
    BY <1>4 DEF KnownInv, Served, ServeMonitor, Deliver, fixedVars, bootVars
<1>5. CASE Handling
    BY <1>5 DEF KnownInv, Handling, Monitor, fixedVars, bootVars
<1>6. CASE UNCHANGED allVars
    BY <1>6 DEF KnownInv, allVars, nodeVars, fixedVars, bootVars
<1>7. QED
    BY <1>1, <1>2, <1>3, <1>4, <1>5, <1>6 DEF NodeNext

\* Of each peer the node bootstraps with the entry that the sources' order of
\* precedence says: configured, ArDrive, additional, genesis.
THEOREM SourcesAreMerged == NodeSpec => []SourcesMerged
<1>1. NodeInit => KnownInv
    BY DEF NodeInit, KnownInv
<1>2. KnownInv => SourcesMerged
    <2>1. CASE node = "registering"
        BY <2>1, MergedAsPromised DEF KnownInv
    <2>2. CASE node # "registering"
        BY <2>2 DEF SourcesMerged
    <2>3. QED
        BY <2>1, <2>2
<1>3. QED
    BY <1>1, <1>2, KnownStep, PTL DEF NodeSpec
===============================================================================
