----------------------------- MODULE SpspExchange -----------------------------
(***************************************************************************)
(* The SPSP exchange over Nostr: NostrSpspClient, the relays between, the  *)
(* NostrSpspServer and the connector whose channels it opens               *)
(* (packages/core/src/spsp).                                               *)
(*                                                                         *)
(* A request is published to every relay and answered by an event that is  *)
(* published likewise.  The client waits for no relay: it subscribes to    *)
(* answers while its request is still under way, and hears of no refusal.  *)
(* The server serves what the relays hold when it  *)
(* subscribes and what they push after that.  Its process may end at any   *)
(* moment and start again; relays and connector survive it.                *)
(*                                                                         *)
(* Encryption, secrets and accounts are left out: an answer is what its    *)
(* receiver reads in it.  Relays and connector are modelled from how they  *)
(* are used.                                                               *)
(***************************************************************************)
EXTENDS Integers, Sequences, Settlement

CONSTANTS
    Requests,    \* the calls of requestSpspInfo
    client,      \* the client each comes from
    supported,   \* its supportedChains; <<>> if the field is missing
    addresses,   \* the chains it gives a settlement address for
    preferred,   \* its preferredTokens
    Relays,      \* the server's relays
    relayUrls,   \* those each call is made with
    Pushing,     \* relays that push new events to open subscriptions
    Chains,
    Tokens,
    Configs,     \* settlement configurations the server may have
    MaxLives,    \* bound: how often the server starts; its last life goes on
    MaxChannels  \* bound: how many channels the connector opens

\* A configuration; without chains, there is none.
Config == [chains : SUBSET Chains, addresses : SUBSET Chains,
           tokens : UNION {[D -> Tokens] : D \in SUBSET Chains}]

ASSUME RequestsAssumption ==
    /\ supported \in [Requests -> Seq(Chains)]
    /\ addresses \in [Requests -> SUBSET Chains]
    /\ \A q \in Requests : preferred[q] \in [DOMAIN preferred[q] -> Tokens]
    /\ relayUrls \in [Requests -> SUBSET Relays]
    /\ Configs \subseteq Config /\ Pushing \subseteq Relays
    /\ MaxLives \in Nat \ {0} /\ MaxChannels \in Nat
    /\ NoChain \notin Chains /\ NoToken \notin Tokens

\* The channel is 0 in an answer without settlement.
Answer == [requestId : Requests, chain : Chains \cup {NoChain}, address : SUBSET Chains,
           token : Tokens \cup {NoToken}, channel : Nat]

VARIABLES
    config,      \* the server's settlement configuration
    calls,       \* each call of requestSpspInfo: idle, waiting, or how it ended
    result,      \* {}, or the answer it resolved with
    publishing,  \* relays that have not yet taken or refused the request
    asked,       \* relays that do not push, and have its subscription
    offered,     \* answers these relays send it
    held,        \* requests each relay stores
    answers,     \* answers each relay that does not push stores
    sent,        \* answers the server has sent to every relay
    server,      \* down or listening
    life,        \* how often it has started
    incoming,    \* requests the relays that do not push send it
    tasks,       \* processRequest of each request in this life
    channels     \* the connector's channels, in the order they were opened

clientVars == <<calls, result, publishing, asked, offered>>
serverVars == <<server, life, incoming, tasks>>
spspVars == <<config, clientVars, held, answers, sent, serverVars, channels>>

Channel == [of : Requests, life : Nat, chain : Chains, token : Tokens \cup {NoToken},
            opened : BOOLEAN]

\* "ended" with the client's process.
CallStates == {"idle", "waiting", "resolved", "refused", "timed out", "ended"}

\* The types of both ends, the relays' stores and the connector's channels; a
\* call that resolved has an answer, to its own request.
SpspTypeOK ==
    /\ config \in Configs
    /\ calls \in [Requests -> CallStates]
    /\ result \in [Requests -> SUBSET Answer]
    /\ \A q \in Requests : /\ (calls[q] = "resolved") = (result[q] # {})
                           /\ \A a \in result[q] : a.requestId = q
    /\ {publishing, asked} \subseteq [Requests -> SUBSET Relays]
    /\ offered \in [Requests -> SUBSET Answer]
    /\ held \in [Relays -> SUBSET Requests]
    /\ answers \in [Relays -> SUBSET Answer] /\ sent \subseteq Answer
    /\ server \in {"down", "listening"}
    /\ life \in 0..MaxLives
    /\ incoming \subseteq Requests
    /\ tasks \in [Requests ->
           [at : {"none", "opening", "polling", "answered", "dropped"}, channel : 0..Len(channels)]]
    /\ channels \in Seq(Channel)

NoTask == [at |-> "none", channel |-> 0]

SpspInit ==
    /\ config \in Configs
    /\ calls = [q \in Requests |-> "idle"]
    /\ result = [q \in Requests |-> {}]
    /\ publishing = [q \in Requests |-> {}]
    /\ asked = [q \in Requests |-> {}]
    /\ offered = [q \in Requests |-> {}]
    /\ held = [r \in Relays |-> {}]
    /\ answers = [r \in Relays |-> {}]
    /\ sent = {}
    /\ server = "down" /\ life = 0
    /\ incoming = {}
    /\ tasks = [q \in Requests |-> NoTask]
    /\ channels = <<>>

-------------------------------------------------------------------------------
\* The client

\* The request is under way to every relay, how long each takes is open, and the
\* call goes on at once: Promise.any is given, for each relay, the array of promises
\* that pool.publish returns, and takes the first array for a success.  Without
\* relays there is none, and it fails.
requestSpspInfo(q) ==
    /\ calls[q] = "idle"
    /\ calls' = [calls EXCEPT ![q] = IF relayUrls[q] = {} THEN "refused" ELSE "waiting"]
    /\ publishing' = [publishing EXCEPT ![q] = relayUrls[q]]
    /\ UNCHANGED <<config, result, asked, offered, held, answers, sent, serverVars, channels>>

\* A relay stores the request or not.
Reach(q, r) ==
    /\ r \in publishing[q]
    /\ publishing' = [publishing EXCEPT ![q] = @ \ {r}]
    /\ held' \in {held, [held EXCEPT ![r] = @ \cup {q}]}
    /\ UNCHANGED <<config, result, answers, sent, serverVars, channels>>

\* Its OK arrives, or it could not be reached, which the pool reports as a success.
Publish(q, r) == Reach(q, r) /\ UNCHANGED <<calls, asked, offered>>

\* It refuses the request, or its OK is lost: nobody catches the rejection of the
\* promise in the array, which ends the client's process with all its calls.
PublishRejected(q, r) ==
    LET lost == {p \in Requests : client[p] = client[q] /\ calls[p] \in {"idle", "waiting"}} IN
    /\ Reach(q, r)
    /\ calls' = [p \in Requests |-> IF p \in lost THEN "ended" ELSE calls[p]]
    /\ asked' = [p \in Requests |-> IF p \in lost THEN {} ELSE asked[p]]
    /\ offered' = [p \in Requests |-> IF p \in lost THEN {} ELSE offered[p]]

\* The client's REQ reaches a relay that does not push: it sends the answers to
\* any of this client's requests it stores at that moment.
Subscribe(q, r) ==
    /\ calls[q] = "waiting" /\ r \in relayUrls[q] \ (asked[q] \cup Pushing)
    /\ asked' = [asked EXCEPT ![q] = @ \cup {r}]
    /\ offered' = [offered EXCEPT ![q] =
           @ \cup {a \in answers[r] : client[a.requestId] = client[q]}]
    /\ UNCHANGED <<config, calls, result, publishing, held, answers, sent, serverVars, channels>>

\* A relay that pushes brings answers that are older or newer than the REQ.  None
\* has to arrive: one may be lost, or be older than the filter's "since".
Receives(q, a) ==
    /\ calls[q] = "waiting" /\ client[a.requestId] = client[q]
    /\ a \in offered[q] \/ (a \in sent /\ relayUrls[q] \cap Pushing # {})

\* The call ends, and closes its subscription.
settle(q, how, with) ==
    /\ calls' = [calls EXCEPT ![q] = how]
    /\ result' = [result EXCEPT ![q] = with]
    /\ asked' = [asked EXCEPT ![q] = {}] /\ offered' = [offered EXCEPT ![q] = {}]
    /\ UNCHANGED <<config, publishing, held, answers, sent, serverVars, channels>>

\* The answer without settlement, which is also what the client makes of one
\* without chain or address.
Plain(q) == [requestId |-> q, chain |-> NoChain, address |-> {}, token |-> NoToken, channel |-> 0]

Settled(a) == IF a.chain # NoChain /\ a.address # {} THEN a ELSE Plain(a.requestId)

\* An answer to another request is ignored.
OnAnswer(q, a) == Receives(q, a) /\ a.requestId = q /\ settle(q, "resolved", {Settled(a)})

Timeout(q) == calls[q] = "waiting" /\ settle(q, "timed out", {})

-------------------------------------------------------------------------------
\* The server

ServerFrame == UNCHANGED <<config, clientVars, held, answers>>

\* The server's REQ has no "since".  Relays that do not push send what they store
\* when it reaches them, here at once.
handleSpspRequests ==
    /\ server = "down"
    /\ server' = "listening" /\ life' = life + 1
    /\ incoming' = UNION {held[r] : r \in Relays \ Pushing}
    /\ UNCHANGED <<tasks, sent, channels>> /\ ServerFrame

\* The process ends, whatever it is doing.  (unsubscribe lets its tasks go on, and
\* differs in nothing from relays that send nothing more.)
Stop ==
    /\ server = "listening" /\ life < MaxLives
    /\ server' = "down" /\ incoming' = {}
    /\ tasks' = [q \in Requests |-> NoTask]
    /\ UNCHANGED <<life, sent, channels>> /\ ServerFrame

\* Settlement addresses are on supported chains, if any are listed.
parseSpspRequest(q) ==
    supported[q] = <<>> \/ \A chain \in addresses[q] :
                              \E i \in DOMAIN supported[q] : supported[q][i] = chain

\* A relay that pushes brings every request, older or newer than the REQ.
Arrives(q) == /\ server = "listening"
              /\ q \in incoming \/ \E r \in Pushing : q \in held[r]

chainFor(q) ==
    negotiateSettlementChain(supported[q], config.chains, preferred[q], config.tokens)

tokenFor(q) == resolveTokenForChain(chainFor(q), preferred[q], config.tokens)

\* The answer that names an open channel.
Negotiated(q, i) ==
    [requestId |-> q, chain |-> chainFor(q), address |-> config.addresses \cap {chainFor(q)},
     token |-> tokenFor(q), channel |-> i]

publish(q, a) ==
    /\ sent' = sent \cup {a}
    /\ tasks' = [tasks EXCEPT ![q] = [at |-> "answered", channel |-> 0]]

\* The request is invalid or the generator fails, and nothing is answered; or the
\* answer goes out, unless a chain is agreed on and the requester has an address
\* there.  (While the generator runs nothing else can disturb the task.)
Serve(q) ==
    /\ \/ tasks' = [tasks EXCEPT ![q].at = "dropped"] /\ UNCHANGED sent
       \/ /\ parseSpspRequest(q) /\ chainFor(q) \in addresses[q]
          /\ tasks' = [tasks EXCEPT ![q].at = "opening"]
          /\ UNCHANGED sent
       \/ /\ parseSpspRequest(q) /\ chainFor(q) \notin addresses[q]
          /\ publish(q, Plain(q))
    /\ UNCHANGED <<server, life, incoming, channels>> /\ ServerFrame

\* Mutation of processRequest: a request that relays bring again is served again.
processRequestAgain(q) == Arrives(q) /\ tasks[q].at \in {"none", "answered"} /\ Serve(q)

\* The pool passes on an event once, however many relays send it.
processRequest(q) == Arrives(q) /\ tasks[q].at = "none" /\ Serve(q)

NewChannel(q) == [of |-> q, life |-> life, chain |-> chainFor(q), token |-> tokenFor(q),
                  opened |-> FALSE]

\* The call opens a channel and returns its id; opens one, and its answer is
\* lost; or opens none, and fails.  Without id the answer is a plain one.
openChannel(q) ==
    /\ tasks[q].at = "opening"
    /\ \/ /\ Len(channels) < MaxChannels
          /\ channels' = Append(channels, NewChannel(q))
          /\ \/ /\ tasks' = [tasks EXCEPT ![q] = [at |-> "polling", channel |-> Len(channels) + 1]]
                /\ UNCHANGED sent
             \/ publish(q, Plain(q))
       \/ publish(q, Plain(q)) /\ UNCHANGED channels
    /\ UNCHANGED <<server, life, incoming>> /\ ServerFrame

\* Mutation of PollsOpen: any state of the channel will do.
PollsAny(q) ==
    /\ tasks[q].at = "polling"
    /\ publish(q, Negotiated(q, tasks[q].channel))
    /\ UNCHANGED <<server, life, incoming, channels>> /\ ServerFrame

\* A poll finds the channel open.  Another state is polled again.
PollsOpen(q) ==
    /\ tasks[q].at = "polling"
    /\ channels[tasks[q].channel].opened
    /\ publish(q, Negotiated(q, tasks[q].channel))
    /\ UNCHANGED <<server, life, incoming, channels>> /\ ServerFrame

\* Mutation of PollsEnd: the task is given up, not the settlement.
PollsEndSilently(q) ==
    /\ tasks[q].at = "polling"
    /\ tasks' = [tasks EXCEPT ![q].at = "dropped"]
    /\ UNCHANGED <<server, life, incoming, sent, channels>> /\ ServerFrame

\* A poll fails, or the time for polling is over; the channel stays.
PollsEnd(q) ==
    /\ tasks[q].at = "polling"
    /\ publish(q, Plain(q))
    /\ UNCHANGED <<server, life, incoming, channels>> /\ ServerFrame

-------------------------------------------------------------------------------
\* Relays and connector

\* An answer reaches a relay that does not push, early, late or never.
AnswerArrives(r, a) ==
    /\ r \notin Pushing /\ a \in sent \ answers[r]
    /\ answers' = [answers EXCEPT ![r] = @ \cup {a}]
    /\ UNCHANGED <<config, clientVars, held, sent, serverVars, channels>>

\* A poll that finds a channel closed again ends like one that never saw it open.
ChannelOpens(i) ==
    /\ ~channels[i].opened
    /\ channels' = [channels EXCEPT ![i].opened = TRUE]
    /\ UNCHANGED <<config, clientVars, held, answers, sent, serverVars>>

-------------------------------------------------------------------------------
ClientStep(q) ==
    \/ requestSpspInfo(q) \/ Timeout(q)
    \/ \E r \in Relays : Publish(q, r) \/ PublishRejected(q, r) \/ Subscribe(q, r)
    \/ \E a \in sent : OnAnswer(q, a)

TaskStep(q) == openChannel(q) \/ PollsOpen(q) \/ PollsEnd(q)

ServerStep ==
    \/ handleSpspRequests \/ Stop
    \/ \E q \in Requests : processRequest(q) \/ TaskStep(q)

SpspNext ==
    \/ \E q \in Requests : ClientStep(q)
    \/ ServerStep
    \/ \E r \in Relays, a \in sent : AnswerArrives(r, a)
    \/ \E i \in DOMAIN channels : ChannelOpens(i)

Waits(q) == \/ Timeout(q) \/ TaskStep(q)
            \/ \E r \in Relays : Publish(q, r) \/ PublishRejected(q, r)

\* Publishing, waiting and polling have timeouts, and the connector's calls
\* return: while any is due, one of them comes.  As each comes only so often, none
\* is put off for ever.  Relays need not send what they hold, channels need not
\* open, and the server need not start.
SpspFairness == WF_spspVars(\E q \in Requests : Waits(q))

SpspSpec == SpspInit /\ [][SpspNext]_spspVars /\ SpspFairness
-------------------------------------------------------------------------------
\* Properties

\* Whether chain x is a better choice than y, for two common chains of a request.
Better(q, x, y) ==
    LET Prefers(chain) == chain \in DOMAIN preferred[q]
        Accepts(chain) == chain \in DOMAIN config.tokens
        Before == \E i \in DOMAIN supported[q] :
                      supported[q][i] = x /\ \A j \in 1..i : supported[q][j] # y
    IN \/ Prefers(x) /\ ~Prefers(y)
       \/ Prefers(x) = Prefers(y) /\ ((Prefers(x) \/ Accepts(x) = Accepts(y)) /\ Before)
       \/ ~Prefers(x) /\ ~Prefers(y) /\ Accepts(x) /\ ~Accepts(y)

\* Money is committed on terms both sides stated: a channel is on a chain both
\* support, where the requester has an address, none of the common chains is
\* better, and its token is one that either side prefers there, if any does.
ChannelsNegotiated ==
    \A i \in DOMAIN channels :
        LET c == channels[i] IN
        /\ c.chain \in config.chains \cap addresses[c.of]
        /\ \A j \in DOMAIN supported[c.of] :
               supported[c.of][j] \in config.chains => ~Better(c.of, supported[c.of][j], c.chain)
        /\ IF c.chain \in DOMAIN preferred[c.of] THEN c.token = preferred[c.of][c.chain]
           ELSE IF c.chain \in DOMAIN config.tokens THEN c.token = config.tokens[c.chain]
           ELSE c.token = NoToken

\* A client that is told of a settlement can use it: the channel named was
\* opened for that very request, in whichever life of the server, on the chain
\* and for the token named, and it had been open when the answer was made.
SettledOnOpenChannel ==
    \A q \in Requests : \A a \in result[q] :
        a.chain # NoChain =>
            /\ a.channel \in DOMAIN channels /\ a.address = {a.chain}
            /\ channels[a.channel].of = q
            /\ channels[a.channel].chain = a.chain /\ channels[a.channel].token = a.token
            /\ channels[a.channel].opened

\* However many relays bring a request, and however often it is published, it
\* costs at most one channel in each life of the server.
OneChannelPerLife ==
    \A i, j \in DOMAIN channels :
        channels[i].of = channels[j].of /\ channels[i].life = channels[j].life => i = j

Negotiating(q) == tasks[q].at \in {"opening", "polling"}

\* No call of requestSpspInfo waits for ever, although no relay may take the
\* request, serve the subscription or have an answer.  And negotiation never costs
\* the requester its answer: it ends, whatever the connector does, and until the
\* server's process ends nothing comes of it but an answer, with or without
\* settlement.
ExchangesEnd ==
    /\ <>[](\A q \in Requests : calls[q] # "waiting" /\ ~Negotiating(q))
    /\ [][\A q \in Requests : Negotiating(q) /\ server' # "down" =>
               tasks'[q].at \in {"opening", "polling", "answered"}]_spspVars
===============================================================================
