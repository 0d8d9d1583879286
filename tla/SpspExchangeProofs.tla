-------------------------- MODULE SpspExchangeProofs --------------------------
(***************************************************************************)
(* Proofs about SpspExchange, for any number of requests, relays, chains   *)
(* and lives of the server.                                                *)
(***************************************************************************)
EXTENDS SpspExchange, SequenceTheorems, WellFoundedInduction, TLAPS

\* Nothing is left of a process that is down, and it may start again.
ServerInv == server = "down" => /\ life < MaxLives
                                /\ tasks = [q \in Requests |-> NoTask]

\* A task opens a channel only where the requester has an address, and polls one
\* that was opened for its request, on the chain and for the token agreed on.
TaskInv(q) ==
    /\ tasks[q].at = "opening" => chainFor(q) \in addresses[q]
    /\ tasks[q].at = "polling" =>
           /\ tasks[q].channel \in DOMAIN channels
           /\ channels[tasks[q].channel].of = q
           /\ channels[tasks[q].channel].chain = chainFor(q)
           /\ channels[tasks[q].channel].token = tokenFor(q)

\* An answer with settlement names an open channel of its request.
NamesOpenChannel(a) ==
    a.chain # NoChain =>
        /\ a.channel \in DOMAIN channels /\ a.address \subseteq {a.chain}
        /\ channels[a.channel].of = a.requestId
        /\ channels[a.channel].chain = a.chain /\ channels[a.channel].token = a.token
        /\ channels[a.channel].opened

\* What relays hold and clients are offered are answers that were sent.
AnswersInv ==
    /\ \A r \in Relays : answers[r] \subseteq sent
    /\ \A q \in Requests : offered[q] \subseteq sent
    /\ \A a \in sent : NamesOpenChannel(a)

\* A channel of this life has a task that is beyond opening one.
LivesInv ==
    \A i \in DOMAIN channels :
        /\ channels[i].life <= life
        /\ channels[i].life = life /\ server = "listening" =>
               tasks[channels[i].of].at \in {"polling", "answered"}

SpspInv == /\ SpspTypeOK /\ ServerInv /\ (\A q \in Requests : TaskInv(q))
           /\ AnswersInv /\ LivesInv /\ OneChannelPerLife /\ SettledOnOpenChannel

-------------------------------------------------------------------------------
\* A token that either side prefers is a token.
LEMMA TokenType ==
    ASSUME config \in Config, NEW q \in Requests
    PROVE  tokenFor(q) \in Tokens \cup {NoToken}
BY RequestsAssumption DEF tokenFor, resolveTokenForChain, Config

\* What a client keeps of an answer is an answer to the same request.
LEMMA SettledType ==
    ASSUME NEW a \in Answer
    PROVE  /\ Settled(a) \in Answer /\ Settled(a).requestId = a.requestId
           /\ Settled(a).chain # NoChain => Settled(a) = a /\ a.address # {}
BY DEF Settled, Plain, Answer

\* The initial states satisfy the invariant.
LEMMA InitInv == SpspInit => SpspInv
<1> SUFFICES ASSUME SpspInit PROVE SpspInv
    OBVIOUS
<1>1. SpspTypeOK
    BY RequestsAssumption DEF SpspInit, SpspTypeOK, NoTask, CallStates
<1>2. ServerInv /\ LivesInv /\ OneChannelPerLife
    BY RequestsAssumption DEF SpspInit, ServerInv, LivesInv, OneChannelPerLife
<1>3. \A q \in Requests : TaskInv(q)
    BY DEF SpspInit, TaskInv, NoTask
<1>4. AnswersInv /\ SettledOnOpenChannel
    BY DEF SpspInit, AnswersInv, SettledOnOpenChannel
<1> QED
    BY <1>1, <1>2, <1>3, <1>4 DEF SpspInv


-------------------------------------------------------------------------------
\* What both sides agree on depends on the configuration alone.
LEMMA SameTerms ==
    ASSUME UNCHANGED config, NEW q \in Requests
    PROVE  chainFor(q)' = chainFor(q) /\ tokenFor(q)' = tokenFor(q)
BY DEF chainFor, tokenFor

\* The channels are a sequence of channels.
LEMMA ChannelType ==
    ASSUME SpspInv
    PROVE  /\ Len(channels) \in Nat /\ DOMAIN channels = 1..Len(channels)
           /\ \A i \in DOMAIN channels : channels[i] \in Channel /\ channels[i].life \in Nat
<1>1. channels \in Seq(Channel)
    BY DEF SpspInv, SpspTypeOK
<1>2. /\ Len(channels) \in Nat /\ DOMAIN channels = 1..Len(channels)
      /\ \A i \in DOMAIN channels : channels[i] \in Channel
    BY <1>1
<1>3. \A c \in Channel : c.life \in Nat
    BY DEF Channel
<1> QED
    BY <1>2, <1>3

\* Tasks have a place each, and only a process that listens has them.
LEMMA TaskType ==
    ASSUME SpspInv
    PROVE  /\ tasks \in [Requests -> [at : {"none", "opening", "polling", "answered", "dropped"},
                                     channel : 0..Len(channels)]]
           /\ \A q \in Requests : tasks[q].at # "none" => server = "listening"
<1>1. /\ tasks \in [Requests -> [at : {"none", "opening", "polling", "answered", "dropped"},
                              channel : 0..Len(channels)]]
      /\ server \in {"down", "listening"}
    BY DEF SpspInv, SpspTypeOK
<1>2. server = "down" => tasks = [q \in Requests |-> NoTask]
    BY DEF SpspInv, ServerInv
<1> QED
    BY <1>1, <1>2 DEF NoTask

\* Steps that leave server and connector alone keep what is said of them.
LEMMA ServerFramed ==
    ASSUME SpspInv, UNCHANGED <<config, sent, serverVars, channels>>
    PROVE  /\ ServerInv' /\ LivesInv' /\ OneChannelPerLife'
           /\ \A q \in Requests : TaskInv(q)'
           /\ \A a \in sent' : NamesOpenChannel(a)'
<1>1. ServerInv' /\ LivesInv' /\ OneChannelPerLife'
    BY DEF SpspInv, ServerInv, LivesInv, OneChannelPerLife, serverVars
<1>2. \A q \in Requests : TaskInv(q)'
    BY SameTerms DEF SpspInv, TaskInv, serverVars
<1>3. \A a \in sent' : NamesOpenChannel(a)'
    BY DEF SpspInv, AnswersInv, NamesOpenChannel
<1> QED
    BY <1>1, <1>2, <1>3

\* Calls that lose their answers, or have none, are told of nothing.
LEMMA ResultsFramed ==
    ASSUME SpspInv, UNCHANGED channels, \A q \in Requests : result'[q] \subseteq result[q]
    PROVE  SettledOnOpenChannel'
BY DEF SpspInv, SettledOnOpenChannel

\* A call that begins has no answer yet, and publishes to its relays.
LEMMA BeginsInv ==
    ASSUME SpspInv, NEW q \in Requests, requestSpspInfo(q)
    PROVE  SpspInv'
<1> USE DEF requestSpspInfo
<1>1. SpspTypeOK'
  <2>1. publishing' \in [Requests -> SUBSET Relays]
    BY RequestsAssumption DEF SpspInv, SpspTypeOK
  <2>2. /\ calls' \in [Requests -> CallStates]
        /\ \A p \in Requests : (calls'[p] = "resolved") = (calls[p] = "resolved")
    BY DEF SpspInv, SpspTypeOK, CallStates
  <2> QED
    BY <2>1, <2>2 DEF SpspInv, SpspTypeOK, serverVars
<1>2. AnswersInv' /\ SettledOnOpenChannel'
    BY ServerFramed, ResultsFramed DEF SpspInv, AnswersInv
<1> QED
    BY <1>1, <1>2, ServerFramed DEF SpspInv

\* A request that reaches a relay changes what is under way and what it stores.
LEMMA ReachTypes ==
    ASSUME SpspInv, NEW q \in Requests, NEW r \in Relays, Reach(q, r)
    PROVE  /\ UNCHANGED <<config, result, answers, sent, serverVars, channels>>
           /\ publishing' \in [Requests -> SUBSET Relays]
           /\ held' \in [Relays -> SUBSET Requests]
<1>1. publishing' \in [Requests -> SUBSET Relays]
    BY DEF SpspInv, SpspTypeOK, Reach
<1>2. held' \in [Relays -> SUBSET Requests]
  <2>1. held \in [Relays -> SUBSET Requests]
    BY DEF SpspInv, SpspTypeOK
  <2>2. held' = held \/ held' = [held EXCEPT ![r] = @ \cup {q}]
    BY DEF Reach
  <2> QED
    BY <2>1, <2>2
<1> QED
    BY <1>1, <1>2 DEF Reach

\* The call does not hear of it.
LEMMA PublishInv ==
    ASSUME SpspInv, NEW q \in Requests, NEW r \in Relays, Publish(q, r)
    PROVE  SpspInv'
<1> USE DEF Publish
<1>1. SpspTypeOK'
    BY ReachTypes DEF SpspInv, SpspTypeOK, serverVars
<1>2. AnswersInv' /\ SettledOnOpenChannel'
    BY ReachTypes, ServerFramed, ResultsFramed DEF SpspInv, AnswersInv
<1> QED
    BY <1>1, <1>2, ReachTypes, ServerFramed DEF SpspInv

\* Or it ends with its process, without an answer.
LEMMA RejectedInv ==
    ASSUME SpspInv, NEW q \in Requests, NEW r \in Relays, PublishRejected(q, r)
    PROVE  SpspInv'
<1>1. UNCHANGED <<config, result, answers, sent, serverVars, channels>>
    BY ReachTypes DEF PublishRejected
<1>2. /\ calls' \in [Requests -> CallStates]
      /\ \A p \in Requests : (calls'[p] = "resolved") = (calls[p] = "resolved")
    BY DEF SpspInv, SpspTypeOK, CallStates, PublishRejected
<1>3. /\ asked' \in [Requests -> SUBSET Relays]
      /\ offered' \in [Requests -> SUBSET Answer]
      /\ \A p \in Requests : offered'[p] \subseteq offered[p]
    BY DEF SpspInv, SpspTypeOK, PublishRejected
<1>4. SpspTypeOK'
    BY <1>1, <1>2, <1>3, ReachTypes DEF SpspInv, SpspTypeOK, serverVars, PublishRejected
<1>5. AnswersInv' /\ SettledOnOpenChannel'
    BY <1>1, <1>3, ServerFramed, ResultsFramed DEF SpspInv, AnswersInv
<1> QED
    BY <1>1, <1>4, <1>5, ServerFramed DEF SpspInv

\* A subscription brings answers the relay stores.
LEMMA SubscribeInv ==
    ASSUME SpspInv, NEW q \in Requests, NEW r \in Relays, Subscribe(q, r)
    PROVE  SpspInv'
<1> USE DEF Subscribe
<1>1. \A p \in Requests : offered'[p] \subseteq offered[p] \cup answers[r]
    BY DEF SpspInv, SpspTypeOK
<1>2. /\ asked' \in [Requests -> SUBSET Relays]
      /\ offered' \in [Requests -> SUBSET Answer]
    BY DEF SpspInv, SpspTypeOK
<1>3. SpspTypeOK'
    BY <1>2 DEF SpspInv, SpspTypeOK, serverVars
<1>4. AnswersInv'
    BY <1>1, ServerFramed DEF SpspInv, AnswersInv
<1>5. SettledOnOpenChannel'
    BY ResultsFramed
<1> QED
    BY <1>3, <1>4, <1>5, ServerFramed DEF SpspInv

\* A call that ends keeps an answer that was sent, to its own request.
LEMMA OnAnswerInv ==
    ASSUME SpspInv, NEW q \in Requests, NEW a \in sent, OnAnswer(q, a)
    PROVE  SpspInv'
<1> USE DEF settle, OnAnswer
<1>1. a \in Answer /\ a.requestId = q /\ NamesOpenChannel(a)
    BY DEF SpspInv, SpspTypeOK, AnswersInv
<1>2. SpspTypeOK'
    BY <1>1, SettledType DEF SpspInv, SpspTypeOK, CallStates, serverVars
<1>3. AnswersInv'
    BY ServerFramed DEF SpspInv, SpspTypeOK, AnswersInv, serverVars
<1>4. SettledOnOpenChannel'
  <2>1. \A b \in result'[q] : b.chain # NoChain => b = a /\ a.address # {}
    BY <1>1, SettledType DEF SpspInv, SpspTypeOK
  <2>2. \A p \in Requests \ {q} : result'[p] = result[p]
    BY DEF SpspInv, SpspTypeOK
  <2> QED
    BY <1>1, <2>1, <2>2 DEF SpspInv, SettledOnOpenChannel, NamesOpenChannel, serverVars
<1> QED
    BY <1>2, <1>3, <1>4, ServerFramed DEF SpspInv

\* A call that times out has no answer.
LEMMA TimeoutInv ==
    ASSUME SpspInv, NEW q \in Requests, Timeout(q)
    PROVE  SpspInv'
<1> USE DEF settle, Timeout
<1>1. SpspTypeOK'
    BY DEF SpspInv, SpspTypeOK, CallStates, serverVars
<1>2. /\ \A p \in Requests : offered'[p] \subseteq offered[p]
      /\ \A p \in Requests : result'[p] \subseteq result[p]
    BY DEF SpspInv, SpspTypeOK
<1>3. AnswersInv'
    BY <1>2, ServerFramed DEF SpspInv, AnswersInv
<1>4. SettledOnOpenChannel'
    BY <1>2, ResultsFramed
<1> QED
    BY <1>1, <1>3, <1>4, ServerFramed DEF SpspInv

-------------------------------------------------------------------------------
\* What the server and the connector do leaves clients and relays alone.
LEMMA ClientFramed ==
    ASSUME SpspInv, ServerFrame
    PROVE  /\ config' \in Configs
           /\ calls' \in [Requests -> CallStates]
           /\ result' \in [Requests -> SUBSET Answer]
           /\ \A q \in Requests : /\ (calls'[q] = "resolved") = (result'[q] # {})
                                  /\ \A a \in result'[q] : a.requestId = q
           /\ {publishing', asked'} \subseteq [Requests -> SUBSET Relays]
           /\ offered' \in [Requests -> SUBSET Answer]
           /\ held' \in [Relays -> SUBSET Requests]
           /\ answers' \in [Relays -> SUBSET Answer]
BY DEF SpspInv, SpspTypeOK, ServerFrame, clientVars

\* When channels stay as they are, so does what answers say of them.
LEMMA AnswersFramed ==
    ASSUME SpspInv, ServerFrame, UNCHANGED channels, sent \subseteq sent',
           \A a \in sent' \ sent : NamesOpenChannel(a)
    PROVE  AnswersInv' /\ SettledOnOpenChannel'
<1>1. \A a \in sent' : NamesOpenChannel(a)'
    BY DEF SpspInv, AnswersInv, NamesOpenChannel
<1>2. AnswersInv'
    BY <1>1 DEF SpspInv, AnswersInv, ServerFrame, clientVars
<1>3. SettledOnOpenChannel'
    BY ResultsFramed DEF ServerFrame, clientVars
<1> QED
    BY <1>2, <1>3

\* A life begins without tasks, and no channel is of it.
LEMMA StartInv ==
    ASSUME SpspInv, handleSpspRequests
    PROVE  SpspInv'
<1> USE DEF handleSpspRequests
<1>1. SpspTypeOK'
  <2>1. life \in 0..MaxLives /\ life < MaxLives
    BY DEF SpspInv, SpspTypeOK, ServerInv
  <2>2. held \in [Relays -> SUBSET Requests]
    BY DEF SpspInv, SpspTypeOK
  <2>3. life' \in 0..MaxLives /\ incoming' \subseteq Requests
    BY <2>1, <2>2, RequestsAssumption
  <2> QED
    BY <2>3, ClientFramed DEF SpspInv, SpspTypeOK
<1>2. ServerInv' /\ OneChannelPerLife'
    BY DEF SpspInv, ServerInv, OneChannelPerLife
<1>3. LivesInv'
  <2>1. life \in 0..MaxLives
    BY DEF SpspInv, SpspTypeOK
  <2> QED
    BY <2>1, ChannelType, RequestsAssumption DEF SpspInv, LivesInv
<1>4. \A q \in Requests : TaskInv(q)'
    BY SameTerms DEF SpspInv, TaskInv, ServerFrame
<1>5. AnswersInv' /\ SettledOnOpenChannel'
    BY AnswersFramed
<1> QED
    BY <1>1, <1>2, <1>3, <1>4, <1>5 DEF SpspInv

\* A process that ends loses its tasks, and nothing else.
LEMMA StopInv ==
    ASSUME SpspInv, Stop
    PROVE  SpspInv'
<1> USE DEF Stop
<1>1. SpspTypeOK'
  <2>1. tasks' \in [Requests -> [at : {"none", "opening", "polling", "answered", "dropped"},
                                channel : 0..Len(channels)]]
    BY ChannelType DEF NoTask
  <2> QED
    BY <2>1, ClientFramed DEF SpspInv, SpspTypeOK
<1>2. ServerInv' /\ OneChannelPerLife'
    BY DEF SpspInv, SpspTypeOK, ServerInv, OneChannelPerLife
<1>3. LivesInv'
    BY DEF SpspInv, LivesInv
<1>4. \A q \in Requests : TaskInv(q)'
    BY DEF TaskInv, NoTask
<1>5. AnswersInv' /\ SettledOnOpenChannel'
    BY AnswersFramed
<1> QED
    BY <1>1, <1>2, <1>3, <1>4, <1>5 DEF SpspInv

\* Steps of one task that leave the channels as they are.
LEMMA TaskFramed ==
    ASSUME SpspInv, ServerFrame, UNCHANGED <<server, life, incoming, channels>>,
           NEW q \in Requests, server = "listening",
           NEW at \in {"opening", "answered", "dropped"},
           tasks' \in [Requests -> [at : {"none", "opening", "polling", "answered", "dropped"},
                                   channel : 0..Len(channels)]],
           \A p \in Requests \ {q} : tasks'[p] = tasks[p],
           tasks'[q].at = at,
           at = "opening" => chainFor(q) \in addresses[q],
           at # "answered" => tasks[q].at = "none",
           sent \subseteq sent', \A a \in sent' \ sent : a \in Answer /\ NamesOpenChannel(a)
    PROVE  SpspInv'
<1>1. SpspTypeOK'
  <2>1. sent' \subseteq Answer
    BY DEF SpspInv, SpspTypeOK
  <2> QED
    BY <2>1, ClientFramed DEF SpspInv, SpspTypeOK
<1>2. ServerInv' /\ OneChannelPerLife'
    BY DEF SpspInv, ServerInv, OneChannelPerLife
<1>3. LivesInv'
    BY ChannelType DEF SpspInv, LivesInv, Channel
<1>4. \A p \in Requests : TaskInv(p)'
    BY SameTerms DEF SpspInv, TaskInv, ServerFrame
<1>5. AnswersInv' /\ SettledOnOpenChannel'
    BY AnswersFramed
<1> QED
    BY <1>1, <1>2, <1>3, <1>4, <1>5 DEF SpspInv

\* A plain answer claims nothing.
LEMMA PlainType ==
    ASSUME NEW q \in Requests
    PROVE  Plain(q) \in Answer /\ NamesOpenChannel(Plain(q))
BY RequestsAssumption DEF Plain, Answer, NamesOpenChannel

\* A request is dropped, answered, or a channel is to be opened for it.
LEMMA ServeInv ==
    ASSUME SpspInv, NEW q \in Requests, processRequest(q)
    PROVE  SpspInv'
<1> USE DEF processRequest, Serve, publish
<1>1. /\ tasks \in [Requests -> [at : {"none", "opening", "polling", "answered", "dropped"},
                              channel : 0..Len(channels)]]
      /\ tasks[q].at = "none" /\ server = "listening" /\ Len(channels) \in Nat
    BY ChannelType DEF SpspInv, SpspTypeOK, Arrives
<1>2. CASE tasks' = [tasks EXCEPT ![q].at = "dropped"] /\ UNCHANGED sent
    BY <1>1, <1>2, TaskFramed
<1>3. CASE /\ tasks' = [tasks EXCEPT ![q].at = "opening"]
           /\ chainFor(q) \in addresses[q] /\ UNCHANGED sent
    BY <1>1, <1>3, TaskFramed
<1>4. CASE publish(q, Plain(q))
    BY <1>1, <1>4, PlainType, TaskFramed
<1> QED
    BY <1>2, <1>3, <1>4

\* A poll that ends gives a plain answer.
LEMMA PollsEndInv ==
    ASSUME SpspInv, NEW q \in Requests, PollsEnd(q)
    PROVE  SpspInv'
<1> USE DEF PollsEnd, publish
<1>1. /\ tasks \in [Requests -> [at : {"none", "opening", "polling", "answered", "dropped"},
                              channel : 0..Len(channels)]]
      /\ Len(channels) \in Nat
    BY ChannelType DEF SpspInv, SpspTypeOK
<1>2. server = "listening"
    BY TaskType
<1> QED
    BY <1>1, <1>2, PlainType, TaskFramed

\* A poll that finds the channel open answers with the terms it was opened on.
LEMMA PollsOpenInv ==
    ASSUME SpspInv, NEW q \in Requests, PollsOpen(q)
    PROVE  SpspInv'
<1> USE DEF PollsOpen, publish
<1> DEFINE i == tasks[q].channel
           a == Negotiated(q, i)
<1>1. /\ tasks \in [Requests -> [at : {"none", "opening", "polling", "answered", "dropped"},
                              channel : 0..Len(channels)]]
      /\ Len(channels) \in Nat
    BY ChannelType DEF SpspInv, SpspTypeOK
<1>2. server = "listening"
    BY TaskType
<1>3. /\ i \in DOMAIN channels /\ channels[i].opened /\ channels[i].of = q
      /\ channels[i].chain = chainFor(q) /\ channels[i].token = tokenFor(q)
    BY DEF SpspInv, TaskInv
<1>4. /\ i \in Nat /\ chainFor(q) \in Chains
      /\ config.addresses \subseteq Chains /\ tokenFor(q) \in Tokens \cup {NoToken}
  <2>1. config \in Config
    BY RequestsAssumption DEF SpspInv, SpspTypeOK
  <2>2. config.addresses \subseteq Chains
    BY <2>1 DEF Config
  <2>3. channels[i] \in Channel /\ i \in Nat
    BY <1>3, ChannelType
  <2> QED
    BY <1>3, <2>1, <2>2, <2>3, TokenType DEF Channel
<1>5. a \in Answer /\ NamesOpenChannel(a)
    BY <1>3, <1>4 DEF Negotiated, Answer, NamesOpenChannel
<1> HIDE DEF a
<1> QED
    BY <1>1, <1>2, <1>5, TaskFramed DEF a

\* A channel is opened for a request that has none of this life, on the terms
\* agreed on; its id is polled, or lost with the answer.
LEMMA OpensInv ==
    ASSUME SpspInv, NEW q \in Requests, openChannel(q)
    PROVE  SpspInv'
<1> DEFINE n == Len(channels) + 1
<1>1. channels \in Seq(Channel) /\ life \in 0..MaxLives /\ sent \subseteq Answer /\ config \in Configs
    BY DEF SpspInv, SpspTypeOK
<1>2. /\ tasks[q].at = "opening" /\ ServerFrame /\ UNCHANGED <<server, life, incoming>>
    BY DEF openChannel
<1>3. chainFor(q) \in addresses[q]
    BY <1>2 DEF SpspInv, TaskInv
<1>4. /\ server = "listening" /\ Len(channels) \in Nat /\ life \in Nat /\ config \in Config
      /\ tasks \in [Requests -> [at : {"none", "opening", "polling", "answered", "dropped"},
                                channel : 0..Len(channels)]]
    BY <1>1, <1>2, TaskType, ChannelType, RequestsAssumption
<1>5. CASE publish(q, Plain(q)) /\ UNCHANGED channels
    BY <1>2, <1>3, <1>4, <1>5, PlainType, TaskFramed DEF publish
<1>6. CASE /\ channels' = Append(channels, NewChannel(q))
           /\ \/ /\ tasks' = [tasks EXCEPT ![q] = [at |-> "polling", channel |-> n]]
                 /\ UNCHANGED sent
              \/ publish(q, Plain(q))
  <2>1. NewChannel(q) \in Channel
    BY <1>3, <1>4, TokenType, RequestsAssumption DEF NewChannel, Channel
  <2>2. /\ channels' \in Seq(Channel) /\ Len(channels') = n
        /\ DOMAIN channels' = DOMAIN channels \cup {n} /\ n \notin DOMAIN channels
        /\ channels'[n] = NewChannel(q)
        /\ \A i \in DOMAIN channels : channels'[i] = channels[i]
    BY <1>1, <1>6, <2>1
  <2>3. PICK task \in {[at |-> "polling", channel |-> n], [at |-> "answered", channel |-> 0]} :
            tasks' = [tasks EXCEPT ![q] = task]
    BY <1>6 DEF publish
  <2>4. /\ tasks' \in [Requests -> [at : {"none", "opening", "polling", "answered", "dropped"},
                                   channel : 0..Len(channels')]]
        /\ tasks'[q] = task /\ \A p \in Requests \ {q} : tasks'[p] = tasks[p]
    <3>1. task \in [at : {"none", "opening", "polling", "answered", "dropped"}, channel : 0..n]
      BY <1>4
    <3>2. \A p \in Requests : tasks[p] \in
              [at : {"none", "opening", "polling", "answered", "dropped"}, channel : 0..n]
      BY <1>4
    <3> QED
      BY <1>4, <2>2, <2>3, <3>1, <3>2
  <2>5. sent' = sent \/ sent' = sent \cup {Plain(q)}
    BY <1>6 DEF publish
  <2>6. SpspTypeOK'
    <3>1. sent' \subseteq Answer
      BY <1>1, <2>5, PlainType
    <3> QED
      BY <1>2, <2>2, <2>4, <3>1, ClientFramed DEF SpspInv, SpspTypeOK
  <2>7. ServerInv'
    BY <1>2, <1>4 DEF ServerInv
  <2>8. \A i \in DOMAIN channels : channels[i].of # q \/ channels[i].life # life
    BY <1>2, <1>4 DEF SpspInv, LivesInv
  <2>9. OneChannelPerLife'
    BY <2>2, <2>8 DEF SpspInv, OneChannelPerLife, NewChannel
  <2>10. LivesInv'
    <3>1. \A i \in DOMAIN channels : channels[i].of \in Requests
      BY ChannelType DEF Channel
    <3>2. \A i \in DOMAIN channels :
              /\ channels'[i].life <= life
              /\ channels'[i].life = life => tasks'[channels'[i].of].at \in {"polling", "answered"}
      BY <1>4, <2>2, <2>4, <2>8, <3>1 DEF SpspInv, LivesInv
    <3>3. /\ channels'[n].life <= life
          /\ tasks'[channels'[n].of].at \in {"polling", "answered"}
      BY <1>4, <2>2, <2>4 DEF NewChannel
    <3> QED
      BY <1>2, <2>2, <3>2, <3>3 DEF LivesInv
  <2>11. ASSUME NEW p \in Requests
         PROVE  TaskInv(p)'
    <3>1. CASE p = q
      BY <2>2, <2>4, <3>1, <1>2, SameTerms DEF TaskInv, NewChannel, ServerFrame
    <3>2. CASE p # q
      BY <2>2, <2>4, <3>2, <1>2, SameTerms DEF SpspInv, TaskInv, ServerFrame
    <3> QED
      BY <3>1, <3>2
  <2>12. AnswersInv'
    <3>1. \A a \in sent' : NamesOpenChannel(a)'
      BY <2>2, <2>5, PlainType DEF SpspInv, AnswersInv, NamesOpenChannel, Plain
    <3> QED
      BY <1>2, <2>5, <3>1 DEF SpspInv, AnswersInv, ServerFrame, clientVars
  <2>13. SettledOnOpenChannel'
    BY <1>2, <2>2 DEF SpspInv, SettledOnOpenChannel, ServerFrame, clientVars
  <2> QED
    BY <2>6, <2>7, <2>9, <2>10, <2>11, <2>12, <2>13 DEF SpspInv
<1> QED
    BY <1>5, <1>6 DEF openChannel

-------------------------------------------------------------------------------
\* An answer that reaches a relay was sent.
LEMMA AnswerArrivesInv ==
    ASSUME SpspInv, NEW r \in Relays, NEW a \in sent, AnswerArrives(r, a)
    PROVE  SpspInv'
<1> USE DEF AnswerArrives
<1>1. /\ answers' \in [Relays -> SUBSET Answer]
      /\ \A s \in Relays : answers'[s] \subseteq answers[s] \cup {a}
    BY DEF SpspInv, SpspTypeOK
<1>2. SpspTypeOK'
    BY <1>1 DEF SpspInv, SpspTypeOK, clientVars, serverVars
<1>3. AnswersInv' /\ SettledOnOpenChannel'
    BY <1>1, ServerFramed, ResultsFramed DEF SpspInv, AnswersInv, clientVars
<1> QED
    BY <1>2, <1>3, ServerFramed DEF SpspInv

\* An opened channel is the channel it was.
LEMMA ChannelOpensInv ==
    ASSUME SpspInv, NEW i \in DOMAIN channels, ChannelOpens(i)
    PROVE  SpspInv'
<1> USE DEF ChannelOpens
<1>1. channels \in Seq(Channel)
    BY DEF SpspInv, SpspTypeOK
<1>2. /\ channels' \in Seq(Channel) /\ DOMAIN channels' = DOMAIN channels
      /\ Len(channels') = Len(channels)
      /\ \A j \in DOMAIN channels :
             /\ channels'[j].of = channels[j].of /\ channels'[j].life = channels[j].life
             /\ channels'[j].chain = channels[j].chain /\ channels'[j].token = channels[j].token
             /\ channels[j].opened => channels'[j].opened
  <2> DEFINE c == [channels[i] EXCEPT !.opened = TRUE]
  <2>1. channels[i] \in Channel
    BY <1>1
  <2>2. /\ c \in Channel /\ c.of = channels[i].of /\ c.life = channels[i].life
        /\ c.chain = channels[i].chain /\ c.token = channels[i].token /\ c.opened
    BY <2>1 DEF Channel
  <2>3. channels' = [channels EXCEPT ![i] = c]
    OBVIOUS
  <2>4. channels' \in Seq(Channel) /\ Len(channels') = Len(channels)
    BY <1>1, <2>2, <2>3, ExceptSeq
  <2>5. /\ DOMAIN channels' = DOMAIN channels
        /\ \A j \in DOMAIN channels : channels'[j] = IF j = i THEN c ELSE channels[j]
    BY <2>3
  <2> HIDE DEF c
  <2> QED
    BY <2>2, <2>4, <2>5
<1>3. SpspTypeOK'
    BY <1>2 DEF SpspInv, SpspTypeOK, clientVars, serverVars
<1>4. ServerInv' /\ LivesInv' /\ OneChannelPerLife'
    BY <1>2 DEF SpspInv, ServerInv, LivesInv, OneChannelPerLife, serverVars
<1>5. \A q \in Requests : TaskInv(q)'
    BY <1>2, SameTerms DEF SpspInv, TaskInv, serverVars
<1>6. AnswersInv'
    BY <1>2 DEF SpspInv, AnswersInv, NamesOpenChannel, clientVars
<1>7. SettledOnOpenChannel'
    BY <1>2 DEF SpspInv, SettledOnOpenChannel, clientVars
<1> QED
    BY <1>3, <1>4, <1>5, <1>6, <1>7 DEF SpspInv

-------------------------------------------------------------------------------
\* Every step keeps the invariant.
LEMMA StepInv == SpspInv /\ [SpspNext]_spspVars => SpspInv'
<1> SUFFICES ASSUME SpspInv, [SpspNext]_spspVars PROVE SpspInv'
    OBVIOUS
<1>1. CASE \E q \in Requests : ClientStep(q)
    BY <1>1, BeginsInv, PublishInv, RejectedInv, SubscribeInv, OnAnswerInv, TimeoutInv DEF ClientStep
<1>2. CASE ServerStep
    BY <1>2, StartInv, StopInv, ServeInv, OpensInv, PollsOpenInv, PollsEndInv
    DEF ServerStep, TaskStep
<1>3. CASE \E r \in Relays, a \in sent : AnswerArrives(r, a)
    BY <1>3, AnswerArrivesInv
<1>4. CASE \E i \in DOMAIN channels : ChannelOpens(i)
    BY <1>4, ChannelOpensInv
<1>5. CASE UNCHANGED spspVars
  <2>1. SpspTypeOK'
    BY <1>5 DEF SpspInv, SpspTypeOK, spspVars, clientVars, serverVars
  <2>2. AnswersInv' /\ SettledOnOpenChannel'
    BY <1>5, ServerFramed, ResultsFramed DEF SpspInv, AnswersInv, spspVars, clientVars
  <2> QED
    BY <1>5, <2>1, <2>2, ServerFramed DEF SpspInv, spspVars
<1> QED
    BY <1>1, <1>2, <1>3, <1>4, <1>5 DEF SpspNext

\* Client, relays, server and connector stay well formed, and a call that
\* resolved has an answer to its own request.
THEOREM SpspTypeCorrect == SpspSpec => []SpspTypeOK
<1>1. SpspInv => SpspTypeOK
    BY DEF SpspInv
<1> QED
    BY <1>1, InitInv, StepInv, PTL DEF SpspSpec

\* A request costs at most one channel in each life of the server, however many
\* relays bring it and however often.
THEOREM ChannelsAreFew == SpspSpec => []OneChannelPerLife
<1>1. SpspInv => OneChannelPerLife
    BY DEF SpspInv
<1> QED
    BY <1>1, InitInv, StepInv, PTL DEF SpspSpec

\* Whatever the connector does and whenever the server starts again, a
\* settlement that a client is told of names a channel opened for its request.
THEOREM SettlementsAreOpen == SpspSpec => []SettledOnOpenChannel
<1>1. SpspInv => SettledOnOpenChannel
    BY DEF SpspInv
<1> QED
    BY <1>1, InitInv, StepInv, PTL DEF SpspSpec

-------------------------------------------------------------------------------
\* Terms

\* Naturals have a least element.
LEMMA LeastExists ==
    ASSUME NEW T, T \subseteq Nat, T # {}
    PROVE  \E x \in T : \A y \in T : x <= y
<1> DEFINE R == {ss \in Nat \X Nat : ss[1] < ss[2]}
<1>1. IsWellFoundedOn(R, Nat)
    BY NatLessThanWellFounded DEF OpToRel
<1>2. \A y \in T, x \in T : <<y, x>> \in R <=> y < x
    OBVIOUS
<1> HIDE DEF R
<1>3. PICK x \in T : \A y \in T : <<y, x>> \notin R
    BY <1>1, WFMin
<1>4. \A y \in T : ~(y < x)
    BY <1>2, <1>3
<1>5. QED
    BY <1>4

\* Of a list of chains FirstOf finds the first in a set, if any is.
LEMMA FirstIsFirst ==
    ASSUME NEW chains \in Seq(Chains), NEW set, FirstOf(chains, set) # NoChain
    PROVE  \E i \in DOMAIN chains :
               /\ chains[i] = FirstOf(chains, set) /\ chains[i] \in set
               /\ \A j \in DOMAIN chains : chains[j] \in set => i <= j
<1> DEFINE T == {i \in DOMAIN chains : chains[i] \in set}
<1>1. T # {} /\ T \subseteq Nat
    BY DEF FirstOf
<1>2. \E i \in T : \A j \in T : i <= j
    BY <1>1, LeastExists
<1>3. \E i \in DOMAIN chains :
          chains[i] \in set /\ \A j \in DOMAIN chains : chains[j] \in set => i <= j
    BY <1>2
<1>4. QED
    BY <1>1, <1>3 DEF FirstOf

\* The chain agreed on is common to both sides, and no common chain is better.
LEMMA NegotiatedIsBest ==
    ASSUME NEW q \in Requests, chainFor(q) # NoChain
    PROVE  /\ chainFor(q) \in config.chains
           /\ \A j \in DOMAIN supported[q] :
                  supported[q][j] \in config.chains => ~Better(q, supported[q][j], chainFor(q))
<1> DEFINE list == supported[q]
           y == chainFor(q)
           common == Common(list, config.chains)
           set == Preferring(common, preferred[q], config.tokens)
<1>1. list \in Seq(Chains) /\ y = FirstOf(list, set)
    BY RequestsAssumption DEF chainFor, negotiateSettlementChain
<1> HIDE DEF set, y
<1>2. PICK i \in DOMAIN list : /\ list[i] = y /\ y \in set
                               /\ \A j \in DOMAIN list : list[j] \in set => i <= j
    BY <1>1, FirstIsFirst DEF y
<1>3. /\ set \subseteq common
      /\ \A x \in common : x \in DOMAIN preferred[q] => set = common \cap DOMAIN preferred[q]
      /\ \/ set = common \cap DOMAIN preferred[q]
         \/ /\ common \cap DOMAIN preferred[q] = {}
            /\ \/ set = common \cap DOMAIN config.tokens
               \/ common \cap DOMAIN config.tokens = {} /\ set = common
    BY DEF set, Preferring
<1>4. common \subseteq config.chains
    BY DEF Common
<1>5. ASSUME NEW k \in DOMAIN list, list[k] \in config.chains, Better(q, list[k], y)
      PROVE  FALSE
  <2> DEFINE x == list[k]
  <2>1. x \in common
      BY <1>5 DEF Common
  <2> DEFINE Before == \E n \in DOMAIN list : list[n] = x /\ \A j \in 1..n : list[j] # y
             Prefers(c) == c \in DOMAIN preferred[q]
             Accepts(c) == c \in DOMAIN config.tokens
  <2>2. \/ Prefers(x) /\ ~Prefers(y)
        \/ /\ Prefers(x) <=> Prefers(y)
           /\ Prefers(x) \/ (Accepts(x) <=> Accepts(y))
           /\ Before
        \/ ~Prefers(x) /\ ~Prefers(y) /\ Accepts(x) /\ ~Accepts(y)
      BY <1>5 DEF Better
  <2>3. ASSUME Before, x \in set PROVE FALSE
    <3>1. PICK n \in DOMAIN list : list[n] = x /\ \A j \in 1..n : list[j] # y
        BY <2>3
    <3>2. i <= n /\ i \in Nat \ {0} /\ n \in Nat
        BY <1>1, <1>2, <2>3, <3>1
    <3>3. QED
        BY <1>2, <3>1, <3>2
  <2> HIDE DEF Before, x, common
  <2>4. QED
      BY <1>2, <1>3, <2>1, <2>2, <2>3
<1>6. QED
    BY <1>2, <1>3, <1>4, <1>5 DEF y

\* Every channel is on the terms agreed on for its request.
TermsInv ==
    \A i \in DOMAIN channels :
        LET c == channels[i] IN
        /\ c.of \in Requests /\ c.chain = chainFor(c.of) /\ c.token = tokenFor(c.of)
        /\ c.chain \in addresses[c.of]

\* A step leaves the channels what they are, opens one, or adds one.
LEMMA ChannelSteps ==
    ASSUME SpspInv, [SpspNext]_spspVars
    PROVE  /\ UNCHANGED config
           /\ \/ UNCHANGED channels
              \/ \E q \in Requests : /\ tasks[q].at = "opening"
                                     /\ channels' = Append(channels, NewChannel(q))
              \/ \E i \in DOMAIN channels : ChannelOpens(i)
<1>1. CASE \E q \in Requests : ClientStep(q)
    BY <1>1 DEF ClientStep, requestSpspInfo, Reach, Publish, PublishRejected, Subscribe, OnAnswer,
                Timeout, settle
<1>2. CASE handleSpspRequests \/ Stop
    BY <1>2 DEF handleSpspRequests, Stop, ServerFrame
<1>3. ASSUME NEW q \in Requests, processRequest(q) PROVE UNCHANGED <<config, channels>>
    BY <1>3 DEF processRequest, Serve, ServerFrame
<1>4. ASSUME NEW q \in Requests, PollsOpen(q) \/ PollsEnd(q) PROVE UNCHANGED <<config, channels>>
    BY <1>4 DEF PollsOpen, PollsEnd, ServerFrame
<1>5. ASSUME NEW q \in Requests, openChannel(q)
      PROVE  /\ UNCHANGED config
             /\ \/ UNCHANGED channels
                \/ /\ tasks[q].at = "opening"
                   /\ channels' = Append(channels, NewChannel(q))
    BY <1>5 DEF openChannel, ServerFrame
<1>6. CASE \E r \in Relays, a \in sent : AnswerArrives(r, a)
    BY <1>6 DEF AnswerArrives
<1>7. CASE \E i \in DOMAIN channels : ChannelOpens(i)
    BY <1>7 DEF ChannelOpens
<1>8. CASE UNCHANGED spspVars
    BY <1>8 DEF spspVars
<1>9. QED
    BY <1>1, <1>2, <1>3, <1>4, <1>5, <1>6, <1>7, <1>8 DEF SpspNext, ServerStep, TaskStep

\* So the terms of a channel are those agreed on, and stay.
LEMMA TermsStep == SpspInv /\ TermsInv /\ [SpspNext]_spspVars => TermsInv'
<1> SUFFICES ASSUME SpspInv, TermsInv, [SpspNext]_spspVars PROVE TermsInv'
    OBVIOUS
<1>1. UNCHANGED config /\ \A q \in Requests : chainFor(q)' = chainFor(q) /\ tokenFor(q)' = tokenFor(q)
    BY ChannelSteps, SameTerms
<1>2. channels \in Seq(Channel)
    BY DEF SpspInv, SpspTypeOK
<1>3. CASE UNCHANGED channels
    BY <1>1, <1>3 DEF TermsInv
<1>4. ASSUME NEW q \in Requests, tasks[q].at = "opening",
             channels' = Append(channels, NewChannel(q))
      PROVE  TermsInv'
  <2> DEFINE n == NewChannel(q)
  <2>1. n.of = q /\ n.chain = chainFor(q) /\ n.token = tokenFor(q) /\ n.chain \in addresses[q]
      BY <1>4 DEF NewChannel, SpspInv, TaskInv
  <2> HIDE DEF n
  <2>2. \A i \in DOMAIN channels' : (i \in DOMAIN channels /\ channels'[i] = channels[i])
                                    \/ channels'[i] = n
      BY <1>2, <1>4 DEF n
  <2>3. QED
      BY <1>1, <2>1, <2>2 DEF TermsInv
<1>5. ASSUME NEW i \in DOMAIN channels, ChannelOpens(i) PROVE TermsInv'
  <2>1. channels' = [channels EXCEPT ![i].opened = TRUE]
      BY <1>5 DEF ChannelOpens
  <2>2. DOMAIN channels' = DOMAIN channels
      BY <2>1
  <2>3. \A j \in DOMAIN channels : channels[j] \in Channel
      BY <1>2
  <2>4. \A j \in DOMAIN channels :
            /\ channels'[j].of = channels[j].of /\ channels'[j].chain = channels[j].chain
            /\ channels'[j].token = channels[j].token
      BY <2>1, <2>3 DEF Channel
  <2>5. QED
      BY <1>1, <2>2, <2>4 DEF TermsInv
<1>6. QED
    BY <1>3, <1>4, <1>5, ChannelSteps

\* Whichever life of the server opens a channel, and however often, it is on the
\* best chain both sides support, and for the token they prefer there.
THEOREM ChannelsAreNegotiated == SpspSpec => []ChannelsNegotiated
<1>1. SpspInit => TermsInv
    BY DEF SpspInit, TermsInv
<1>2. SpspInv /\ TermsInv => ChannelsNegotiated
  <2> SUFFICES ASSUME SpspInv, TermsInv, NEW i \in DOMAIN channels,
                      NEW c, c = channels[i]
               PROVE  /\ c.chain \in config.chains \cap addresses[c.of]
                      /\ \A j \in DOMAIN supported[c.of] :
                             supported[c.of][j] \in config.chains
                             => ~Better(c.of, supported[c.of][j], c.chain)
                      /\ IF c.chain \in DOMAIN preferred[c.of]
                         THEN c.token = preferred[c.of][c.chain]
                         ELSE IF c.chain \in DOMAIN config.tokens
                         THEN c.token = config.tokens[c.chain]
                         ELSE c.token = NoToken
      BY DEF ChannelsNegotiated
  <2>1. /\ c.of \in Requests /\ c.chain = chainFor(c.of) /\ c.token = tokenFor(c.of)
        /\ c.chain \in addresses[c.of]
      BY DEF TermsInv
  <2>2. c.chain # NoChain
      BY <2>1, RequestsAssumption
  <2>3. QED
      BY <2>1, <2>2, NegotiatedIsBest DEF tokenFor, resolveTokenForChain
<1>3. QED
    BY <1>1, <1>2, InitInv, StepInv, TermsStep, PTL DEF SpspSpec
===============================================================================
