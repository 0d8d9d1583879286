# TLA+ models of the agent society node

The repository builds a node that is a Nostr relay with paid writes, a client of
other relays, and a peer in an Interledger network: it discovers peers from the
events they publish, registers them with a payment connector, opens settlement
channels by an SPSP handshake, and stores events for those who pay. This
directory models the parts of it that keep state and run concurrently, checks
them with TLC on small instances, and proves every invariant that the passing
runs check for all instances with TLAPS.

Paths below are relative to `packages/` unless they begin with `docker/` or
`docs/`.

## 1. The system

### Parts, state and operations

| Part | Source | State | Operations |
| --- | --- | --- | --- |
| Relay monitor | `core/src/bootstrap/RelayMonitor.ts` | newest timestamp of each peer, registered peers, one task per accepted event | `start`, event handler, `processEvent`, `unsubscribe` |
| Paid handshake | `core/src/spsp/IlpSpspClient.ts` | attempt of each request | `requestSpspInfo` with one retry |
| Bootstrap | `core/src/bootstrap/BootstrapService.ts` | phase, results, one query with socket and timer per peer | `bootstrap`: load, query, register, publish or handshake and announce |
| Social discovery | `core/src/discovery/SocialPeerDiscovery.ts` | previous follows, peered set, one task per follow list | `start`, follow list handler, `handleNewFollow`, `handleUnfollow` |
| Event store | `relay/src/storage/SqliteEventStore.ts`, copy in `bls`; `InMemoryEventStore.ts`, `createEventStore.ts` | table of events, or a map of them | `store`, `query` |
| Filters | `relay/src/filters/matchFilter.ts` | none | `matchFilter` |
| Relay server | `relay/src/websocket/*.ts` | map of handlers, subscriptions of each | connect, REQ, EVENT, CLOSE, close, `stop` |
| Paid writes | `bls/src/bls/BusinessLogicServer.ts`, `bls/src/pricing` | the event store | `handlePayment` |
| BLS process | `bls/src/entrypoint.ts`, `bls/src/config.ts` | the store and the prices it was started with | start, `shutdown` |
| SPSP over Nostr | `core/src/spsp/NostrSpsp*.ts`, `settlement.ts` | pending request; channel being polled | `requestSpspInfo`, `processRequest`, `negotiateSettlement` |
| Trust | `core/src/trust/*.ts` | none (queries) | distance, mutual followers, score, credit limit |
| Peer sources | `GenesisPeerLoader.ts`, `ArDrivePeerRegistry.ts` | cache | load, fetch, publish |
| Codec, parsers, builders | `toon/`, `core/src/events/` | none | pure |
| Node | `docker/src/entrypoint.ts` | wires the above | start order, shutdown |

External to the repository: the connector (peer table, admin API), the agent
runtime (sends ILP packets), other relays, and other nodes.

### How they interact

The node keeps one event store. The relay server reads and writes it for its
clients; paid writes reach it through `handlePayment`, which the connector
calls. Bootstrap runs once: it asks relays of known peers, writes peers to the
connector, and sends packets through the runtime. Its results are excluded from
the relay monitor, which then listens to the node's own relay and writes the
same connector table. Social discovery listens to follow lists and writes that
table, too. None of the three writers knows of the others. A separate server
answers SPSP requests that come over Nostr. Given a settlement configuration it
has the connector open channels for them; `docker/src/entrypoint.ts` builds it
without one (536-539), so the server of that node answers without settlement and
opens none. The BLS also exists as a process of its own, with a table that
outlives it; the node's table does not outlive the node.

Everything runs on one event loop: code between two awaits is atomic, and
anything may run at an await. The hard behaviour is there: tasks nobody waits
for, sets that are read before an await and written after it, calls whose effect
and whose answer are different moments (an answer may be lost, and two calls may
take effect in another order than they were made), callbacks that outlive the
query they belong to, and exceptions and rejections that nobody catches, each of
which ends the process: no part of it handles `uncaughtException`, and Node ends
on an unhandled rejection. `PROJECT.json` lists these hazards with the line
where each bites, and the properties that cover it.

### What makes each part correct

- Monitor: no row that its peer did not announce, no channel from another
  event's handshake, no excluded peer touched; at most one payment per
  hand-over; every task ends; a registered peer is routable; one registration
  until a leave; a leave is obeyed.
- Store: for each address exactly the newest event, whatever the order, if ids
  are the hashes of their events; nothing lost but to something newer, nor by a
  kill in the middle of a replacement; both implementations answer alike.
- Relay: limits, no slot leaked, acknowledged and paid events kept (but for
  events that share an id with another), queries find what matches.
- Prices: what was configured is what is charged.
- Bootstrap: every query answered, by the first of its callbacks; the connector
  has nobody but peers that answered, and no channel but theirs; own information
  offered once to each peer; it ends, and ready unless its process ends.
- Social discovery: only peers that answered a handshake; one failing follow
  does not block another; set, connector and follow list agree where nothing
  interfered; every list is served to the end.
- SPSP: channels on terms both sides stated; an answer names a channel that is
  open; one channel per request and life; every call and every negotiation ends.
- Trust: a score that the follow graph justifies although it changes while it is
  read.
- Node: the right peers to begin with; the writers of the connector do not undo
  each other but where the code lets them; what its relay holds is served.

## 2. Modules

| Module | What it is |
| --- | --- |
| `RelayMonitor` | the monitor and the paid handshake, with connector and runtime as environment |
| `PeerDirectory` | what the monitor promises: announced peers end up listed, leaving peers unlisted |
| `EventStore` | the table of events; `BlsServer` is checked to implement it over its lives |
| `StoreQueries` | extends it with filters and the queries of both stores |
| `NostrRelay` | extends that with relay server, connection handlers and paid writes |
| `Pricing` | prices and their configuration, as operators |
| `BlsServer` | composes `StoreQueries` and `Pricing`: the BLS process, life after life |
| `Bootstrap` | `bootstrap()` and the callbacks of its queries |
| `PeerSources` | where known peers come from, as operators |
| `SocialDiscovery` | follow lists served by overlapping tasks |
| `AgentNode` | composes `RelayMonitor` and `PeerSources` with relay, bootstrap and social discovery in one process that may be killed |
| `Settlement` | choice of chain and token, as operators |
| `SpspExchange` | client, relays, server and connector of the SPSP exchange |
| `SocialTrust` | the search of the follow graph, scores and credit |
| `NodeProofs` | proofs about `RelayMonitor` and `AgentNode` |
| `EventStoreProofs` | proofs about `EventStore` and `StoreQueries` |
| other `*Proofs` | proofs about the module they are named for |
| `MC*` | instances for TLC |

### Correspondence

**RelayMonitor.** A task is `<<peer, created_at>>`: the handler accepts only
strictly newer events, so each accepted event has its own. `pc` is the await the
task is at. The handler and the part of `processEvent` before its first await
are one action, since nothing runs in between: `OnLeaveKnown`, `OnLeaveUnknown`,
`OnInfoKnown` and `OnInfoNew` are its four outcomes. Each further action runs
from one answer to the next await. The connector's effect (`ConnectorAdds`,
`ConnectorRemoves`) and the answer's arrival are separate steps, which is what
allows effects to be reordered. `ConnectorFaults` adds refusals and answers lost
after the effect. In `connector`, a row keeps the information it was given and
the stamp of the event whose handshake opened its channel. `charged` is a
history variable: packets that reached the peer. Content that is empty or does
not parse is `NoInfo`, as the code treats both alike. The amount of the
handshake is left out.

**EventStore, StoreQueries.** A row is an event. The store takes any event it is
given, so ids need not be hashes: `INSERT OR REPLACE` is `Put`, which takes the
row of the same id away, and regular events are inserted if there is no such
row. `IdsAreHashes` is what the results about newest events assume; whoever calls
the store after verifying the event provides it. A call is one action here, as
it is synchronous and its statements are one transaction; `BlsServer` takes the
transaction apart. An event's `d` is the sequence of `d`
tags; the first one counts, as in `getDTagValue`. SQLite's `LIKE` over the JSON
text of the tags is the relation `Like`, a parameter: which stored tags the
pattern built from a value finds. Several found rows are a choice, since SQLite
promises no order. `buildQuerySql` translates the SQL the code writes, including
that a filter without conditions adds none; `Limited` has the limit and the
order, a set of possible answers where created_at is equal. Of tag filters `#d`
is modelled; prefixes of ids and authors are not.

**NostrRelay.** Handlers are synchronous, so a message is one action. `ws` is
the state of the socket; `closing` is the time between `ws.close()` in `stop` and
the `close` event, when messages are still delivered and answers are not sent.
`handleEvent` stores what it is sent, `handlePayment` only events of `Verified`.
`Uncaught` is a message that makes the listener throw (an EVENT without id, a
filter whose fields are of other types): the process ends.

**Pricing, BlsServer.** A start reads an environment and finds or does not find
a data directory it can write: `mode` is the store it gets. `rows` is the
database file, `events` the in-memory map. A replacement is two steps, `Replace`
(the transaction begins and its DELETE is executed, in `tx`) and `Commit` (the
INSERT, and all of it becomes visible); `Stop` is a shutdown or a kill, also
between the two, which loses `tx`. A payer whose answer was lost pays again, so
events may be submitted any number of times. A variable holds a number, JSON,
nothing, or what parses as neither; loaders return a set, empty if they throw.

**Bootstrap, PeerSources.** One coroutine (`step`, `index`, `call`) and, per
peer, the socket, timer and promise of its query. The callbacks are enabled also
after the query is answered, since no listener is removed. `OnMalformed` (a frame
the listener cannot read) and `PublicationFails` (a rejection of the promise that
`publishOurInfo` does not wait for) end the process, `Crash`. Which of connector
client, runtime client, encoder and decoder the service was given is chosen in
`BootInit`. Events of a query are a set of stamps: the code sorts them by
`created_at`. Parsing fails for the stamps in `Unparseable`. Lists of peers are
merged as maps are, the later entry winning; `loadPeers` has the precedence of
the sources.

**SocialDiscovery.** One task per follow list, with the follows and unfollows it
has yet to serve. The order in which a list's follows are served is left open.
The answers of queries and SPSP requests touch no shared state, so they resume
the task in one step; calls to the connector take effect and return in two.
`disturbed` is a history variable: peers whose follow changed while an update
had yet to serve them, or whose connector call was answered otherwise than it
went. It delimits what `UndisturbedAgree` can promise.

**AgentNode.** `node` is where `main()` is. Each kill loses all but the rows in
the connector. Bootstrap is coarser here than in its own module, in that the
registration and the handshake of a peer are one step: no other part of the node
writes to the connector by then. A connector call that is in flight when the
process is killed has taken effect or never does. `stored`
is what the relay holds: of each author the newest announcement, and all events
of other kinds; `Store` is a paid write or a free EVENT message, neither of which
is verified in the container. The monitor's REQ asks for nothing in particular,
because its filter is wrapped in an array, so `ServeMonitor` sends it everything
that is stored when the relay serves it, and `Deliver` hands it over newest first
(`ORDER BY created_at DESC`); the client drops what does not verify, and `Handle`
takes what is no peer information for a leave, whatever its kind. Since the relay
does not push, nothing comes after that. `Follow` is all that social discovery
does to the connector: at any time, of any announced peer, and as often as may
be, since its REQ selects nothing either and its tasks overlap. The bootstrap
phases serve peers in any order.

**SpspExchange, Settlement.** A call hands its request to the pool for every
relay and goes on at once: `Promise.any` is given an array of promises for each
relay, and resolves with the first array. `Reach` is the fate of one
publication, reported as a success (`Publish`) or as a rejection that nobody
catches (`PublishRejected`), which ends the client's process and all its calls.
`calls` is the promise of each request, `held` and `answers` what relays store,
`incoming` what the server's subscription was brought, `tasks` one negotiation
per request id of this life. The client's `unsubscribe` after an answer is the
same as relays bringing it nothing more. A relay that does not push serves a REQ
at once or has nothing for it. `channels` grows by what `openChannel` had the
connector do, and a channel may open at any later moment, or never; polls see it
or give up.

**SocialTrust.** A search reads one follow list at a time (`lists` is what it
has read, `level` whom it asks next) while `Publish` changes the graph. `kept` is
what relays hold of all lists, superseded ones included, as this repository's
relay does for kind 3. A query of follows takes the newest list that arrives:
when relays fail it may be an older one (`Fails`). A query of followers finds
every author of any kept list that names the account. `ever` and `steady` are
history variables: the follows that existed at some moment of the computation or
were read from an older list, and those that stood throughout and that no query
missed. Scores are exact fractions.

## 3. Runs

| Run | Instance | Shows |
| --- | --- | --- |
| `MonitorConcurrent` | 2 peers (1 excluded), 2 stamps, 2 contents, faults, overtaking | type, grounded connector, bounded charges, every task ends |
| `MonitorSerial` | 1 peer, 4 stamps, 2 contents, no faults, no overtaking | acceptance criteria 6 and 7 of story 8.4, registered peers are routed, implements `PeerDirectory` with its liveness |
| `BlsStores` | 10 events: replaceable, parameterized, regular, both ends of kind ranges, equal stamps; 9 environments, 7 lists of filters | latest per address, nothing lost but to newer, the table implements `EventStore` with kills between statements, both stores agree, the newest is served, prices are those given |
| `RelayServer` | 2 clients, 1 connection slot, 1 subscription, 2 filters per subscription, 2 amounts around the prices, 4 verified events and 2 that borrow an id | type, limits, kept events, queries |
| `BootAll` | 3 known peers, 1 malformed, 2 stamps, 1 unparseable, every set of clients, frames that cannot be read, publications that fail | type, the query races, connector against results, one offer, termination |
| `SocialUpdates` | 2 contacts, 3 follow lists, 3 sets of options, faults | the properties of social discovery |
| `SpspExchange` | 2 requests, 2 relays (1 pushes), 2 chains, 2 tokens, 2 lives, 2 channels | negotiated, open and single channels; calls and negotiations end, the latter with an answer |
| `SocialTrust` | 5 accounts, 2 graphs, each with and without superseded lists, 2 changes, 1 failed query | distance and credit justified |
| `AgentNode` | the node and 1 peer, 3 verified events of the peer (one of another kind) and 1 that is not, 3 configurations of peers, 2 lives, faults | merged sources, serial delivery, kept channels, stored announcements are served |
| `MonitorDoubleRegistration`, `StoreAlikeTags`, `RelayNoPush` | small | the code does not do what a document or comment says (below) |

**Why these bounds.** Two stamps of one peer give every overlap of two tasks;
tasks of different peers share only the set and the table, each at its own peer,
so a second peer is there to be excluded. Four stamps, without overlap, give
announce, leave, announce, leave. Queries of different peers overlap in
`Bootstrap` only by late callbacks, for which one earlier peer is enough; a
third is skipped. A slot and a subscription of one, asked for twice, reach the
limits. A peer must be followed, unfollowed and followed again for its tasks to
interfere in every way, which three lists do, and two contacts are the least
with a pause between them. `MoreToCome` stops `start` and `unsubscribe` when no
list is left to come, after which they change nothing that matters. In
`BlsStores` an in-memory store is given at most `MaxVolatile` = 2 events per
life: enough for an older and a newer one of an address, in both orders, which
is all that its queries distinguish; the table takes any number. Two lives of
the SPSP server let a request be served again by the next one, and two channels
let each life open one for it. Two lives of a node let rows of the first meet
the second. Its own announcement has one stamp, as it only has to be skipped; a
second peer would share nothing with the first but the order in which the relay
sends events. The peer's announcement, its note and its newer announcement are
the least for which another kind of event comes between two announcements. Two
changes let a search lose a path at one end and find it at the other, one
failure lets an older list count or a list be missed, and the older lists name a
follower of both ends who is none any more, and a longer way. In `RelayServer`
one event borrows the id of a replaceable and one that of a regular event, once
for each kind of INSERT. The first call of `SpspExchange` goes to two relays, so
that one may take the request and the other refuse it; no call is made without
relays, which is refused at once. The configured maximum distance of 4 is above
the depth of 3 that the code searches.

**Deadlock** is not checked where the system comes to rest: bootstrap, trust
and exchanges end, events, lists and lives are bounded, and a stopped relay does
nothing. It is checked for `BlsStores`, where a start is always possible.

**Fairness.** The event loop runs every continuation and every due timer: weak
fairness of the tasks and of the timeouts. HTTP calls are answered or fail: the
client is `fetch`, which has time limits of its own and rejects on a lost
connection. Queries of social discovery and of trust end with the pool's time
limits, SPSP requests with their timeout, and closing sockets with `ws`'s close
timeout. In `SpspExchange` each publication of the client ends (the pool rejects
what a relay does not acknowledge in time), and so does each task of the server
while its process lives; one weak fairness for all of these steps together says
less than one for each, and is enough because each comes only so often.
`NodeFairness` is of the same kind: while the node's own relay has something to
send it, or a monitor task something to do, one of them goes on. No fairness is
assumed of peers, foreign relays, clients, payers or channels: sockets may stay
silent and channels closed for ever, no event is bound to arrive, no process
bound to start again. Trust has no liveness property, and so no fairness: its
search ends by the bound of its depth.

`SerialDelivery` (a peer's next event arrives when its last one is served) is an
assumption about the environment, not something the monitor enforces.
`DeliveredSerially` shows that the node as composed in `docker/` meets it: its
relay sends everything once, newest first, and the handler drops what is older
than the last event of its author, so that each author gets one task. With a
relay that pushes it would not (its mutant); `MonitorConcurrent` and
`MonitorDoubleRegistration` show what holds and what fails over a relay that
pushes. docs/stories/8.4.story.md:261 asks for sequential processing, which
would make it true anywhere.

### Disagreements

Each with a run that finds it:

1. *Double registration* (`RelayMonitor.ts:220`; 8.4.story.md:20). The set is
   written after `addPeer` is answered, so two announcements in quick succession
   register and pay twice. `MonitorDoubleRegistration`.
2. *Alike tags* (`SqliteEventStore.ts:263`, against its comment at line 227).
   Rows are found by a `LIKE` pattern over JSON text: a value that JSON escapes
   is never found, and case and wildcards confuse values. `StoreAlikeTags`.
3. *No push* (`ConnectionHandler.ts:125`; docs/ILP-GATED-RELAY.md:147). Stored
   events are never sent to open subscriptions. The node's own monitor subscribes
   to such a relay, so it sees what is stored at that moment alone, and nothing
   of what peers publish later. `RelayNoPush`.

Met while modelling, and allowed by the modules rather than run:

- A leave that arrives while `addPeer` is awaited does nothing, and the peer
  stays (`RelayMonitor.ts:182`; 8.4.story.md:21). `LeaveObeyed` therefore needs
  `SerialDelivery`.
- *Publications nobody waits for.* `pool.publish` returns an array of promises,
  and awaiting the array waits for none of them (`BootstrapService.ts:692`;
  `BootstrapService.test.ts:262`); `Promise.any` over such arrays resolves at
  once (`NostrSpspClient.ts:90`, against the `@throws` at line 58). The
  publication is under way when the caller goes on, and one that fails is a
  rejection that nobody catches, which ends the process (`PublicationFails`,
  `PublishRejected`).
- *Filters in an array.* `RelayMonitor.ts:122` and `SocialPeerDiscovery.ts:102`
  pass `[filter]` to `subscribeMany`, which takes one filter (as
  `NostrSpspServer.ts:73` gives it). The REQ then carries an array in place of a
  filter, no field of which is set: the relay sends all its events, of every
  author and kind, and the client lets all pass. Neither handler checks the
  kind. The monitor takes an author's newer event of any other kind for a leave,
  and skips the announcement that is older than it; social discovery takes any
  event with `p` tags, of any author, for a follow list. `SnapshotServed` says
  what is left: a served task for the announcement or for something of its
  author that is as new.
- *Events nobody verifies.* `handleEvent` (`ConnectionHandler.ts:120`), the BLS
  of `docker/` and the query of bootstrap check neither id nor signature. An
  event with the id of another takes the place of its row (`INSERT OR REPLACE`),
  or is acknowledged and not stored (`INSERT OR IGNORE`): the exception of
  `AcksKept`, and the reason why the results about newest events assume
  `IdsAreHashes`. An announcement that does not verify may stand in the table in
  place of the author's own: `SnapshotServed` excepts what was replaced.
- *Exceptions nobody catches.* A frame that is no JSON, or an event without id,
  from a relay that bootstrap asks (`BootstrapService.ts:566`, 570); an EVENT
  without id, or a filter with fields of other types, at the node's own relay
  (`ConnectionHandler.ts:121`, 102). Each ends the process (`OnMalformed`,
  `Uncaught`), which is why `BootstrapEnds` allows that end.
- *Followers of old.* The query of followers takes the authors of all lists that
  name an account (`SocialTrustManager.ts:68`), and this repository's relay
  keeps superseded lists, kind 3 being regular for it
  (`SqliteEventStore.ts:58`): who followed once counts for ever.
  `CreditJustified` bounds credit by the distance there was and by all kept
  lists.
- A payment for a replaceable event older than the stored one is fulfilled, and
  the event dropped (`BusinessLogicServer.ts:194`; docs/ILP-GATED-RELAY.md:123).
  `AcksKept` says so: a newer one is there.
- The search for a distance goes to the default depth of 3, not to the
  configured `maxSocialDistance` (`SocialTrustManager.ts:294`): a peer beyond it
  scores as if it were not connected.
- An empty filter beside others in one REQ finds nothing by itself, though it
  matches every event (`SqliteEventStore.ts:436`), and the limit of the first
  filter that has one cuts what all of them find (line 448). `StoresAgree`
  leaves such lists out, and `QueryMatchesAny` speaks of the lists of its
  instance, which has none, and of what is found before the limit.
- An empty `BLS_` price variable hides the `RELAY_` one beside it. An empty base
  price is then the number 0 and makes every write free; empty overrides are
  none (`Blanked` in `PricesAsGiven`).
- An ArDrive entry of a genesis peer replaces its relay by the node's own, where
  that peer is then asked for (`SourcesMerged`); the node's own entry in ArDrive
  is not left out, so a node may bootstrap with itself.
- Social discovery adds peers without settlement, over the row of a peer whose
  channel bootstrap or the monitor opened (`ChannelsKept` excepts them), and
  sends its SPSP requests to the node's own relay, where the servers of its
  peers do not listen.
- Peers that bootstrap returned without a row in the connector (it refused them)
  are excluded from the monitor all the same (`docker/src/entrypoint.ts:661`),
  and a restarted node has forgotten every stored event (line 481), while the
  connector keeps its rows. `SnapshotServed` excepts the former; the properties
  of `AgentNode` hold in each life.
- Each restart of the SPSP server serves stored requests again, and each retry
  of a client is a new request: a channel may be opened for every one of them.
  `OneChannelPerLife` counts per life and request.
- A bootstrap with a runtime client but without encoder announces itself to
  nobody (`OfferedOnce` states this exception); its handshake pays 0, which a
  relay that charges for SPSP requests refuses.
- The README of the repository calls writing paid, while the `EVENT` message
  stores for free, as its comment in `ConnectionHandler.ts` says.

## 4. Proofs

All for every value of the constants, under the named assumptions of the
modules, which TLC also evaluates. Every invariant that a passing run checks
is the conclusion of a theorem.

**Monitor, any interleaving and any faults** (`NodeProofs`).
`TypeCorrect`, `ChargesAreBounded`, `ConnectorIsGrounded`. The inductive
invariant `IndInv` adds `TaskInv` to the three: a task at an await has an
accepted stamp and an allowed peer; one that adds, handshakes or updates carries
information; one that awaits the runtime has been charged less often than it
handed over, and once it has an answer with content was charged at least once.
Without it a row could not be traced back to an announcement, nor a channel to a
packet.

**Monitor, without overtaking** (assumption `SerialDelivery`; faults allowed).
`SerialRouted`, `SerialRegistersOnce`, `SerialLeaveObeyed`. `SerialInv` says that
only the newest event of a peer can be in service, that a task's place agrees
with the registered set, that the newest event of a registered peer carries
information, and that whoever was registered and no longer is has deregistered
since.

**Refinement of the directory** (also without faults and with a connector that
can remove). `ImplementsDirectorySteps`: the initial state maps to the
directory's, every step to a step of it or none. `DirInv` says how far the table
lags behind the newest announcement: by the one call in flight.

**Node** (`NodeProofs`). `EventsComeSerially`, `ChannelsAreKept`,
`SourcesAreMerged`, over any number of lives, kills included.
`EventsComeSerially` is what `SerialDelivery` assumes of a monitor's
environment, as an invariant of the whole. `NodeInv` relates the parts: before
main() is ready the relay has no request of this node and the monitor no task
(`StageInv`); a peer has at most one task, and none while an event of it that is
as new is to be served (`OneTaskInv`); bootstrap and monitor never serve the
same peer, and a peer whose channel the monitor opened has a task that is past
opening it (`ChannelInv`). Kept channels depend on there being one task of each
peer: the leave that another kind of event is taken for finds nobody registered
(no task is ever `removing`), because whatever made a task for its author first
was newer. `SourcesAreMerged` states which of many entries, of three sources and
with duplicates and invalid ones among them, a peer is bootstrapped with. Its
lemmas speak of positions: the last valid entry of the configured list
(`LastIsKept`), the first of those that ArDrive lists (`FirstIsFetched`), and
the last of both sources (`LastOfBoth`); that there is a last one follows from
the well-foundedness of the natural numbers.

**Store** (`EventStoreProofs`). `StoreTypeCorrect` and, if ids are hashes
(`IdsAreHashes`), `ReplaceableIsLatest`, `ParameterizedIsLatest` (also assuming
`TagsExact`: patterns find exactly the rows with the tag, the assumption
disagreement 2 refutes for some tags) and `OnlyNewerDisplace` (for any
patterns). `LatestStep` is the heart: `Newer` is a strict total order on events,
so replacing the one row of an address by a newer event, or dropping an older
one, keeps the newest. `UniformMatching` relates the SQL of a query to
`matchFilter`, for the lists of filters that the code gets right (`Uniform`) and
patterns that find exactly the tag (`PatternsExact`).

**BLS process** (`BlsServerProofs`). `TableIsOneStore` is the refinement: with
kills between any two statements, any number of lives, any environments and any
mix of the two stores, the table takes the steps of one `EventStore` or none.
Its invariant is that the open transaction sees the table less what
`storeInPlace` deletes, so that `Commit` is that step and everything else a
stutter. The results about that store therefore hold across lives
(`LivesKeepLatest`, `LivesKeepLatestTag`, `LivesLoseToNewer`). `TheStoresAgree`
needs that a submitted event which nothing replaced is a row (`RowsUnreplaced`);
`NewestIsServed` holds for any patterns, because a newer event of the same
author and kind satisfies whatever such a request asks (`NewerMatches`).
`PricesAreAsGiven` goes through each of the precedences of `config.ts` for every
environment.

**Relay** (`NostrRelayProofs`, assuming finitely many clients).
`RelayTypeCorrect`, `LimitsAlwaysHold`, `AcksAreKept`, `QueriesMatchAny`, and
`HashedAcksAreKept`, which has no exception because it assumes `IdsAreHashes`.
`RelayInv` adds `FinitelyMany` (each connection's subscriptions are a finite set,
without which counting them means nothing) and `TableInv`, which ties what was
answered to what the store was given. Acknowledged events are traced through the
store: two replaceable rows of one author and kind are one (`OneEach`), so the
DELETE takes nothing but what the new event is newer than; a row leaves the table
only for a newer one of its author and kind or for one of its id (`RowsLeave`);
and the order is transitive, so the newest of a chain of replacements is still
there, or shares its id with another event.

**Bootstrap** (`BootstrapProofs`, assuming that of any events one is newest).
`BootTypeCorrect`, `QueriesAreAnswered`, `ConnectorFollowsResults` and
`EachIsOfferedOnce`. `BootInv` has three parts: `QueriesInv` (a query that has
begun has a socket and a timer, and is resolved exactly when its promise is),
`ResultsInv` (no two results are of one peer), and `LoopsInv`, one invariant for
each of the three loops, which says whom the loop has served by the present
index. The count of offers follows from `LoopsInv` alone, and only because
results are of different peers.

**SPSP** (`SpspExchangeProofs`). `SpspTypeCorrect`, `ChannelsAreFew`,
`SettlementsAreOpen`, `ChannelsAreNegotiated`. `SpspInv` follows an answer back:
what a client settles on was brought by a relay, what a relay holds was sent,
what was sent names a channel that a task had seen open (`AnswersInv`), and that
task polls a channel of its own request on the terms agreed (`TaskInv`). One
channel per life needs `LivesInv`: whose channel is of this life has a task
beyond opening one. `TermsInv` has every channel on the terms chosen for its
request, and `NegotiatedIsBest` says of that choice, for lists of any length,
that nothing common comes before it in the order of preferences; `LeastExists`
gives the first of the common chains that `FirstOf` chooses.

**Social discovery** (`SocialDiscoveryProofs`, any number of overlapping lists).
`SocialTypeCorrect`, `OnlyAnsweredPeers`, `FollowsAreTried`, `AgreeAtRest`. The
properties speak of peers at rest, so `SocialInv` has to say what becomes of them
on the way: a peer that two tasks serve is disturbed (`OneServer`); any other is
followed by one task (`FollowInv`: not in the set, and with the connector only if
the call in flight succeeded), unfollowed by one (`UnfollowInv`), or at rest
(`RestInv`). `ContinueInv` is the step all of it meets in: a task that is done
with one peer begins the next, or the unfollows.

**Trust** (`SocialTrustProofs`). `DistancesAreBounded`, `CreditIsJustified`, for
every graph, depth, weights and curve. `SearchInv` says what a search knows at a
depth: it has visited all that the follows that stood lead to in so many steps,
and nothing that the follows there ever were (with the older lists it was given)
do not. What a number of steps leads to is a recursive function; that it exists
(`ReachExists`) and what it bounds (`WithinBounded`, `WithinClosed`) is proved
by the least counterexample (`LeastNat`), in place of an induction. Credit then
follows from each score being monotone, as fractions multiplied out: a shorter
distance and more followers weigh no less (`TrustMonotone`), nor does their
square, nor a greater share of the range, rounded down (`LimitMonotone`).

**Only model-checked.** Liveness: `ProcessingEnds`, the liveness of
`PeerDirectory`, `BootstrapEnds`, `UpdatesEnd`, `ExchangesEnd` (with its conjunct
about steps), `SnapshotServed`. The prover has no support for fairness and `ENABLED`. The
three runs that expect a violation are refutations, which a small instance
settles.

## 5. Not modelled

| Part | Why |
| --- | --- |
| `NostrPeerDiscovery`, `discoverPeersViaRelay` | read-only queries that no part of the running node uses |
| `publishPeerInfo` of ArDrive | nothing calls it |
| `failed` phase of bootstrap | needs `loadPeers` to throw, which its sources do not |
| Prefixes of ids and authors, tags other than `#d` | the same matching over other fields |
| Encryption, secrets, accounts | values that are passed on |
| Most parsers, all builders, the TOON codec | pure; the modules take what they are given to parse or not, and lengths as parameters |
| `parseConfig` of the node, health endpoints, logging | no state that anything here depends on |
| Rounding of trust scores | scores are floating-point numbers in the code, fractions here |
| Demo | drives the packages with a mock connector |

What could still be done: a proof that `Bootstrap` and `SocialDiscovery`
implement the coarser steps that `AgentNode` takes for them.

## 6. Running

    tlc -workers 2 -config MonitorConcurrent.cfg MCRelayMonitor.tla
    tlapm NodeProofs.tla

Each configuration names the constants of its instance; `PROJECT.json` pairs
runs with modules. `AgentNode`, `SocialTrust`, `RelayServer` and `SpspExchange`
take one to three minutes each, the others about one or less; `NodeProofs`, the
longest of the proofs, takes two. The operators marked *Mutation of* in the
modules are wrong variants of the definition after them, each breaking the
property it is paired with in `PROJECT.json`; nothing else uses them.
