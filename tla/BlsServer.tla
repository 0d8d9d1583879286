------------------------------- MODULE BlsServer -------------------------------
(***************************************************************************)
(* The standalone BLS process (packages/bls: entrypoint.ts, config.ts,     *)
(* BusinessLogicServer, and createEventStore with its two stores): started *)
(* with whatever environment and data directory its container has, it      *)
(* takes paid writes until it is stopped or killed, and starts again.      *)
(*                                                                         *)
(* rows is the database file, which no start clears; events is the Map of  *)
(* an in-memory store, which no stop survives.  Every request is served    *)
(* synchronously, but its statements reach the file one by one, and the    *)
(* process may be killed between any two; a single statement is a          *)
(* transaction of its own.  A payer whose answer is lost pays again: an    *)
(* event may be stored any number of times.                                *)
(***************************************************************************)
EXTENDS StoreQueries, Pricing

CONSTANTS
    Environments,   \* what the process may be started with
    Amounts,        \* what packets pay
    Bytes,          \* length of each event in TOON
    MaxVolatile     \* bound: events an in-memory store is given in one life

\* Of each pricing setting there are three variables.
ASSUME EnvironmentsAssumption ==
    \A e \in Environments : \A vars \in {e.base, e.overrides} :
        vars = [bls |-> vars.bls, relay |-> vars.relay, plain |-> vars.plain]

\* The handler refuses an event whose id or signature is wrong.
ASSUME SignatureAssumption == IdsAreHashes(Events)

VARIABLES
    mode,     \* "down", or the store of the running process: "sqlite", "memory"
    env,      \* the environment of the last start
    prices,   \* the prices in force
    events,   \* the Map of the in-memory store
    tx        \* the open transaction: {}, or {[event, the table it sees]}

blsVars == <<storeVars, mode, env, prices, events, tx>>

BlsInit ==
    /\ StoreInit
    /\ mode = "down" /\ env \in Environments /\ prices = {} /\ events = {}
    /\ tx = {}

-------------------------------------------------------------------------------
\* Missing or malformed NODE_ID, keys, ILP address or port: nothing is loaded.
loadBlsConfigFromEnv(e) == IF e.identityValid THEN loadPrices(e) ELSE {}

createEventStore(e) ==
    IF e.dataDirExists /\ e.dataDirWritable THEN "sqlite" ELSE "memory"

\* The schema is created IF NOT EXISTS; what a killed transaction wrote is rolled back.
OpenDatabase == UNCHANGED storeVars

\* A process whose configuration is in error exits at once.
Start ==
    /\ mode = "down"
    /\ \E e \in Environments :
           /\ env' = e
           /\ \E p \in loadBlsConfigFromEnv(e) : prices' = {p}
           /\ mode' = createEventStore(e)
    /\ OpenDatabase
    /\ UNCHANGED <<events, tx>>

\* A shutdown between requests, or a kill at any moment.
Stop ==
    /\ mode # "down"
    /\ mode' = "down" /\ prices' = {} /\ events' = {} /\ tx' = {}
    /\ UNCHANGED <<storeVars, env>>

-------------------------------------------------------------------------------
\* SqliteEventStore of packages/bls has the code of packages/relay's.

\* Mutation of Replace: without a transaction, each statement is one of its own.
ReplaceAtOnce(e, existing) ==
    /\ tx' = {[event |-> e, table |-> rows \ Deleted(e, existing)]}
    /\ rows' = rows \ Deleted(e, existing)
    /\ UNCHANGED submitted

\* The transaction of storeInPlace begins, with its DELETE.
Replace(e, existing) ==
    /\ tx' = {[event |-> e, table |-> rows \ Deleted(e, existing)]}
    /\ UNCHANGED storeVars

\* The INSERT of that transaction, and its commit.  (A kill between the two is like
\* one before both.)
Commit ==
    \E t \in tx :
        /\ rows' = Put(t.event, t.table)
        /\ Stored(t.event)
        /\ tx' = {}
        /\ UNCHANGED <<mode, env, prices, events>>

storeSqlite(e) ==
    /\ \/ (storeRegular(e) \/ storeAlone(e)) /\ Stored(e) /\ UNCHANGED tx
       \/ /\ ~isRegularKind(e.kind)
          /\ \E existing \in Found(e) : MayReplace(e, existing) /\ Replace(e, existing)
    /\ UNCHANGED events

\* InMemoryEventStore keeps whatever it is given.
storeMemory(e) ==
    /\ e \in events \/ Cardinality(events) < MaxVolatile
    /\ events' = events \cup {e}
    /\ UNCHANGED <<storeVars, tx>>

\* The owner writes free of charge; others are refused if the amount falls short.
handlePayment(e, amount) ==
    /\ tx = {}
    /\ \/ e.pubkey \in env.owner
       \/ \E p \in prices : amount >= price(p, Bytes[e], e.kind)
    /\ \/ mode = "sqlite" /\ storeSqlite(e)
       \/ mode = "memory" /\ storeMemory(e)
    /\ UNCHANGED <<mode, env, prices>>

BlsNext == \/ Start
           \/ Stop
           \/ Commit
           \/ \E e \in Events, amount \in Amounts : handlePayment(e, amount)

BlsSpec == BlsInit /\ [][BlsNext]_blsVars

-------------------------------------------------------------------------------
\* What the store of the running process answers, and what it was given.
querySqlite(filters) == query(filters)
answer(filters) == IF mode = "sqlite" THEN querySqlite(filters)
                   ELSE queryMemory(events, filters)
Given == IF mode = "sqlite" THEN submitted ELSE events

\* Properties

\* SqliteEventStore across the lives of the process: however kills part the
\* statements of a replacement, and whatever lives lie between, the table goes
\* through the states of one store whose calls are whole: no row is seen deleted
\* whose replacement is not there, and nothing of a call is lost that was answered.
TableOutlivesProcess == StoreSpec

Replaced(e) ==
    /\ ~isRegularKind(e.kind)
    /\ \E f \in submitted : SameAddress(e, f) /\ Newer(f, e)

\* EventStore is one interface with two implementations: what the SQL one finds
\* is what the in-memory one would, given the same events in any order and any
\* number of times over any number of lives, less the replaced ones.  (For lists
\* of filters that each have a condition.)
StoresAgree ==
    \A filters \in FilterLists :
        (\A i \in DOMAIN filters : HasCondition(filters[i]))
        => buildQuerySql(filters) =
               {e \in MatchingAny(submitted, filters) : ~Replaced(e)}

\* What a peer asks of announcements: filters by author, kind and least age, each
\* of which a newer event of the same author and kind satisfies too.
AsksForNewest(filters) ==
    /\ Limits(filters) = {1}
    /\ \A i \in DOMAIN filters :
           /\ HasCondition(filters[i])
           /\ filters[i].ids = {} /\ filters[i].dTags = {} /\ filters[i].until = {}

\* Either store answers a request for the one newest event with one that no event
\* it was given is more recent than, although the in-memory store keeps every
\* version, the SQL one drops replaced events, and patterns may hit the wrong ones.
NewestServed ==
    \A filters \in FilterLists :
        (mode # "down" /\ AsksForNewest(filters))
        => \A found \in answer(filters), g \in MatchingAny(Given, filters) :
               \E e \in found : e.created_at >= g.created_at

\* config.ts lines 45 and 48: the BLS_ variable counts, else the RELAY_ one, else
\* the one without prefix.
Counted(vars) ==
    IF Truthy(vars.bls) THEN vars.bls
    ELSE IF Truthy(vars.relay) THEN vars.relay
    ELSE IF Truthy(vars.plain) THEN vars.plain ELSE unset

\* The exception: an empty BLS_ variable hides the RELAY_ one, and an empty one with
\* a prefix counts if nothing else does.
Blanked(vars) ==
    \/ vars.bls.is = "empty" /\ Truthy(vars.relay)
    \/ Counted(vars) = unset /\ Or(vars.bls, vars.relay).is = "empty"

\* The prices in force are those of a file that says what the variables that count
\* say, 10 if none does; blank variables make writes free, and overrides vanish.
PricesAsGiven ==
    \A p \in prices :
        <<p.basePricePerByte, p.kindOverrides>> \in loadPricingConfigFromFile(
            [is |-> "object",
             base |-> IF Blanked(env.base) THEN number(0)
                      ELSE Or(Counted(env.base), number(10)),
             overrides |-> IF Blanked(env.overrides) THEN unset
                           ELSE Counted(env.overrides)])
===============================================================================
