----------------------------- MODULE StoreQueries -----------------------------
(***************************************************************************)
(* What an EventStore answers: matchFilter and the in-memory store, and    *)
(* the SQL that SqliteEventStore builds from a list of filters, in         *)
(* packages/relay and packages/bls alike.                                  *)
(*                                                                         *)
(* Ids and pubkeys are whole ones: the code also takes prefixes.           *)
(***************************************************************************)
EXTENDS EventStore, FiniteSets

CONSTANT FilterLists       \* the lists of filters that are asked

\* A filter; {} means that the field is missing (an empty list of ids, authors,
\* kinds or tag values is treated as a missing one).  dTags is its "#d".
Filter == [ids : SUBSET Nat, authors : SUBSET Authors, kinds : SUBSET Nat,
           dTags : SUBSET DTags,
           since : SUBSET Nat, until : SUBSET Nat, limit : SUBSET Nat]

ASSUME FiltersAssumption == FilterLists \subseteq Seq(Filter)

InTime(e, f) == (\A t \in f.since : e.created_at >= t) /\ (\A t \in f.until : e.created_at <= t)

MatchesFields(e, f) ==
    /\ f.ids # {} => e.id \in f.ids
    /\ f.authors # {} => e.pubkey \in f.authors
    /\ f.kinds # {} => e.kind \in f.kinds
    /\ InTime(e, f)

matchFilter(e, f) ==
    /\ MatchesFields(e, f)
    /\ f.dTags # {} => \E i \in DOMAIN e.d : e.d[i] \in f.dTags

-------------------------------------------------------------------------------
\* SqliteEventStore

HasCondition(f) == \/ {} # f.ids \cup f.authors \cup f.kinds
                   \/ {} # f.since \cup f.until
                   \/ {} # f.dTags

\* A tag is found by the pattern that store uses too.
MatchesCondition(e, f) ==
    /\ MatchesFields(e, f)
    /\ f.dTags # {} => \E i \in DOMAIN e.d : \E v \in f.dTags : <<v, e.d[i]>> \in Like

\* Mutation of buildQuerySql: the filters are joined with AND.
buildQueryAll(filters) ==
    {e \in rows : \A i \in DOMAIN filters : MatchesCondition(e, filters[i])}

\* A filter without a condition adds no condition to the query, instead of one
\* that always holds; the query has no WHERE clause only if no filter adds one.
buildQuerySql(filters) ==
    LET conditions == {i \in DOMAIN filters : HasCondition(filters[i])} IN
    {e \in rows : conditions = {} \/ \E i \in conditions : MatchesCondition(e, filters[i])}

-------------------------------------------------------------------------------
\* Limits, of both stores

\* The limit of the first filter that has one holds for the whole query.
Limits(filters) ==
    {n \in UNION {filters[i].limit : i \in DOMAIN filters} :
        \E i \in DOMAIN filters : /\ n \in filters[i].limit
                                  /\ \A j \in 1..(i - 1) : filters[j].limit = {}}

\* Mutation of Limited: the limit cuts before the events are sorted.
LimitedUnsorted(found, filters) ==
    {kept \in SUBSET found :
        /\ \A n \in Limits(filters) :
               Cardinality(kept) = IF Cardinality(found) < n THEN Cardinality(found) ELSE n
        /\ Limits(filters) = {} => kept = found}

\* Newest first: what a limit cuts off is none newer than what it leaves; which
\* of the events of one second it leaves is up to the store.
Limited(found, filters) ==
    {kept \in SUBSET found :
        /\ \A n \in Limits(filters) :
               Cardinality(kept) = IF Cardinality(found) < n THEN Cardinality(found) ELSE n
        /\ Limits(filters) = {} => kept = found
        /\ \A e \in kept, f \in found \ kept : e.created_at >= f.created_at}

query(filters) == Limited(buildQuerySql(filters), filters)

-------------------------------------------------------------------------------
\* InMemoryEventStore, holding the given events

MatchingAny(held, filters) ==
    {e \in held : filters = <<>> \/ \E i \in DOMAIN filters : matchFilter(e, filters[i])}

queryMemory(held, filters) == Limited(MatchingAny(held, filters), filters)
===============================================================================
