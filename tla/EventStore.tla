------------------------------ MODULE EventStore ------------------------------
(***************************************************************************)
(* SqliteEventStore (packages/relay/src/storage/SqliteEventStore.ts, and   *)
(* its copy in packages/bls): the table of events every connection of the  *)
(* relay and every paid write shares.                                      *)
(*                                                                         *)
(* Events arrive in any order and any number of times: from several        *)
(* clients, from the payment handler, again after a lost acknowledgement.  *)
(* A call to store is synchronous, and its delete and insert are one       *)
(* transaction, so each call is one action here; BlsServer has the steps   *)
(* of the transaction, which a kill may part.                              *)
(***************************************************************************)
EXTENDS Integers, Sequences

CONSTANTS
    Authors,   \* public keys
    DTags,     \* values of "d" tags other than the empty one
    NoTag,     \* the empty value, and that of an event without "d" tag
    Events,    \* the events that may be submitted
    Like       \* <<v, w>>: the pattern built from v finds w in a stored row

Event == [id : Nat, pubkey : Authors, kind : Nat, d : Seq(DTags \cup {NoTag}),
          created_at : Nat, content : Nat]

\* Rows are looked up by a LIKE pattern that is case-insensitive, has wildcards,
\* and misses values JSON must escape, so nothing is assumed of it.
ASSUME EventsAssumption == Events \subseteq Event
ASSUME TagsAssumption == NoTag \notin DTags

\* An id is the hash of its event, where somebody has checked that: the store
\* takes any event it is given.
IdsAreHashes(some) == \A e, f \in some : e.id = f.id => e = f

VARIABLES
    rows,      \* the table
    submitted  \* history: events whose store has returned

storeVars == <<rows, submitted>>

\* The table holds submitted events as they were sent, never altered ones.
StoreTypeOK == rows \subseteq Events /\ submitted \subseteq Events

StoreInit == rows = {} /\ submitted = {}

-------------------------------------------------------------------------------
isReplaceableKind(k) == k >= 10000 /\ k <= 19999
isParameterizedReplaceableKind(k) == k >= 30000 /\ k <= 39999
isRegularKind(k) == ~isReplaceableKind(k) /\ ~isParameterizedReplaceableKind(k)

\* The first "d" tag counts.
getDTagValue(e) == IF e.d = <<>> THEN NoTag ELSE e.d[1]

Newer(e, f) ==
    \/ e.created_at > f.created_at
    \/ e.created_at = f.created_at /\ e.id < f.id

\* INSERT OR REPLACE: the id is the primary key, so a row of that id goes.
Put(e, table) == {r \in table : r.id # e.id} \cup {e}

\* INSERT OR IGNORE: nothing happens if there is a row of that id.
storeRegular(e) ==
    /\ isRegularKind(e.kind)
    /\ rows' = IF \E r \in rows : r.id = e.id THEN rows ELSE rows \cup {e}

FoundByKind(e) == {r \in rows : r.pubkey = e.pubkey /\ r.kind = e.kind}

\* Rows with an empty or missing tag are found by parsing every candidate; the
\* others by a pattern, which may hit any "d" tag of a row.
FoundByTag(e) ==
    {r \in FoundByKind(e) :
        IF getDTagValue(e) = NoTag
        THEN getDTagValue(r) = NoTag
        ELSE \E i \in DOMAIN r.d : <<getDTagValue(e), r.d[i]>> \in Like}

\* Mutation of Found: the tag is not looked at.
FoundAnyTag(e) == FoundByKind(e)

\* What the SELECT for a replaceable event may answer; the first row decides.
Found(e) == IF isReplaceableKind(e.kind) THEN FoundByKind(e) ELSE FoundByTag(e)

\* Mutation of Deleted: nothing is.
DeletedNone(e, existing) == {}

\* What the DELETE takes: every row of the author and kind, or the one found.
Deleted(e, existing) == IF isReplaceableKind(e.kind) THEN FoundByKind(e) ELSE {existing}

\* Mutation of MayReplace: the last one to arrive wins.
MayReplaceAlways(e, existing) == TRUE

MayReplace(e, existing) == Newer(e, existing)

\* No row is found: the event is inserted.  The one found is newer: it stays.
storeAlone(e) ==
    /\ ~isRegularKind(e.kind)
    /\ \/ Found(e) = {} /\ rows' = Put(e, rows)
       \/ /\ \E existing \in Found(e) : ~MayReplace(e, existing)
          /\ UNCHANGED rows

\* The row found is older: DELETE and INSERT, in one transaction.
storeInPlace(e) ==
    /\ ~isRegularKind(e.kind)
    /\ \E existing \in Found(e) :
           /\ MayReplace(e, existing)
           /\ rows' = Put(e, rows \ Deleted(e, existing))

Stored(e) == submitted' = submitted \cup {e}

store(e) == (storeRegular(e) \/ storeAlone(e) \/ storeInPlace(e)) /\ Stored(e)

StoreNext == \E e \in Events : store(e)

StoreSpec == StoreInit /\ [][StoreNext]_storeVars

-------------------------------------------------------------------------------
\* Events that replace one another.
SameAddress(e, f) ==
    /\ e.pubkey = f.pubkey /\ e.kind = f.kind
    /\ isParameterizedReplaceableKind(e.kind) => getDTagValue(e) = getDTagValue(f)

\* Where ids are hashes: the row that stands for event f is the newest submitted at
\* f's address, and the only one there, whatever the order of the submissions.
LatestKeptFor(f) ==
    \E e \in rows :
        /\ SameAddress(e, f)
        /\ \A g \in submitted : SameAddress(g, f) => g = e \/ (Newer(e, g) /\ g \notin rows)

\* Line 175: only keeps the latest event per pubkey+kind.
ReplaceableLatest ==
    \A f \in submitted : isReplaceableKind(f.kind) => LatestKeptFor(f)

\* Line 227: only keeps the latest event per pubkey+kind+d-tag.
ParameterizedLatest ==
    \A f \in submitted : isParameterizedReplaceableKind(f.kind) => LatestKeptFor(f)

\* Whatever the patterns hit, where ids are hashes, an event that was stored and is not in the table
\* had to make way for a newer one of its author and kind; regular events, and
\* the newest event of an author and kind, are never lost.
LostOnlyToNewer ==
    \A e \in submitted \ rows :
        /\ ~isRegularKind(e.kind)
        /\ \E f \in submitted : /\ f.pubkey = e.pubkey /\ f.kind = e.kind
                                /\ Newer(f, e)
===============================================================================
