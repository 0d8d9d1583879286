--------------------------- MODULE EventStoreProofs ---------------------------
(***************************************************************************)
(* Proofs about EventStore, for every set of events and every order and    *)
(* number of submissions, and about its queries (StoreQueries).            *)
(***************************************************************************)
EXTENDS StoreQueries, TLAPS

ReplaceableKinds == {k \in Nat : isReplaceableKind(k)}
ParameterizedKinds == {k \in Nat : isParameterizedReplaceableKind(k)}

\* For the kinds of a set, the table keeps the newest event of each address.
LatestKept(K) == \A f \in submitted : f.kind \in K => LatestKeptFor(f)

StoreInv == StoreTypeOK /\ rows \subseteq submitted

\* Times and ids are integers, and kinds are naturals.
LEMMA EventParts ==
    \A e \in Events : e.created_at \in Int /\ e.id \in Int /\ e.kind \in Nat
BY EventsAssumption DEF Event

\* Newer orders all events but those that share an id.
LEMMA NewerTotal ==
    \A e, f \in Events : e.id = f.id \/ Newer(e, f) \/ Newer(f, e)
BY EventParts DEF Newer

\* So it orders all, if ids are hashes.
LEMMA NewerOrders ==
    ASSUME IdsAreHashes(Events)
    PROVE  \A e, f \in Events : e = f \/ Newer(e, f) \/ Newer(f, e)
BY NewerTotal DEF IdsAreHashes

\* Newer is a strict order of the events.
LEMMA NewerStrict ==
    /\ \A e, f \in Events : Newer(e, f) => ~Newer(f, e) /\ e # f
    /\ \A e, f, g \in Events : Newer(e, f) /\ Newer(f, g) => Newer(e, g)
BY EventParts DEF Newer

\* Having one address is an equivalence of events.
LEMMA SameAddressEquivalence ==
    /\ \A e \in Events : SameAddress(e, e)
    /\ \A e, f \in Events : SameAddress(e, f) => SameAddress(f, e)
    /\ \A e, f, g \in Events : SameAddress(e, f) /\ SameAddress(f, g) => SameAddress(e, g)
BY DEF SameAddress

\* Replacing the one row at an event's address, if the event is newer, keeps
\* the newest event of every address.
LEMMA LatestStep ==
    ASSUME IdsAreHashes(Events),
           StoreInv, NEW K, LatestKept(K), NEW e \in Events, e.kind \in K,
           submitted' = submitted \cup {e},
           \/ /\ {r \in rows : SameAddress(r, e)} = {}
              /\ rows' = rows \cup {e}
           \/ \E x \in rows : /\ SameAddress(x, e)
                              /\ rows' = IF Newer(e, x) THEN (rows \ {x}) \cup {e} ELSE rows
    PROVE  LatestKept(K)'
<1> USE DEF StoreInv, StoreTypeOK
<1>1. SUFFICES ASSUME NEW f \in submitted', f.kind \in K
               PROVE  \E r \in rows' :
                         /\ SameAddress(r, f)
                         /\ \A g \in submitted' : SameAddress(g, f) =>
                                g = r \/ (Newer(r, g) /\ g \notin rows')
    BY DEF LatestKept, LatestKeptFor
<1>2. f \in Events /\ submitted' \subseteq Events
    OBVIOUS
<1>3. CASE ~SameAddress(e, f)
  <2>1. f \in submitted
      BY <1>3, SameAddressEquivalence
  <2>2. PICK r \in rows : /\ SameAddress(r, f)
                          /\ \A g \in submitted : SameAddress(g, f) =>
                                 g = r \/ (Newer(r, g) /\ g \notin rows)
      BY <1>1, <2>1 DEF LatestKept, LatestKeptFor
  <2>3. ~SameAddress(r, e)
      BY <1>2, <1>3, <2>2, SameAddressEquivalence
  <2>4. r \in rows'
      BY <2>3
  <2>5. ASSUME NEW g \in submitted', SameAddress(g, f)
        PROVE  g = r \/ (Newer(r, g) /\ g \notin rows')
      BY <1>3, <2>2, <2>5
  <2>6. QED
      BY <2>2, <2>4, <2>5
<1>4. CASE SameAddress(e, f)
  <2>1. \A g \in Events : SameAddress(g, f) <=> SameAddress(g, e)
      BY <1>2, <1>4, SameAddressEquivalence
  <2>2. CASE {r \in rows : SameAddress(r, e)} = {} /\ rows' = rows \cup {e}
    <3>1. ASSUME NEW g \in submitted, SameAddress(g, e) PROVE FALSE
      <4>1. g.kind \in K
          BY <3>1 DEF SameAddress
      <4>2. PICK r \in rows : SameAddress(r, g)
          BY <4>1 DEF LatestKept, LatestKeptFor
      <4>3. SameAddress(r, e)
          BY <3>1, <4>2, SameAddressEquivalence
      <4>4. QED
          BY <2>2, <4>3
    <3>2. QED
        BY <1>4, <2>1, <2>2, <3>1
  <2>3. ASSUME NEW x \in rows, SameAddress(x, e),
               rows' = IF Newer(e, x) THEN (rows \ {x}) \cup {e} ELSE rows
        PROVE  \E r \in rows' :
                  /\ SameAddress(r, f)
                  /\ \A g \in submitted' : SameAddress(g, f) =>
                         g = r \/ (Newer(r, g) /\ g \notin rows')
    <3>1. x \in submitted /\ x.kind \in K /\ SameAddress(x, f)
        BY <2>1, <2>3 DEF SameAddress
    <3>2. PICK r \in rows : /\ SameAddress(r, x)
                            /\ \A g \in submitted : SameAddress(g, x) =>
                                   g = r \/ (Newer(r, g) /\ g \notin rows)
        BY <3>1 DEF LatestKept, LatestKeptFor
    <3>3. r = x
        BY <2>3, <3>1, <3>2, SameAddressEquivalence
    <3>4. \A g \in submitted : SameAddress(g, f) => g = x \/ (Newer(x, g) /\ g \notin rows)
        BY <1>2, <3>1, <3>2, <3>3, SameAddressEquivalence
    <3>5. CASE Newer(e, x)
      <4>1. e \in rows' /\ SameAddress(e, f)
          BY <1>4, <2>3, <3>5
      <4>2. ASSUME NEW g \in submitted', SameAddress(g, f), g # e
            PROVE  Newer(e, g) /\ g \notin rows'
          BY <2>3, <3>4, <3>5, <4>2, NewerStrict
      <4>3. QED
          BY <4>1, <4>2
    <3>6. CASE ~Newer(e, x)
      <4>1. e = x \/ (Newer(x, e) /\ e # x)
          BY <3>6, NewerOrders, NewerStrict
      <4>2. e # x => e \notin rows
        <5> SUFFICES ASSUME e # x, e \in rows PROVE FALSE
            OBVIOUS
        <5>1. e \in submitted /\ SameAddress(e, f)
            BY <1>4
        <5>2. QED
            BY <3>4, <5>1
      <4>3. QED
          BY <2>3, <3>1, <3>4, <3>6, <4>1, <4>2
    <3>7. QED
        BY <3>5, <3>6
  <2>4. QED
      BY <2>2, <2>3
<1>5. QED
    BY <1>3, <1>4

\* An event of another kind leaves the rows of these kinds alone.
LEMMA LatestOther ==
    ASSUME StoreInv, NEW K, LatestKept(K), NEW e \in Events, e.kind \notin K,
           submitted' = submitted \cup {e},
           \A r \in Events : r.kind # e.kind => (r \in rows' <=> r \in rows)
    PROVE  LatestKept(K)'
<1>1. SUFFICES ASSUME NEW f \in submitted', f.kind \in K
               PROVE  \E r \in rows' :
                         /\ SameAddress(r, f)
                         /\ \A g \in submitted' : SameAddress(g, f) =>
                                g = r \/ (Newer(r, g) /\ g \notin rows')
    BY DEF LatestKept, LatestKeptFor
<1>2. PICK r \in rows : /\ SameAddress(r, f)
                        /\ \A g \in submitted : SameAddress(g, f) =>
                               g = r \/ (Newer(r, g) /\ g \notin rows)
    BY <1>1 DEF LatestKept, LatestKeptFor
<1>3. \A g \in Events : SameAddress(g, f) => g.kind \in K /\ (g \in rows' <=> g \in rows)
    BY <1>1 DEF SameAddress
<1>4. QED
    BY <1>2, <1>3 DEF StoreInv, StoreTypeOK

\* The rows of one address under a set of kinds are one row.
LEMMA OneRow ==
    ASSUME StoreInv, NEW K, LatestKept(K), NEW x \in rows, x.kind \in K,
           NEW y \in rows, SameAddress(y, x)
    PROVE  y = x
<1>1. PICK r \in rows : \A g \in submitted : SameAddress(g, x) =>
                            g = r \/ (Newer(r, g) /\ g \notin rows)
    BY DEF StoreInv, LatestKept, LatestKeptFor
<1>2. QED
    BY <1>1, SameAddressEquivalence DEF StoreInv, StoreTypeOK

\* An insert evicts nothing but namesakes: if ids are hashes, nothing.
LEMMA PutAdds ==
    ASSUME IdsAreHashes(Events), NEW table \in SUBSET Events, NEW e \in Events
    PROVE  Put(e, table) = table \cup {e}
BY DEF Put, IdsAreHashes

\* Replacing a row evicts, besides it, the namesakes of the event alone.
LEMMA StoreEffectAny ==
    ASSUME StoreInv, NEW e \in Events, store(e)
    PROVE  /\ submitted' = submitted \cup {e}
           /\ StoreInv'
           /\ \/ /\ isRegularKind(e.kind)
                 /\ rows' = IF \E r \in rows : r.id = e.id THEN rows ELSE rows \cup {e}
              \/ /\ ~isRegularKind(e.kind) /\ Found(e) = {}
                 /\ rows' = Put(e, rows)
              \/ /\ ~isRegularKind(e.kind) /\ rows' = rows
                 /\ \E x \in Found(e) : ~Newer(e, x)
              \/ /\ ~isRegularKind(e.kind)
                 /\ \E x \in Found(e) : Newer(e, x) /\ rows' = Put(e, rows \ Deleted(e, x))
<1>1. submitted' = submitted \cup {e}
    BY DEF store, Stored
<1>2. CASE storeRegular(e)
    BY <1>1, <1>2 DEF storeRegular, StoreInv, StoreTypeOK
<1>3. CASE storeAlone(e)
    BY <1>1, <1>3 DEF storeAlone, MayReplace, Put, StoreInv, StoreTypeOK
<1>4. CASE storeInPlace(e)
    BY <1>1, <1>4 DEF storeInPlace, MayReplace, Put, StoreInv, StoreTypeOK
<1>5. QED
    BY <1>2, <1>3, <1>4 DEF store

\* What a call of store does to the table, by the kind of its event, if ids are
\* hashes.
LEMMA StoreEffect ==
    ASSUME IdsAreHashes(Events),
           StoreInv, LatestKept(ReplaceableKinds), NEW e \in Events, store(e)
    PROVE  /\ submitted' = submitted \cup {e}
           /\ StoreInv'
           /\ \A r \in Events : r.kind # e.kind => (r \in rows' <=> r \in rows)
           /\ \/ /\ isRegularKind(e.kind)
                 /\ rows' = rows \cup {e}
              \/ /\ isReplaceableKind(e.kind)
                 /\ {r \in rows : SameAddress(r, e)} = {}
                 /\ rows' = rows \cup {e}
              \/ /\ isReplaceableKind(e.kind)
                 /\ \E x \in rows :
                        /\ SameAddress(x, e)
                        /\ rows' = IF Newer(e, x) THEN (rows \ {x}) \cup {e} ELSE rows
              \/ /\ isParameterizedReplaceableKind(e.kind)
                 /\ FoundByTag(e) = {}
                 /\ rows' = rows \cup {e}
              \/ /\ isParameterizedReplaceableKind(e.kind)
                 /\ \E x \in FoundByTag(e) :
                        rows' = IF Newer(e, x) THEN (rows \ {x}) \cup {e} ELSE rows
<1>1. rows \subseteq Events /\ rows \subseteq submitted
    BY DEF StoreInv, StoreTypeOK
<1>2. submitted' = submitted \cup {e} /\ StoreInv'
    BY StoreEffectAny
<1>3. \A x \in rows : Put(e, rows) = rows \cup {e} /\ Put(e, rows \ {x}) = (rows \ {x}) \cup {e}
    BY <1>1, PutAdds
<1>4. Put(e, rows) = rows \cup {e}
    BY <1>1, PutAdds
<1>5. CASE isRegularKind(e.kind)
  <2>1. rows' = rows \cup {e}
    <3>1. rows' = IF \E r \in rows : r.id = e.id THEN rows ELSE rows \cup {e}
        BY <1>5, StoreEffectAny
    <3>2. \A r \in rows : r.id = e.id => r = e
        BY <1>1 DEF IdsAreHashes
    <3>3. QED
        BY <3>1, <3>2
  <2>2. QED
      BY <1>2, <1>5, <2>1
<1>6. CASE isReplaceableKind(e.kind)
  <2>1. /\ ~isParameterizedReplaceableKind(e.kind) /\ ~isRegularKind(e.kind)
        /\ e.kind \in ReplaceableKinds
      BY <1>6, EventParts DEF isReplaceableKind, isRegularKind, isParameterizedReplaceableKind,
                              ReplaceableKinds
  <2>2. /\ Found(e) = {r \in rows : SameAddress(r, e)}
        /\ \A x : Deleted(e, x) = Found(e)
      BY <1>6, <2>1 DEF Found, FoundByKind, Deleted, SameAddress
  <2>3. ASSUME NEW x \in Found(e) PROVE Found(e) = {x} /\ x.kind = e.kind /\ x \in rows
    <3>1. x \in rows /\ SameAddress(x, e) /\ x.kind \in ReplaceableKinds
        BY <2>1, <2>2 DEF SameAddress
    <3>2. \A y \in Found(e) : y = x
        BY <1>1, <2>2, <3>1, OneRow, SameAddressEquivalence
    <3>3. QED
        BY <3>1, <3>2 DEF SameAddress
  <2>4. CASE Found(e) = {} /\ rows' = Put(e, rows)
      BY <1>2, <1>4, <1>6, <2>2, <2>4
  <2>5. ASSUME NEW x \in Found(e), \/ (~Newer(e, x) /\ rows' = rows)
                                   \/ (Newer(e, x) /\ rows' = Put(e, rows \ Deleted(e, x)))
        PROVE  /\ x \in rows /\ SameAddress(x, e) /\ x.kind = e.kind
               /\ rows' = IF Newer(e, x) THEN (rows \ {x}) \cup {e} ELSE rows
    <3>1. x \in rows /\ SameAddress(x, e) /\ x.kind = e.kind /\ Deleted(e, x) = {x}
        BY <2>2, <2>3
    <3>2. Put(e, rows \ {x}) = (rows \ {x}) \cup {e}
        BY <1>3, <3>1
    <3>3. QED
        BY <2>5, <3>1, <3>2
  <2>6. QED
    <3>1. \/ Found(e) = {} /\ rows' = Put(e, rows)
          \/ \E x \in Found(e) : \/ (~Newer(e, x) /\ rows' = rows)
                                  \/ (Newer(e, x) /\ rows' = Put(e, rows \ Deleted(e, x)))
        BY <2>1, StoreEffectAny
    <3>2. CASE \E x \in Found(e) : \/ (~Newer(e, x) /\ rows' = rows)
                                   \/ (Newer(e, x) /\ rows' = Put(e, rows \ Deleted(e, x)))
      <4>1. PICK x \in rows : /\ SameAddress(x, e) /\ x.kind = e.kind
                              /\ rows' = IF Newer(e, x) THEN (rows \ {x}) \cup {e} ELSE rows
          BY <3>2, <2>5
      <4>2. QED
          BY <1>2, <1>6, <4>1
    <3>3. QED
        BY <2>4, <3>1, <3>2
<1>7. CASE isParameterizedReplaceableKind(e.kind)
  <2>1. ~isReplaceableKind(e.kind) /\ ~isRegularKind(e.kind)
      BY <1>7, EventParts DEF isReplaceableKind, isRegularKind, isParameterizedReplaceableKind
  <2>2. /\ Found(e) = FoundByTag(e)
        /\ \A x : Deleted(e, x) = {x}
        /\ \A x \in FoundByTag(e) : x \in rows /\ x.kind = e.kind
      BY <2>1 DEF Found, FoundByTag, FoundByKind, Deleted
  <2>3. CASE Found(e) = {} /\ rows' = Put(e, rows)
      BY <1>2, <1>4, <1>7, <2>2, <2>3
  <2>4. ASSUME NEW x \in Found(e), \/ (~Newer(e, x) /\ rows' = rows)
                                   \/ (Newer(e, x) /\ rows' = Put(e, rows \ Deleted(e, x)))
        PROVE  /\ x \in FoundByTag(e) /\ x.kind = e.kind
               /\ rows' = IF Newer(e, x) THEN (rows \ {x}) \cup {e} ELSE rows
      BY <1>3, <2>2, <2>4
  <2>5. QED
    <3>1. \/ Found(e) = {} /\ rows' = Put(e, rows)
          \/ \E x \in Found(e) : \/ (~Newer(e, x) /\ rows' = rows)
                                  \/ (Newer(e, x) /\ rows' = Put(e, rows \ Deleted(e, x)))
        BY <2>1, StoreEffectAny
    <3>2. CASE \E x \in Found(e) : \/ (~Newer(e, x) /\ rows' = rows)
                                   \/ (Newer(e, x) /\ rows' = Put(e, rows \ Deleted(e, x)))
      <4>1. PICK x \in FoundByTag(e) :
                /\ x.kind = e.kind
                /\ rows' = IF Newer(e, x) THEN (rows \ {x}) \cup {e} ELSE rows
          BY <3>2, <2>4
      <4>2. QED
          BY <1>2, <1>7, <4>1
    <3>3. QED
        BY <2>3, <3>1, <3>2
<1>8. QED
    BY <1>5, <1>6, <1>7 DEF isRegularKind

\* The ranges of kinds the store tells apart do not meet.
LEMMA KindsApart ==
    \A e \in Events :
        /\ e.kind \in ReplaceableKinds <=> isReplaceableKind(e.kind)
        /\ e.kind \in ParameterizedKinds <=> isParameterizedReplaceableKind(e.kind)
        /\ ~(isReplaceableKind(e.kind) /\ isParameterizedReplaceableKind(e.kind))
        /\ ~(isReplaceableKind(e.kind) /\ isRegularKind(e.kind))
        /\ ~(isParameterizedReplaceableKind(e.kind) /\ isRegularKind(e.kind))
BY EventParts DEF ReplaceableKinds, ParameterizedKinds, isReplaceableKind, isRegularKind,
                  isParameterizedReplaceableKind

\* One call of store keeps the newest event of every replaceable address.
LEMMA StoreStep ==
    ASSUME IdsAreHashes(Events), StoreInv, LatestKept(ReplaceableKinds), NEW e \in Events, store(e)
    PROVE  StoreInv' /\ LatestKept(ReplaceableKinds)'
<1>1. CASE isReplaceableKind(e.kind)
    BY <1>1, StoreEffect, LatestStep, KindsApart
<1>2. CASE ~isReplaceableKind(e.kind)
    BY <1>2, StoreEffect, LatestOther, KindsApart
<1>3. QED
    BY <1>1, <1>2, StoreEffect

\* Every row outlives a call of store, or a newer one of its author and kind takes
\* its place; so does the event of that call.
LEMMA RowsReplaced ==
    ASSUME IdsAreHashes(Events),
           StoreInv, LatestKept(ReplaceableKinds), NEW e \in Events, store(e)
    PROVE  \A g \in (rows \cup {e}) \ rows' :
               \E f \in rows' : f.pubkey = g.pubkey /\ f.kind = g.kind /\ Newer(f, g)
<1>1. rows \subseteq Events
    BY DEF StoreInv, StoreTypeOK
<1>2. \/ rows' = rows \cup {e}
      \/ \E x \in rows : /\ x.pubkey = e.pubkey /\ x.kind = e.kind
                         /\ rows' = IF Newer(e, x) THEN (rows \ {x}) \cup {e} ELSE rows
    BY StoreEffect DEF SameAddress, FoundByTag, FoundByKind
<1> QED
    BY <1>1, <1>2, NewerOrders

\* So it holds after any number of calls.
LEMMA StoreInductive ==
    ASSUME IdsAreHashes(Events)
    PROVE  StoreSpec => [](StoreInv /\ LatestKept(ReplaceableKinds))
<1>1. StoreInit => StoreInv /\ LatestKept(ReplaceableKinds)
    BY DEF StoreInit, StoreInv, StoreTypeOK, LatestKept
<1>2. /\ StoreInv /\ LatestKept(ReplaceableKinds) /\ [StoreNext]_storeVars
      => StoreInv' /\ LatestKept(ReplaceableKinds)'
  <2>1. CASE UNCHANGED storeVars
      BY <2>1 DEF storeVars, StoreInv, StoreTypeOK, LatestKept, LatestKeptFor
  <2>2. CASE StoreNext
      BY <2>2, StoreStep DEF StoreNext
  <2>3. QED
      BY <2>1, <2>2
<1>3. QED
    BY <1>1, <1>2, PTL DEF StoreSpec

\* The table never holds anything but events that were stored, be their ids hashes
\* or not.
THEOREM StoreTypeCorrect == StoreSpec => []StoreTypeOK
<1>1. StoreInit => StoreInv
    BY DEF StoreInit, StoreInv, StoreTypeOK
<1>2. StoreInv /\ [StoreNext]_storeVars => StoreInv'
    BY StoreEffectAny DEF StoreNext, storeVars, StoreInv, StoreTypeOK
<1>3. StoreInv => StoreTypeOK
    BY DEF StoreInv
<1>4. QED
    BY <1>1, <1>2, <1>3, PTL DEF StoreSpec

\* For replaceable kinds, kind:10032 peer information among them, the table
\* converges if ids are hashes: whatever the order and number of submissions, it
\* holds the newest event of each author and kind, and no other.
THEOREM ReplaceableIsLatest ==
    ASSUME IdsAreHashes(Events) PROVE StoreSpec => []ReplaceableLatest
<1>1. StoreInv /\ LatestKept(ReplaceableKinds) => ReplaceableLatest
    BY KindsApart DEF StoreInv, StoreTypeOK, LatestKept, ReplaceableLatest
<1>2. QED
    BY <1>1, StoreInductive, PTL

\* If patterns find exactly the rows with the tag they are built from, the same
\* holds of the parameterized kinds.
TagsExact ==
    \A e, r \in Events :
        /\ isParameterizedReplaceableKind(e.kind)
        /\ e.pubkey = r.pubkey /\ e.kind = r.kind
        /\ getDTagValue(e) # NoTag
        => ((\E i \in DOMAIN r.d : <<getDTagValue(e), r.d[i]>> \in Like)
                <=> getDTagValue(r) = getDTagValue(e))

\* A query by address finds the row of that address, and no other.
LEMMA FoundExactly ==
    ASSUME TagsExact, StoreInv, NEW e \in Events, isParameterizedReplaceableKind(e.kind)
    PROVE  FoundByTag(e) = {r \in rows : SameAddress(r, e)}
<1>1. ASSUME NEW r \in rows PROVE r \in FoundByTag(e) <=> SameAddress(r, e)
  <2>1. CASE getDTagValue(e) = NoTag
      BY <2>1 DEF FoundByTag, FoundByKind, SameAddress
  <2>2. CASE getDTagValue(e) # NoTag
      BY <2>2 DEF FoundByTag, FoundByKind, SameAddress, TagsExact, StoreInv, StoreTypeOK
  <2>3. QED
      BY <2>1, <2>2
<1>2. QED
    BY <1>1 DEF FoundByTag, FoundByKind

\* With ids that are hashes and patterns that find exactly the rows with the tag they
\* are built from, the table keeps the latest event per author, kind and tag alone, in whatever order
\* and however often events are stored.
THEOREM ParameterizedIsLatest ==
    ASSUME IdsAreHashes(Events), TagsExact PROVE StoreSpec => []ParameterizedLatest
<1>1. StoreInit => LatestKept(ParameterizedKinds)
    BY DEF StoreInit, LatestKept
<1>2. /\ StoreInv /\ LatestKept(ReplaceableKinds) /\ LatestKept(ParameterizedKinds)
      /\ [StoreNext]_storeVars
      => LatestKept(ParameterizedKinds)'
  <2> SUFFICES ASSUME StoreInv, LatestKept(ReplaceableKinds), LatestKept(ParameterizedKinds),
                      [StoreNext]_storeVars
               PROVE  LatestKept(ParameterizedKinds)'
      OBVIOUS
  <2>1. CASE UNCHANGED storeVars
      BY <2>1 DEF storeVars, LatestKept, LatestKeptFor
  <2>2. ASSUME NEW e \in Events, store(e) PROVE LatestKept(ParameterizedKinds)'
    <3>1. CASE isParameterizedReplaceableKind(e.kind)
      <4>1. \/ /\ {r \in rows : SameAddress(r, e)} = {}
               /\ rows' = rows \cup {e}
            \/ \E x \in rows :
                   /\ SameAddress(x, e)
                   /\ rows' = IF Newer(e, x) THEN (rows \ {x}) \cup {e} ELSE rows
          BY <2>2, <3>1, StoreEffect, FoundExactly, KindsApart
      <4>2. QED
          BY <2>2, <3>1, <4>1, StoreEffect, LatestStep, KindsApart
    <3>2. CASE ~isParameterizedReplaceableKind(e.kind)
        BY <2>2, <3>2, StoreEffect, LatestOther, KindsApart
    <3>3. QED
        BY <3>1, <3>2
  <2>3. QED
      BY <2>1, <2>2 DEF StoreNext
<1>3. StoreInv /\ LatestKept(ParameterizedKinds) => ParameterizedLatest
    BY KindsApart DEF StoreInv, StoreTypeOK, LatestKept, ParameterizedLatest
<1>4. QED
    BY <1>1, <1>2, <1>3, StoreInductive, PTL DEF StoreSpec

\* Whatever the patterns find, if ids are hashes: an event that is not in the table
\* any more, or never made it there, gave way to a newer one of its author and kind.
THEOREM OnlyNewerDisplace ==
    ASSUME IdsAreHashes(Events) PROVE StoreSpec => []LostOnlyToNewer
<1>1. StoreInit => LostOnlyToNewer
    BY DEF StoreInit, LostOnlyToNewer
<1>2. /\ StoreInv /\ LatestKept(ReplaceableKinds) /\ LostOnlyToNewer /\ [StoreNext]_storeVars
      => LostOnlyToNewer'
  <2> SUFFICES ASSUME StoreInv, LatestKept(ReplaceableKinds), LostOnlyToNewer,
                      [StoreNext]_storeVars
               PROVE  LostOnlyToNewer'
      OBVIOUS
  <2>1. CASE UNCHANGED storeVars
      BY <2>1 DEF storeVars, LostOnlyToNewer
  <2>2. ASSUME NEW e \in Events, store(e), NEW g \in submitted', g \notin rows'
        PROVE  /\ ~isRegularKind(g.kind)
               /\ \E f \in submitted' : /\ f.pubkey = g.pubkey /\ f.kind = g.kind
                                        /\ Newer(f, g)
    <3>1. submitted' = submitted \cup {e} /\ rows \subseteq submitted /\ submitted \subseteq Events
        BY <2>2, StoreEffect DEF StoreInv, StoreTypeOK
    <3>2. CASE g \in submitted /\ g \notin rows
        BY <3>1, <3>2 DEF LostOnlyToNewer
    <3>3. CASE g \in rows \/ g \notin submitted
      <4>1. PICK x \in rows :
                /\ isReplaceableKind(e.kind) \/ isParameterizedReplaceableKind(e.kind)
                /\ x.pubkey = e.pubkey /\ x.kind = e.kind
                /\ rows' = IF Newer(e, x) THEN (rows \ {x}) \cup {e} ELSE rows
          BY <2>2, <3>1, <3>3, StoreEffect DEF SameAddress, FoundByTag, FoundByKind
      <4>2. ~isRegularKind(e.kind)
          BY <4>1, KindsApart
      <4>3. CASE Newer(e, x)
          BY <2>2, <3>1, <3>3, <4>1, <4>2, <4>3
      <4>4. CASE ~Newer(e, x)
        <5>1. g = e /\ g \notin rows
            BY <2>2, <3>1, <3>3, <4>1, <4>4
        <5>2. Newer(x, e)
            BY <5>1, <3>1, <4>1, <4>4, NewerOrders
        <5>3. QED
            BY <5>1, <5>2, <3>1, <4>1, <4>2
      <4>5. QED
          BY <4>3, <4>4
    <3>4. QED
        BY <3>2, <3>3
  <2>3. QED
      BY <2>1, <2>2 DEF StoreNext, LostOnlyToNewer
<1>3. QED
    BY <1>1, <1>2, StoreInductive, PTL DEF StoreSpec

\* Of every event that was stored, the table has it or a newer one of its author
\* and kind.
NewerKept ==
    \A e \in submitted \ rows :
        \E f \in rows : f.pubkey = e.pubkey /\ f.kind = e.kind /\ Newer(f, e)

\* Replacements follow one another, and the last of them is in the table.
LEMMA NewerInductive ==
    ASSUME IdsAreHashes(Events) PROVE StoreSpec => [](StoreInv /\ NewerKept)
<1>1. StoreInit => NewerKept
    BY DEF StoreInit, NewerKept
<1>2. StoreInv /\ LatestKept(ReplaceableKinds) /\ NewerKept /\ [StoreNext]_storeVars
      => NewerKept'
  <2> SUFFICES ASSUME StoreInv, LatestKept(ReplaceableKinds), NewerKept,
                      [StoreNext]_storeVars
               PROVE  NewerKept'
      OBVIOUS
  <2>1. CASE UNCHANGED storeVars
      BY <2>1 DEF storeVars, NewerKept
  <2>2. ASSUME NEW e \in Events, store(e), NEW g \in submitted', g \notin rows'
        PROVE  \E f \in rows' : f.pubkey = g.pubkey /\ f.kind = g.kind /\ Newer(f, g)
    <3>1. /\ submitted' = submitted \cup {e} /\ g \in Events
          /\ rows \subseteq Events /\ rows' \subseteq Events
        BY <2>2, StoreEffect DEF StoreInv, StoreTypeOK
    <3>2. CASE g \in rows \cup {e}
        BY <2>2, <3>2, RowsReplaced
    <3>3. CASE g \notin rows \cup {e}
      <4>1. PICK h \in rows : h.pubkey = g.pubkey /\ h.kind = g.kind /\ Newer(h, g)
          BY <3>1, <3>3 DEF NewerKept
      <4>2. CASE h \in rows'
          BY <4>1, <4>2
      <4>3. CASE h \notin rows'
        <5>1. PICK f \in rows' : f.pubkey = h.pubkey /\ f.kind = h.kind /\ Newer(f, h)
            BY <2>2, <4>3, RowsReplaced
        <5>2. Newer(f, g)
            BY <3>1, <4>1, <5>1, NewerStrict
        <5>3. QED
            BY <4>1, <5>1, <5>2
      <4>4. QED
          BY <4>2, <4>3
    <3>4. QED
        BY <3>2, <3>3
  <2>3. QED
      BY <2>1, <2>2 DEF StoreNext, NewerKept
<1>3. QED
    BY <1>1, <1>2, StoreInductive, PTL DEF StoreSpec

-------------------------------------------------------------------------------
\* Queries

\* Patterns find a tag exactly.
PatternsExact ==
    \A v \in DTags, w \in DTags \cup {NoTag} : <<v, w>> \in Like <=> v = w

\* The filters of a list that is asked.
LEMMA FilterParts ==
    ASSUME NEW filters \in FilterLists, NEW i \in DOMAIN filters
    PROVE  /\ filters[i] \in Filter /\ filters[i].dTags \subseteq DTags
           /\ filters[i].limit \subseteq Nat /\ filters[i].since \subseteq Nat
<1>1. filters \in Seq(Filter)
    BY FiltersAssumption
<1>2. filters[i] \in Filter
    BY <1>1
<1>3. QED
    BY <1>2 DEF Filter

\* With exact patterns the SQL conditions of a filter say what it says.
LEMMA ConditionsMatch ==
    ASSUME PatternsExact, NEW filters \in FilterLists, NEW i \in DOMAIN filters,
           NEW e \in Events
    PROVE  MatchesCondition(e, filters[i]) <=> matchFilter(e, filters[i])
<1>1. e.d \in Seq(DTags \cup {NoTag})
    BY EventsAssumption DEF Event
<1>2. \A j \in DOMAIN e.d : e.d[j] \in DTags \cup {NoTag}
    BY <1>1
<1>3. \A j \in DOMAIN e.d :
          (\E v \in filters[i].dTags : <<v, e.d[j]>> \in Like) <=> e.d[j] \in filters[i].dTags
    BY <1>2, FilterParts DEF PatternsExact
<1>4. QED
    BY <1>3 DEF MatchesCondition, matchFilter

\* If each filter of a list has a condition, the query finds what matches any.
LEMMA QueryIsMatching ==
    ASSUME PatternsExact, rows \subseteq Events, NEW filters \in FilterLists,
           \A i \in DOMAIN filters : HasCondition(filters[i])
    PROVE  buildQuerySql(filters) = MatchingAny(rows, filters)
<1>1. filters \in Seq(Filter)
    BY FiltersAssumption
<1>2. {i \in DOMAIN filters : HasCondition(filters[i])} = DOMAIN filters
    OBVIOUS
<1>3. DOMAIN filters = {} <=> filters = <<>>
    BY <1>1
<1>4. \A e \in rows : (\E i \in DOMAIN filters : MatchesCondition(e, filters[i]))
                          <=> (\E i \in DOMAIN filters : matchFilter(e, filters[i]))
    BY ConditionsMatch
<1>5. QED
    BY <1>2, <1>3, <1>4 DEF buildQuerySql, MatchingAny

\* A filter without condition matches every event.
LEMMA NoConditionMatches ==
    ASSUME NEW f, ~HasCondition(f), NEW e
    PROVE  matchFilter(e, f)
BY DEF HasCondition, matchFilter, MatchesFields, InTime

\* Every filter of a list has a condition, or none has: the other lists are those
\* in which the SQL query forgets an empty filter.
Uniform(filters) ==
    \/ \A i \in DOMAIN filters : HasCondition(filters[i])
    \/ \A i \in DOMAIN filters : ~HasCondition(filters[i])

\* The query of a uniform list finds the rows that match any of its filters.
LEMMA UniformMatching ==
    ASSUME PatternsExact, rows \subseteq Events, NEW filters \in FilterLists, Uniform(filters)
    PROVE  buildQuerySql(filters) = MatchingAny(rows, filters)
<1>1. CASE \A i \in DOMAIN filters : HasCondition(filters[i])
    BY <1>1, QueryIsMatching
<1>2. CASE \A i \in DOMAIN filters : ~HasCondition(filters[i])
  <2>1. filters \in Seq(Filter)
      BY FiltersAssumption
  <2>2. DOMAIN filters = {} <=> filters = <<>>
      BY <2>1
  <2>3. \A e \in rows : filters # <<>> => \E i \in DOMAIN filters : matchFilter(e, filters[i])
      BY <1>2, <2>2, NoConditionMatches
  <2>4. MatchingAny(rows, filters) = rows
      BY <2>3 DEF MatchingAny
  <2>5. buildQuerySql(filters) = rows
      BY <1>2 DEF buildQuerySql
  <2>6. QED
      BY <2>4, <2>5
<1>3. QED
    BY <1>1, <1>2 DEF Uniform

===============================================================================
