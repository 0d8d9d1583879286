--------------------------- MODULE BlsServerProofs ---------------------------
(***************************************************************************)
(* Proofs about BlsServer, for every environment, any number of lives of   *)
(* the process and any events, filters and prices.  What the table keeps   *)
(* is known of its store (EventStoreProofs); here the process is shown to  *)
(* be one, and its answers and prices to be what they should.              *)
(***************************************************************************)
EXTENDS BlsServer, EventStoreProofs, FiniteSetTheorems

\* While a transaction is open, the table is the one its event was compared with: no
\* other request is served before it ends.
TxInv ==
    \A t \in tx :
        /\ t.event \in Events /\ ~isRegularKind(t.event.kind)
        /\ \E existing \in Found(t.event) :
               MayReplace(t.event, existing) /\ t.table = rows \ Deleted(t.event, existing)

\* Every step keeps that.
LEMMA TransactionInductive == BlsSpec => []TxInv
<1>1. BlsInit => TxInv
    BY DEF BlsInit, TxInv
<1>2. TxInv /\ [BlsNext]_blsVars => TxInv'
  <2> SUFFICES ASSUME TxInv, [BlsNext]_blsVars PROVE TxInv'
      OBVIOUS
  <2>1. CASE Start
      BY <2>1 DEF Start, OpenDatabase, TxInv, storeVars, Found, FoundByKind, FoundByTag, Deleted
  <2>2. ASSUME Stop \/ Commit PROVE TxInv'
    <3>1. tx' = {}
        BY <2>2 DEF Stop, Commit
    <3>2. QED
        BY <3>1 DEF TxInv
  <2>3. ASSUME NEW e \in Events, NEW amount \in Amounts, handlePayment(e, amount)
        PROVE  TxInv'
    <3>1. CASE tx' = {}
        BY <3>1 DEF TxInv
    <3>2. CASE tx' # {}
      <4>1. tx = {}
          BY <2>3 DEF handlePayment
      <4>2. ~isRegularKind(e.kind)
            /\ \E existing \in Found(e) : MayReplace(e, existing) /\ Replace(e, existing)
          BY <2>3, <3>2, <4>1 DEF handlePayment, storeSqlite, storeMemory
      <4>3. PICK existing \in Found(e) : MayReplace(e, existing) /\ Replace(e, existing)
          BY <4>2
      <4>4. /\ rows' = rows
            /\ tx' = {[event |-> e, table |-> rows \ Deleted(e, existing)]}
          BY <4>3 DEF Replace, storeVars
      <4>5. Found(e)' = Found(e) /\ Deleted(e, existing)' = Deleted(e, existing)
          BY <4>4 DEF Found, FoundByKind, FoundByTag, Deleted
      <4>6. MayReplace(e, existing)'
          BY <4>3 DEF MayReplace, Newer
      <4>7. QED
          BY <4>2, <4>3, <4>4, <4>5, <4>6 DEF TxInv
    <3>3. QED
        BY <3>1, <3>2
  <2>4. CASE UNCHANGED blsVars
      BY <2>4 DEF blsVars, TxInv, storeVars, Found, FoundByKind, FoundByTag, Deleted
  <2>5. QED
      BY <2>1, <2>2, <2>3, <2>4 DEF BlsNext
<1>3. QED
    BY <1>1, <1>2, PTL DEF BlsSpec

\* Wherever kills part the statements of replacements, the table goes through the
\* states of one store whose calls are whole: a transaction that commits does what
\* its call would have done at once, and one that is cut off does nothing.
THEOREM TableIsOneStore == BlsSpec => TableOutlivesProcess
<1>1. BlsInit => StoreInit
    BY DEF BlsInit
<1>2. TxInv /\ [BlsNext]_blsVars => [StoreNext]_storeVars
  <2> SUFFICES ASSUME TxInv, [BlsNext]_blsVars PROVE [StoreNext]_storeVars
      OBVIOUS
  <2>1. CASE Start
      BY <2>1 DEF Start, OpenDatabase
  <2>2. CASE Stop
      BY <2>2 DEF Stop
  <2>3. ASSUME NEW e \in Events, NEW amount \in Amounts, handlePayment(e, amount)
        PROVE  [StoreNext]_storeVars
    <3>1. CASE (storeRegular(e) \/ storeAlone(e)) /\ Stored(e)
        BY <3>1 DEF store, StoreNext
    <3>2. ASSUME NEW existing, Replace(e, existing) PROVE UNCHANGED storeVars
        BY <3>2 DEF Replace
    <3>3. QED
        BY <2>3, <3>1, <3>2 DEF handlePayment, storeSqlite, storeMemory
  <2>4. CASE Commit
    <3>1. PICK t \in tx : rows' = Put(t.event, t.table) /\ Stored(t.event)
        BY <2>4 DEF Commit
    <3>2. t.event \in Events /\ storeInPlace(t.event)
        BY <3>1 DEF TxInv, storeInPlace
    <3>3. QED
        BY <3>1, <3>2 DEF store, StoreNext
  <2>5. CASE UNCHANGED blsVars
      BY <2>5 DEF blsVars
  <2>6. QED
      BY <2>1, <2>2, <2>3, <2>4, <2>5 DEF BlsNext
<1>3. QED
    BY <1>1, <1>2, TransactionInductive, PTL DEF BlsSpec, TableOutlivesProcess, StoreSpec

\* So the table of replaceable events converges whatever lives write to it.
THEOREM LivesKeepLatest == BlsSpec => []ReplaceableLatest
BY TableIsOneStore, ReplaceableIsLatest, SignatureAssumption, PTL DEF TableOutlivesProcess

\* So does that of parameterized ones, if patterns find exactly the tags they are
\* built from.
THEOREM LivesKeepLatestTag ==
    ASSUME TagsExact PROVE BlsSpec => []ParameterizedLatest
BY TableIsOneStore, ParameterizedIsLatest, SignatureAssumption, PTL DEF TableOutlivesProcess

\* And no life loses an event but to a newer one.
THEOREM LivesLoseToNewer == BlsSpec => []LostOnlyToNewer
BY TableIsOneStore, OnlyNewerDisplace, SignatureAssumption, PTL DEF TableOutlivesProcess

-------------------------------------------------------------------------------
\* The two stores

\* The table is what was given to it, less what was replaced.
LEMMA RowsUnreplaced ==
    ASSUME StoreInv, ReplaceableLatest, ParameterizedLatest, LostOnlyToNewer
    PROVE  \A e \in submitted : e \in rows <=> ~Replaced(e)
<1> SUFFICES ASSUME NEW e \in submitted PROVE e \in rows <=> ~Replaced(e)
    OBVIOUS
<1>1. submitted \subseteq Events /\ rows \subseteq submitted
    BY DEF StoreInv, StoreTypeOK
<1>2. ASSUME ~isRegularKind(e.kind) PROVE LatestKeptFor(e)
    BY <1>2 DEF isRegularKind, ReplaceableLatest, ParameterizedLatest
<1>3. ASSUME e \in rows, Replaced(e) PROVE FALSE
  <2>1. PICK f \in submitted : SameAddress(e, f) /\ Newer(f, e)
      BY <1>3 DEF Replaced
  <2>2. PICK r \in rows : \A g \in submitted : SameAddress(g, e) =>
                              g = r \/ (Newer(r, g) /\ g \notin rows)
      BY <1>2, <1>3 DEF Replaced, LatestKeptFor
  <2>3. SameAddress(e, e) /\ SameAddress(f, e)
      BY <1>1, <2>1, SameAddressEquivalence
  <2>4. e = r
      BY <1>3, <2>2, <2>3
  <2>5. QED
      BY <1>1, <2>1, <2>2, <2>3, <2>4, NewerStrict
<1>4. ASSUME e \notin rows PROVE Replaced(e)
  <2>1. ~isRegularKind(e.kind)
      BY <1>4 DEF LostOnlyToNewer
  <2>2. PICK r \in rows : /\ SameAddress(r, e)
                          /\ \A g \in submitted : SameAddress(g, e) =>
                                 g = r \/ (Newer(r, g) /\ g \notin rows)
      BY <1>2, <2>1 DEF LatestKeptFor
  <2>3. SameAddress(e, e) /\ SameAddress(e, r)
      BY <1>1, <2>2, SameAddressEquivalence
  <2>4. QED
      BY <1>1, <1>4, <2>1, <2>2, <2>3 DEF Replaced
<1>5. QED
    BY <1>3, <1>4

\* The SQL store finds what the in-memory store would of the same events, less the
\* replaced ones, if patterns are exact.
THEOREM TheStoresAgree ==
    ASSUME TagsExact, PatternsExact PROVE BlsSpec => []StoresAgree
<1>1. /\ StoreInv /\ ReplaceableLatest /\ ParameterizedLatest /\ LostOnlyToNewer
      => StoresAgree
  <2> SUFFICES ASSUME StoreInv, ReplaceableLatest, ParameterizedLatest, LostOnlyToNewer,
                      NEW filters \in FilterLists,
                      \A i \in DOMAIN filters : HasCondition(filters[i])
               PROVE  buildQuerySql(filters) =
                          {e \in MatchingAny(submitted, filters) : ~Replaced(e)}
      BY DEF StoresAgree
  <2>1. rows \subseteq Events /\ rows \subseteq submitted
      BY DEF StoreInv, StoreTypeOK
  <2>2. buildQuerySql(filters) = MatchingAny(rows, filters)
      BY <2>1, QueryIsMatching
  <2>3. QED
      BY <2>1, <2>2, RowsUnreplaced DEF MatchingAny
<1>2. BlsSpec => StoreSpec
    BY TableIsOneStore DEF TableOutlivesProcess
<1>3. QED
    BY <1>1, <1>2, NewerInductive, LivesKeepLatest, LivesKeepLatestTag, LivesLoseToNewer,
       SignatureAssumption, PTL

-------------------------------------------------------------------------------
\* What a running process has: the prices of its environment, and finitely many
\* events in either store.

ProcessInv ==
    /\ env \in Environments /\ prices \subseteq loadPrices(env)
    /\ events \subseteq Events /\ IsFiniteSet(events)

\* Stores are given events one by one.
LEMMA TableIsFinite == StoreSpec => []IsFiniteSet(rows)
<1>1. StoreInit => IsFiniteSet(rows)
    BY FS_EmptySet DEF StoreInit
<1>2. StoreInv /\ IsFiniteSet(rows) /\ [StoreNext]_storeVars
      => IsFiniteSet(rows)'
  <2> SUFFICES ASSUME StoreInv, IsFiniteSet(rows),
                      [StoreNext]_storeVars
               PROVE  IsFiniteSet(rows')
      OBVIOUS
  <2>1. ASSUME NEW e \in Events, store(e) PROVE IsFiniteSet(rows')
    <3>1. rows' \subseteq rows \cup {e}
        BY <2>1, StoreEffectAny DEF Put
    <3>2. IsFiniteSet(rows \cup {e})
        BY FS_AddElement
    <3>3. QED
        BY <3>1, <3>2, FS_Subset
  <2>2. QED
      BY <2>1 DEF StoreNext, storeVars
<1>3. QED
    BY <1>1, <1>2, StoreInductive, SignatureAssumption, PTL DEF StoreSpec

\* Each start loads its prices from the environment it is given, and no request
\* changes them.
LEMMA ProcessInductive == BlsSpec => []ProcessInv
<1>1. BlsInit => ProcessInv
    BY FS_EmptySet DEF BlsInit, ProcessInv
<1>2. ProcessInv /\ [BlsNext]_blsVars => ProcessInv'
  <2> SUFFICES ASSUME ProcessInv, [BlsNext]_blsVars PROVE ProcessInv'
      OBVIOUS
  <2> USE DEF ProcessInv
  <2>1. CASE Start
      BY <2>1 DEF Start, loadBlsConfigFromEnv
  <2>2. CASE Stop
      BY <2>2, FS_EmptySet DEF Stop
  <2>3. ASSUME NEW e \in Events, NEW amount \in Amounts, handlePayment(e, amount)
        PROVE  ProcessInv'
    <3>1. env' = env /\ prices' = prices
        BY <2>3 DEF handlePayment
    <3>2. events' = events \/ events' = events \cup {e}
        BY <2>3 DEF handlePayment, storeSqlite, storeMemory
    <3>3. IsFiniteSet(events \cup {e})
        BY FS_AddElement
    <3>4. QED
        BY <3>1, <3>2, <3>3
  <2>4. ASSUME UNCHANGED blsVars \/ Commit PROVE ProcessInv'
      BY <2>4 DEF blsVars, Commit
  <2>5. QED
      BY <2>1, <2>2, <2>3, <2>4 DEF BlsNext
<1>3. QED
    BY <1>1, <1>2, PTL DEF BlsSpec

\* Of finitely many events found, a limit of one leaves one that none is newer than.
LEMMA NewestOfFound ==
    ASSUME NEW found \in SUBSET Events, IsFiniteSet(found), NEW filters,
           Limits(filters) = {1}, NEW kept \in Limited(found, filters), NEW f \in found
    PROVE  \E e \in kept : e.created_at >= f.created_at
<1>1. Cardinality(kept) = IF Cardinality(found) < 1 THEN Cardinality(found) ELSE 1
    BY DEF Limited
<1>2. kept \subseteq found /\ \A e \in kept, g \in found \ kept : e.created_at >= g.created_at
    BY DEF Limited
<1>3. Cardinality(found) \in Nat /\ Cardinality(found) # 0
    BY FS_CardinalityType, FS_EmptySet
<1>4. Cardinality(kept) = 1
    BY <1>1, <1>3
<1>5. PICK e \in kept : TRUE
    BY <1>4, FS_EmptySet
<1>6. e.created_at \in Int /\ f.created_at \in Int
    BY <1>2, EventParts
<1>7. QED
    BY <1>2, <1>5, <1>6

\* A newer event of the same author and kind satisfies what AsksForNewest allows.
LEMMA NewerMatches ==
    ASSUME NEW filters \in FilterLists, AsksForNewest(filters), NEW i \in DOMAIN filters,
           NEW e \in Events, NEW f \in Events, matchFilter(e, filters[i]),
           f.pubkey = e.pubkey, f.kind = e.kind, f.created_at >= e.created_at
    PROVE  MatchesCondition(f, filters[i])
<1>1. filters[i].ids = {} /\ filters[i].dTags = {} /\ filters[i].until = {}
    BY DEF AsksForNewest
<1>2. MatchesFields(e, filters[i])
    BY DEF matchFilter
<1>3. e.created_at \in Int /\ f.created_at \in Int
    BY EventParts
<1>4. \A s \in filters[i].since : s \in Int /\ e.created_at >= s
    BY <1>2, FilterParts DEF MatchesFields, InTime
<1>5. \A s \in filters[i].since : f.created_at >= s
    BY <1>3, <1>4
<1>6. MatchesFields(f, filters[i])
    BY <1>1, <1>2, <1>5 DEF MatchesFields, InTime
<1>7. QED
    BY <1>1, <1>6 DEF MatchesCondition

\* Whoever asks for the newest event of an author and kind gets one that none is
\* newer than, from either store, whatever the patterns find.
THEOREM NewestIsServed == BlsSpec => []NewestServed
<1>1. StoreInv /\ NewerKept /\ IsFiniteSet(rows) /\ ProcessInv => NewestServed
  <2> SUFFICES ASSUME StoreInv, NewerKept, IsFiniteSet(rows), ProcessInv,
                      NEW filters \in FilterLists, AsksForNewest(filters),
                      NEW kept \in answer(filters), NEW g \in MatchingAny(Given, filters)
               PROVE  \E e \in kept : e.created_at >= g.created_at
      BY DEF NewestServed
  <2>1. Limits(filters) = {1}
      BY DEF AsksForNewest
  <2>2. CASE mode = "sqlite"
    <3> DEFINE found == buildQuerySql(filters)
    <3>1. /\ rows \subseteq Events /\ submitted \subseteq Events /\ rows \subseteq submitted
          /\ g \in submitted /\ kept \in Limited(found, filters)
        BY <2>2 DEF StoreInv, StoreTypeOK, Given, answer, querySqlite, query, MatchingAny
    <3>2. PICK i \in DOMAIN filters : matchFilter(g, filters[i])
      <4>1. filters # <<>>
          BY <2>1 DEF Limits
      <4>2. QED
          BY <4>1 DEF MatchingAny
    <3>3. PICK f \in rows : f.pubkey = g.pubkey /\ f.kind = g.kind /\ f.created_at >= g.created_at
      <4>1. \A h \in Events : h.created_at \in Int
          BY EventParts
      <4>2. CASE g \in rows
          BY <3>1, <4>1, <4>2
      <4>3. CASE g \notin rows
          BY <3>1, <4>1, <4>3 DEF NewerKept, Newer
      <4>4. QED
          BY <4>2, <4>3
    <3>4. MatchesCondition(f, filters[i])
        BY <3>1, <3>2, <3>3, NewerMatches
    <3>5. f \in found
        BY <3>4 DEF buildQuerySql, AsksForNewest
    <3>6. found \subseteq rows
        BY DEF buildQuerySql
    <3>7. IsFiniteSet(found) /\ found \in SUBSET Events
        BY <3>1, <3>6, FS_Subset
    <3> HIDE DEF found
    <3>8. PICK e \in kept : e.created_at >= f.created_at
        BY <2>1, <3>1, <3>5, <3>7, NewestOfFound
    <3>9. kept \subseteq Events
        BY <3>1, <3>7 DEF Limited
    <3>10. e.created_at \in Int /\ f.created_at \in Int /\ g.created_at \in Int
        BY <3>1, <3>9, EventParts
    <3>11. QED
        BY <3>3, <3>8, <3>10
  <2>3. CASE mode # "sqlite"
    <3> DEFINE found == MatchingAny(events, filters)
    <3>1. g \in found /\ kept \in Limited(found, filters) /\ found \subseteq events
        BY <2>3 DEF Given, answer, queryMemory, MatchingAny
    <3>2. IsFiniteSet(found) /\ found \in SUBSET Events
        BY <3>1, FS_Subset DEF ProcessInv
    <3> HIDE DEF found
    <3>3. QED
        BY <2>1, <3>1, <3>2, NewestOfFound
  <2>4. QED
      BY <2>2, <2>3
<1>2. BlsSpec => StoreSpec
    BY TableIsOneStore DEF TableOutlivesProcess
<1>3. QED
    BY <1>1, <1>2, NewerInductive, TableIsFinite, ProcessInductive, SignatureAssumption, PTL

-------------------------------------------------------------------------------
\* Prices

\* What the propagated variables say is what counts, or what an empty one says.
LEMMA PropagatedCounts ==
    ASSUME NEW vars, vars = [bls |-> vars.bls, relay |-> vars.relay, plain |-> vars.plain],
           NEW v, v = propagateUnprefixed(vars)
    PROVE  /\ Blanked(vars) => /\ Or(v.bls, v.relay).is = "empty"
                               /\ \A default : Or(v.bls, Or(v.relay, default)).is = "empty"
           /\ ~Blanked(vars) /\ Counted(vars) # unset =>
                  /\ Or(v.bls, v.relay) = Counted(vars)
                  /\ \A default : Or(v.bls, Or(v.relay, default)) = Counted(vars)
                  /\ Truthy(Counted(vars))
           /\ ~Blanked(vars) /\ Counted(vars) = unset =>
                  /\ ~Truthy(Or(v.bls, v.relay))
                  /\ \A default : Or(v.bls, Or(v.relay, default)) = default
<1> USE DEF Truthy, unset
<1>1. CASE Truthy(vars.plain) /\ ~Truthy(vars.bls) /\ ~Truthy(vars.relay)
  <2>1. v = [vars EXCEPT !.bls = vars.plain]
      BY <1>1 DEF propagateUnprefixed
  <2>2. v.bls = vars.plain /\ v.relay = vars.relay
      BY <2>1
  <2>3. Counted(vars) = vars.plain /\ ~Blanked(vars)
      BY <1>1 DEF Counted, Blanked
  <2>4. QED
      BY <1>1, <2>2, <2>3 DEF Or
<1>2. CASE ~(Truthy(vars.plain) /\ ~Truthy(vars.bls) /\ ~Truthy(vars.relay))
  <2>1. v = vars
      BY <1>2 DEF propagateUnprefixed
  <2>2. CASE Truthy(vars.bls)
      BY <2>1, <2>2 DEF Counted, Blanked, Or
  <2>3. CASE ~Truthy(vars.bls) /\ Truthy(vars.relay)
      BY <2>1, <2>3 DEF Counted, Blanked, Or
  <2>4. CASE ~Truthy(vars.bls) /\ ~Truthy(vars.relay)
      BY <1>2, <2>1, <2>4 DEF Counted, Blanked, Or
  <2>5. QED
      BY <2>2, <2>3, <2>4
<1>3. QED
    BY <1>1, <1>2

\* Whatever the variables hold, the prices in force are those of the ones that
\* count.
THEOREM PricesAreAsGiven == BlsSpec => []PricesAsGiven
<1>1. ProcessInv => PricesAsGiven
  <2> SUFFICES ASSUME ProcessInv, NEW p \in prices,
                      NEW base, base = IF Blanked(env.base) THEN number(0)
                                       ELSE Or(Counted(env.base), number(10)),
                      NEW overrides, overrides = IF Blanked(env.overrides) THEN unset
                                                 ELSE Counted(env.overrides)
               PROVE  <<p.basePricePerByte, p.kindOverrides>> \in loadPricingConfigFromFile(
                          [is |-> "object", base |-> base, overrides |-> overrides])
      BY DEF PricesAsGiven
  <2> DEFINE b == propagateUnprefixed(env.base)
             o == propagateUnprefixed(env.overrides)
             loaded == IF Truthy(Or(o.bls, o.relay)) THEN parseKindOverridesJson(Or(o.bls, o.relay))
                       ELSE {NoOverrides}
             filed == IF overrides = unset THEN {NoOverrides}
                      ELSE parseKindOverridesJson(overrides)
  <2>1. p.basePricePerByte \in parsePrice(Or(b.bls, Or(b.relay, number(10))))
        /\ p.kindOverrides \in loaded
      BY DEF ProcessInv, loadPrices, loadPricingConfigFromEnv
  <2>2. /\ env.base = [bls |-> env.base.bls, relay |-> env.base.relay, plain |-> env.base.plain]
        /\ env.overrides = [bls |-> env.overrides.bls, relay |-> env.overrides.relay,
                            plain |-> env.overrides.plain]
      BY EnvironmentsAssumption DEF ProcessInv
  <2>3. parsePrice(Or(b.bls, Or(b.relay, number(10)))) = parsePrice(base)
    <3>1. CASE Blanked(env.base)
      <4>1. Or(b.bls, Or(b.relay, number(10))).is = "empty"
          BY <2>2, <3>1, PropagatedCounts
      <4>2. QED
          BY <3>1, <4>1 DEF parsePrice, BigInt, number
    <3>2. CASE ~Blanked(env.base) /\ Counted(env.base) # unset
      <4>1. /\ Or(b.bls, Or(b.relay, number(10))) = Counted(env.base)
            /\ Truthy(Counted(env.base))
          BY <2>2, <3>2, PropagatedCounts
      <4>2. QED
          BY <3>2, <4>1 DEF Or, Truthy
    <3>3. CASE ~Blanked(env.base) /\ Counted(env.base) = unset
      <4>1. Or(b.bls, Or(b.relay, number(10))) = number(10)
          BY <2>2, <3>3, PropagatedCounts
      <4>2. QED
          BY <3>3, <4>1 DEF Or, unset
    <3>4. QED
        BY <3>1, <3>2, <3>3
  <2>4. loaded = filed
    <3>1. CASE Blanked(env.overrides)
      <4>1. Or(o.bls, o.relay).is = "empty"
          BY <2>2, <3>1, PropagatedCounts
      <4>2. QED
          BY <3>1, <4>1 DEF Truthy
    <3>2. CASE ~Blanked(env.overrides) /\ Counted(env.overrides) # unset
        BY <2>2, <3>2, PropagatedCounts
    <3>3. CASE ~Blanked(env.overrides) /\ Counted(env.overrides) = unset
        BY <2>2, <3>3, PropagatedCounts
    <3>4. QED
        BY <3>1, <3>2, <3>3
  <2>5. loadPricingConfigFromFile([is |-> "object", base |-> base, overrides |-> overrides])
            = parsePrice(base) \X filed
      BY DEF loadPricingConfigFromFile
  <2> HIDE DEF b, o, loaded, filed
  <2>6. QED
      BY <2>1, <2>3, <2>4, <2>5
<1>2. QED
    BY <1>1, ProcessInductive, PTL

==============================================================================
