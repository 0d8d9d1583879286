-------------------------------- MODULE Pricing --------------------------------
(***************************************************************************)
(* What a write costs: PricingService, the SPSP minimum price of           *)
(* BusinessLogicServer, and the loading of both from environment variables *)
(* or from a file (packages/bls/src/pricing, packages/bls/src/config.ts).  *)
(*                                                                         *)
(* A loader returns the set of what it loads: empty if it throws.          *)
(***************************************************************************)
EXTENDS Integers, Sequences

SPSP_REQUEST_KIND == 23194

Some(set) == CHOOSE x \in set : TRUE

\* Prices: basePricePerByte, kindOverrides (a function on some kinds) and
\* spspMinPrice ({} or one price).
getPricePerByte(prices, kind) ==
    IF kind \in DOMAIN prices.kindOverrides THEN prices.kindOverrides[kind]
    ELSE prices.basePricePerByte

calculatePriceFromBytes(prices, length, kind) == length * getPricePerByte(prices, kind)

price(prices, length, kind) ==
    LET byBytes == calculatePriceFromBytes(prices, length, kind) IN
    IF kind = SPSP_REQUEST_KIND /\ \E m \in prices.spspMinPrice : m < byBytes
    THEN Some(prices.spspMinPrice)
    ELSE byBytes

-------------------------------------------------------------------------------
\* Values as they are written down

unset == [is |-> "unset"]
empty == [is |-> "empty"]
invalid == [is |-> "invalid"]     \* neither a number nor JSON
number(n) == [is |-> "number", n |-> n]

\* Entries of a JSON object, in the order in which they are read: pairs of the
\* integer that parseInt makes of the key (NaN if none) and a price.
object(entries) == [is |-> "object", entries |-> entries]
NaN == -1

\* BigInt("") is 0.
BigInt(v) ==
    IF v.is = "empty" THEN {0} ELSE IF v.is = "number" THEN {v.n} ELSE {}

parsePrice(v) == BigInt(v) \cap Nat

\* One bad entry fails all; of two keys for the same kind the later one counts.
parseKindOverridesJson(v) ==
    IF /\ v.is = "object"
       /\ \A i \in DOMAIN v.entries : /\ v.entries[i][1] # NaN
                                      /\ parsePrice(v.entries[i][2]) # {}
    THEN LET kinds == {v.entries[i][1] : i \in DOMAIN v.entries}
             last(k) == CHOOSE i \in DOMAIN v.entries :
                            /\ v.entries[i][1] = k
                            /\ \A j \in (i + 1)..Len(v.entries) : v.entries[j][1] # k
         IN {[k \in kinds |-> Some(parsePrice(v.entries[last(k)][2]))]}
    ELSE {}

NoOverrides == [k \in {} |-> 0]

\* a ?? b and the test of a string in a condition: only the latter minds "".
Or(a, b) == IF a.is = "unset" THEN b ELSE a
Truthy(v) == v.is \notin {"unset", "empty"}

-------------------------------------------------------------------------------
\* Environment variables: of each setting the BLS_ one, the RELAY_ one and the
\* one without prefix.

propagateUnprefixed(vars) ==
    IF Truthy(vars.plain) /\ ~Truthy(vars.bls) /\ ~Truthy(vars.relay)
    THEN [vars EXCEPT !.bls = vars.plain]
    ELSE vars

\* Mutation of loadPricingConfigFromEnv: RELAY_ takes precedence over BLS_.
loadPricingRelayFirst(base, overrides) ==
    LET o == Or(overrides.relay, overrides.bls) IN
    parsePrice(Or(base.relay, Or(base.bls, number(10))))
        \X (IF Truthy(o) THEN parseKindOverridesJson(o) ELSE {NoOverrides})

loadPricingConfigFromEnv(base, overrides) ==
    LET o == Or(overrides.bls, overrides.relay) IN
    parsePrice(Or(base.bls, Or(base.relay, number(10))))
        \X (IF Truthy(o) THEN parseKindOverridesJson(o) ELSE {NoOverrides})

parseSpspMinPrice(v) ==
    IF Truthy(v) THEN {{p} : p \in parsePrice(v)} ELSE {{}}

\* The prices that loadBlsConfigFromEnv finds.
loadPrices(env) ==
    {[basePricePerByte |-> p[1], kindOverrides |-> p[2], spspMinPrice |-> m] :
        p \in loadPricingConfigFromEnv(propagateUnprefixed(env.base),
                                       propagateUnprefixed(env.overrides)),
        m \in parseSpspMinPrice(env.spspMinPrice)}

-------------------------------------------------------------------------------
\* A file, for the users of the packages: its JSON object, or what it is
\* instead ("unset" if there is no file).

loadPricingConfigFromFile(file) ==
    IF file.is # "object" THEN {}
    ELSE parsePrice(file.base)
             \X (IF file.overrides = unset THEN {NoOverrides}
                 ELSE parseKindOverridesJson(file.overrides))
===============================================================================
