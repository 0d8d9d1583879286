---------------------------- MODULE MCSpspExchange ----------------------------
(* A small instance of SpspExchange for TLC. *)
EXTENDS SpspExchange, TLC

CONSTANTS alice, first, second, anvil, base, usdc, dai

\* Two requests of one client.  The first goes to both relays and has a preferred
\* token on the chain it likes less; the second has no settlement address.
RelaysOf == first :> Relays @@ second :> Pushing
ClientOf == [q \in Requests |-> alice]
SupportedChains == first :> <<base, anvil>> @@ second :> <<anvil>>
SettlementAddresses == first :> {anvil, base} @@ second :> {}
NoTokens == [chain \in {} |-> usdc]
PreferredTokens == first :> (anvil :> dai) @@ second :> NoTokens

\* A server that prefers the other chain, and one without address on its only one.
ServerConfigs ==
    { [chains |-> {anvil, base}, addresses |-> {anvil, base}, tokens |-> base :> usdc],
      [chains |-> {base}, addresses |-> {}, tokens |-> base :> usdc] }
===============================================================================
