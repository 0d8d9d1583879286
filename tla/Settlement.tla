------------------------------ MODULE Settlement ------------------------------
(***************************************************************************)
(* Choice of a settlement chain and token (packages/core/src/spsp/         *)
(* settlement.ts): pure functions of what the two sides support.           *)
(*                                                                         *)
(* Preferred tokens are functions whose domain is the chains that have     *)
(* one.                                                                    *)
(***************************************************************************)
EXTENDS Integers, Sequences

CONSTANTS NoChain, NoToken

\* The first chain of a list that is in a set.
FirstOf(chains, set) ==
    IF \E i \in DOMAIN chains : chains[i] \in set
    THEN chains[CHOOSE i \in DOMAIN chains :
                    /\ chains[i] \in set
                    /\ \A j \in DOMAIN chains : chains[j] \in set => i <= j]
    ELSE NoChain

Preferring(common, firstTokens, secondTokens) ==
    IF common \cap DOMAIN firstTokens # {} THEN common \cap DOMAIN firstTokens
    ELSE IF common \cap DOMAIN secondTokens # {} THEN common \cap DOMAIN secondTokens
    ELSE common

\* The intersection of the two sides' chains.
Common(requesterChains, responderChains) ==
    {chain \in responderChains : \E i \in DOMAIN requesterChains : requesterChains[i] = chain}

\* Mutation of negotiateSettlementChain: the responder's preferences come first.
negotiateForResponder(requesterChains, responderChains, requesterTokens, responderTokens) ==
    FirstOf(requesterChains, Preferring(Common(requesterChains, responderChains),
                                        responderTokens, requesterTokens))

\* A chain the requester prefers a token on, else one the responder does, else any;
\* among chains of equal rank the requester's order counts.
negotiateSettlementChain(requesterChains, responderChains, requesterTokens, responderTokens) ==
    FirstOf(requesterChains, Preferring(Common(requesterChains, responderChains),
                                        requesterTokens, responderTokens))

resolveTokenForChain(chain, requesterTokens, responderTokens) ==
    IF chain \in DOMAIN requesterTokens THEN requesterTokens[chain]
    ELSE IF chain \in DOMAIN responderTokens THEN responderTokens[chain]
    ELSE NoToken
===============================================================================
