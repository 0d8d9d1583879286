------------------------------ MODULE PeerSources ------------------------------
(***************************************************************************)
(* Where a node learns of its first peers: the bundled genesis peers and   *)
(* the additional ones of the environment (GenesisPeerLoader), the ArDrive *)
(* registry (ArDrivePeerRegistry), and what BootstrapService makes of them *)
(* and of its configured peers (packages/core/src).                        *)
(*                                                                         *)
(* An entry has the pubkey of a peer and the origin that tells it from the *)
(* others; whether its fields are well formed is "valid".                  *)
(***************************************************************************)
EXTENDS Integers, Sequences

\* What two Maps hold when the entries of the second are set after the first's.
Merged(first, second) ==
    [p \in DOMAIN first \cup DOMAIN second |->
        IF p \in DOMAIN second THEN second[p] ELSE first[p]]

NoPeers == [p \in {} |-> 0]

\* The positions of the well-formed entries.
Valid(entries) == {i \in DOMAIN entries : entries[i].valid}

\* The entries at some of the positions; the last one of a pubkey wins.
deduplicateByPubkey(entries, positions) ==
    LET last(p) == CHOOSE i \in positions :
                       /\ entries[i].pubkey = p
                       /\ \A j \in positions : entries[j].pubkey = p => j <= i
    IN [p \in {entries[i].pubkey : i \in positions} |-> entries[last(p)]]

loadGenesisPeers(genesis) == deduplicateByPubkey(genesis, Valid(genesis))

\* The variable may be unset, or hold what is not a JSON array.
loadAdditionalPeers(variable) ==
    IF variable.is = "array" THEN deduplicateByPubkey(variable.entries, Valid(variable.entries))
    ELSE NoPeers

loadAllPeers(genesis, variable) ==
    Merged(loadGenesisPeers(genesis), loadAdditionalPeers(variable))

-------------------------------------------------------------------------------
\* ArDrive: the transactions, newest first; a transaction whose data cannot be
\* fetched or is malformed is passed over, for an older one of the same peer.
\* unfetched are the positions of those that fail.
fetchPeers(registry, unfetched) ==
    IF ~registry.available THEN NoPeers
    ELSE LET usable == Valid(registry.transactions) \ unfetched
             first(p) == CHOOSE i \in usable :
                             /\ registry.transactions[i].pubkey = p
                             /\ \A j \in usable : registry.transactions[j].pubkey = p => i <= j
         IN [p \in {registry.transactions[i].pubkey : i \in usable} |->
                registry.transactions[first(p)]]

\* A peer found there is asked at defaultRelayUrl, the relay of this node; without
\* one it is passed over.
AtDefaultRelay(entry) == [entry EXCEPT !.relay = "own"]

\* Mutation of loadPeers: genesis overrides ArDrive.
loadPeersGenesisWins(sources, unfetched) ==
    LET ardrive == IF sources.ardriveEnabled /\ sources.defaultRelay
               THEN fetchPeers(sources.registry, unfetched) ELSE NoPeers
    IN Merged([p \in DOMAIN ardrive |-> AtDefaultRelay(ardrive[p])],
              loadAllPeers(sources.genesis, sources.additional))

\* ArDrive overrides genesis.
loadPeers(sources, unfetched) ==
    LET ardrive == IF sources.ardriveEnabled /\ sources.defaultRelay
               THEN fetchPeers(sources.registry, unfetched) ELSE NoPeers
    IN Merged(loadAllPeers(sources.genesis, sources.additional),
              [p \in DOMAIN ardrive |-> AtDefaultRelay(ardrive[p])])

\* The peers that bootstrap() goes through: configured ones override all others.
knownPeersMap(sources, unfetched) ==
    Merged(loadPeers(sources, unfetched),
           deduplicateByPubkey(sources.knownPeers, DOMAIN sources.knownPeers))
===============================================================================
