------------------------------ MODULE MCAgentNode ------------------------------
(* A small instance of AgentNode for TLC. *)
EXTENDS AgentNode

CONSTANTS me, alice, addr1, addr2

\* A peer that announces itself, writes a note, and announces another address;
\* somebody else writes an empty announcement in its name.
event(author, kind, stamp, content, verified) ==
    [author |-> author, kind |-> kind, stamp |-> stamp, content |-> content,
     verified |-> verified]
OwnAnnouncement == event(me, "announcement", 1, addr1, TRUE)
NodeEvents ==
    { OwnAnnouncement,
      event(alice, "announcement", 1, addr1, TRUE),
      event(alice, "other", 2, NoInfo, TRUE),
      event(alice, "announcement", 3, addr2, TRUE),
      event(alice, "announcement", 2, NoInfo, FALSE) }

entry(p, origin) == [pubkey |-> p, origin |-> origin, valid |-> TRUE, relay |-> "theirs"]
malformed(p) == [pubkey |-> p, origin |-> "none", valid |-> FALSE, relay |-> "theirs"]
array(entries) == [is |-> "array", entries |-> entries]
Nothing == [genesis |-> <<>>, additional |-> [is |-> "unset"], knownPeers |-> <<>>,
            ardriveEnabled |-> FALSE, defaultRelay |-> TRUE,
            registry |-> [available |-> FALSE, transactions |-> <<>>]]

\* No peers at all; configured peers with a duplicate, over a genesis peer, and
\* additional peers that do not parse; ArDrive with versions of a peer, and with our
\* own entry, which is not left out, over additional and genesis peers with duplicates.
NodeSources ==
    { Nothing,
      [Nothing EXCEPT
           !.genesis = <<entry(alice, "genesis1")>>,
           !.additional = [is |-> "invalid"],
           !.knownPeers = <<entry(alice, "configured1"), entry(alice, "configured2")>>],
      [Nothing EXCEPT
           !.genesis = <<entry(alice, "genesis1"), malformed(me), entry(alice, "genesis2")>>,
           !.additional = array(<<entry(alice, "additional1"), entry(alice, "additional2"),
                                  malformed(alice)>>),
           !.ardriveEnabled = TRUE,
           !.registry = [available |-> TRUE, transactions |->
                             <<malformed(alice), entry(alice, "newer"), entry(alice, "older"),
                               entry(me, "own")>>]] }
===============================================================================
