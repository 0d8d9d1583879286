--------------------------- MODULE MCSocialDiscovery ---------------------------
(* Small instances of SocialDiscovery for TLC. *)
EXTENDS SocialDiscovery

CONSTANTS alice, bob

\* Both are followed, or one, or nobody.
OneOrBoth == {{}, {alice}, {alice, bob}}

\* As docker/src/entrypoint.ts has it (where removePeer is of no use), with
\* unfollows, and with unfollows but no connector.
WithAndWithout ==
    {{"admin"}, {"admin", "removePeer", "removePeersOnUnfollow"}, {"removePeersOnUnfollow"}}
===============================================================================
