----------------------------- MODULE MCSocialTrust -----------------------------
(* A small instance of SocialTrust for TLC. *)
EXTENDS SocialTrust

CONSTANTS me, friend, fan, far, peer

\* A path of three steps with a cycle and a dead end, and a short path beside it
\* with an account that follows both ends.
Graphs ==
    { {<<me, friend>>, <<friend, me>>, <<friend, far>>, <<far, peer>>, <<me, fan>>},
      {<<me, friend>>, <<friend, peer>>, <<fan, me>>, <<fan, peer>>, <<me, far>>} }

\* Nothing older, or an account that followed both ends and a longer way to the peer.
OldLists == { {}, {<<far, me>>, <<far, peer>>, <<friend, far>>} }
===============================================================================
