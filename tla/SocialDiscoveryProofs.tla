------------------------- MODULE SocialDiscoveryProofs -------------------------
(***************************************************************************)
(* Proofs about SocialDiscovery, for any follow lists, any number of them  *)
(* and any interleaving of their tasks.                                    *)
(***************************************************************************)
EXTENDS SocialDiscovery, TLAPS

Steps == Calling \cup {"idle", "querying", "requesting", "coolingDown", "done"}

OneOrNone == {{}} \cup {{p} : p \in Contacts}

\* The peers an update has to follow, and those it has to unfollow.
Following(u) == IF InFlight(u) /\ step[u] # "removing" THEN newFollows[u] \cup pubkey[u] ELSE {}

Unfollowing(u) ==
    IF InFlight(u) /\ RemovePeersOnUnfollow
    THEN unfollows[u] \cup (IF step[u] = "removing" THEN pubkey[u] ELSE {})
    ELSE {}

\* A list that has not come has no task; follows come before unfollows, and no
\* peer is served twice by one task.
TaskInv(u) ==
    /\ u > updates => step[u] = "idle"
    /\ step[u] \in {"idle", "removing"} => newFollows[u] = {}
    /\ step[u] \in {"idle", "coolingDown", "done"} => pubkey[u] = {}
    /\ step[u] = "adding" => HasAdmin /\ pubkey[u] \subseteq live
    /\ step[u] = "removing" => RemovePeersOnUnfollow /\ CanRemove
    /\ InFlight(u) => /\ newFollows[u] \cap unfollows[u] = {}
                      /\ pubkey[u] \cap (newFollows[u] \cup unfollows[u]) = {}

\* A peer that two tasks serve was followed or unfollowed while one did.
OneServer ==
    \A u, v \in Updates : Serves(u) \cap Serves(v) \subseteq disturbed \/ u = v

\* Set and connector agree on a peer.
Agree(p) ==
    /\ p \in peeredPubkeys /\ HasAdmin => p \in connector
    /\ p \in connector /\ CanRemove => p \in peeredPubkeys

\* A peer that is being followed is in the list and not in the set; a connector
\* that can remove has it only if the call succeeded.
FollowInv(p, u) ==
    /\ p \in previousFollows /\ p \notin peeredPubkeys
    /\ (step[u] = "adding" /\ p \in pubkey[u] /\ call[u] = "ok") => p \in connector
    /\ CanRemove /\ p \in connector => step[u] = "adding" /\ p \in pubkey[u] /\ call[u] = "ok"

\* One that is being unfollowed is not in the list; until the connector has been
\* called, set and connector agree, and after that the connector has it no more.
UnfollowInv(p, u) ==
    /\ p \notin previousFollows
    /\ IF step[u] = "removing" /\ p \in pubkey[u] /\ call[u] \in {"ok", "error"}
       THEN p \notin connector /\ (call[u] = "error" => p \notin peeredPubkeys)
       ELSE Agree(p)

\* One that nobody serves has been served to the end.
RestInv(p) ==
    /\ Agree(p)
    /\ p \in peeredPubkeys /\ RemovePeersOnUnfollow => p \in previousFollows
    /\ p \in previousFollows => p \in peeredPubkeys \/ p \in failed

ServedInv(p, u) == /\ p \in Following(u) => FollowInv(p, u)
                   /\ p \in Unfollowing(u) => UnfollowInv(p, u)

PeerInv(p) ==
    /\ \A u \in Updates : ServedInv(p, u)
    /\ (\A u \in Updates : p \notin Serves(u)) => RestInv(p)

SocialInv == /\ SocialTypeOK /\ PeersAnswered /\ OneServer
             /\ \A u \in Updates : TaskInv(u)
             /\ \A p \in Contacts \ disturbed : PeerInv(p)

-------------------------------------------------------------------------------
\* The initial states satisfy the invariant.
LEMMA InitInv == SocialInit => SocialInv
<1> SUFFICES ASSUME SocialInit PROVE SocialInv
    OBVIOUS
<1> USE DEF SocialInit
<1>1. SocialTypeOK
  <2>1. started \in BOOLEAN
    BY Zenon
  <2>6. updates \in 0..MaxUpdates
    BY MaxUpdatesAssumption
  <2>7. /\ options \in Given
        /\ previousFollows \subseteq Contacts /\ peeredPubkeys \subseteq Contacts
        /\ connector \subseteq Contacts
        /\ live \subseteq Contacts /\ failed \subseteq Contacts /\ disturbed \subseteq Contacts
    OBVIOUS
  <2>2. /\ newFollows \in [Updates -> SUBSET Contacts]
        /\ unfollows \in [Updates -> SUBSET Contacts]
    OBVIOUS
  <2>3. step \in [Updates -> Steps]
    BY DEF Steps
  <2>4. pubkey \in [Updates -> OneOrNone]
    BY DEF OneOrNone
  <2>5. call \in [Updates -> {"none", "sent", "ok", "error"}]
    OBVIOUS
  <2> QED
    BY <2>1, <2>2, <2>3, <2>4, <2>5, <2>6, <2>7 DEF SocialTypeOK, Steps, OneOrNone
<1>2. \A u \in Updates : ~InFlight(u) /\ TaskInv(u)
    BY DEF TaskInv, InFlight
<1>3. OneServer /\ PeersAnswered
    BY <1>2 DEF OneServer, Serves, PeersAnswered
<1>4. \A p \in Contacts : PeerInv(p)
    BY <1>2 DEF PeerInv, ServedInv, Following, Unfollowing, RestInv, Agree
<1> QED
    BY <1>1, <1>2, <1>3, <1>4 DEF SocialInv

\* What a task serves it follows or unfollows.
LEMMA ServesSplit ==
    ASSUME NEW u, TaskInv(u)
    PROVE  Serves(u) = Following(u) \cup Unfollowing(u)
BY DEF TaskInv, Serves, Following, Unfollowing

LEMMA ServesSplitNext ==
    ASSUME NEW u, TaskInv(u)'
    PROVE  Serves(u)' = Following(u)' \cup Unfollowing(u)'
BY DEF TaskInv, Serves, Following, Unfollowing

\* The parts of the state that tasks touch, each for itself.
LEMMA SocialTypes ==
    ASSUME SocialInv
    PROVE  /\ options \in Given /\ updates \in 0..MaxUpdates
           /\ previousFollows \subseteq Contacts /\ peeredPubkeys \subseteq Contacts
           /\ newFollows \in [Updates -> SUBSET Contacts]
           /\ unfollows \in [Updates -> SUBSET Contacts]
           /\ step \in [Updates -> Steps]
           /\ pubkey \in [Updates -> OneOrNone]
           /\ call \in [Updates -> {"none", "sent", "ok", "error"}]
           /\ \A u \in Updates : TaskInv(u)
BY DEF SocialInv, SocialTypeOK, Steps, OneOrNone

SameTask(v) == UNCHANGED <<newFollows[v], unfollows[v], step[v], pubkey[v], call[v]>>

\* A task that did nothing serves whom it served.
LEMMA OthersFramed ==
    ASSUME UNCHANGED options, NEW v, SameTask(v)
    PROVE  /\ Serves(v)' = Serves(v)
           /\ Following(v)' = Following(v) /\ Unfollowing(v)' = Unfollowing(v)
BY DEF SameTask, Serves, Following, Unfollowing, InFlight, RemovePeersOnUnfollow

\* What is said of a peer that a step leaves where it is still holds.
SamePeer(p) == /\ p \in peeredPubkeys' <=> p \in peeredPubkeys
               /\ p \in connector' <=> p \in connector
               /\ p \in failed' <=> p \in failed
               /\ p \in previousFollows' <=> p \in previousFollows

LEMMA PeerFramed ==
    ASSUME UNCHANGED options, NEW p, SamePeer(p)
    PROVE  /\ RestInv(p) => RestInv(p)'
           /\ \A v : SameTask(v) /\ ServedInv(p, v) => ServedInv(p, v)'
BY OthersFramed DEF SamePeer, SameTask, RestInv, Agree, ServedInv, FollowInv, UnfollowInv,
                    HasAdmin, CanRemove, RemovePeersOnUnfollow

\* A step of one task: the peers it serves keep their invariant, or are served to
\* the end; the others are left where they are.
LEMMA TaskStepInv ==
    ASSUME SocialInv, NEW u \in Updates,
           SocialTypeOK', PeersAnswered', TaskInv(u)',
           UNCHANGED <<options, updates, previousFollows>>,
           disturbed \subseteq disturbed', live \subseteq live',
           \A v \in Updates \ {u} : SameTask(v),
           Serves(u)' \subseteq Serves(u),
           \A p \in Contacts \ disturbed' :
               IF p \in Serves(u)' THEN ServedInv(p, u)'
               ELSE IF p \in Serves(u) THEN RestInv(p)'
               ELSE SamePeer(p)
    PROVE  SocialInv'
<1>1. \A v \in Updates : Serves(v)' \subseteq Serves(v)
    BY OthersFramed
<1>2. OneServer'
    BY <1>1 DEF SocialInv, OneServer
<1>3. ASSUME NEW v \in Updates PROVE TaskInv(v)'
  <2>1. CASE v = u
    BY <2>1
  <2>2. CASE v # u
    <3>1. SameTask(v) /\ TaskInv(v)
      BY <2>2, SocialTypes
    <3> QED
      BY <3>1 DEF TaskInv, SameTask, InFlight, HasAdmin, CanRemove, RemovePeersOnUnfollow
  <2> QED
    BY <2>1, <2>2
<1>4. ASSUME NEW p \in Contacts \ disturbed' PROVE PeerInv(p)'
  <2>1. PeerInv(p) /\ p \notin disturbed
    BY DEF SocialInv
  <2>2. CASE p \in Serves(u)
    <3>1. \A v \in Updates \ {u} : p \notin Serves(v) /\ p \notin Serves(v)'
      BY <1>1, <2>1, <2>2 DEF SocialInv, OneServer
    <3>2. \A v \in Updates : p \in Serves(v)' \/ ServedInv(p, v)'
      BY <1>3, ServesSplitNext DEF ServedInv
    <3> QED
      BY <2>2, <3>1, <3>2 DEF PeerInv
  <2>3. CASE p \notin Serves(u)
    <3>1. SamePeer(p) /\ p \notin Serves(u)'
      BY <2>3
    <3>2. \A v \in Updates \ {u} : ServedInv(p, v)'
      BY <2>1, <3>1, PeerFramed DEF PeerInv
    <3>3. ServedInv(p, u)'
      BY <1>3, <3>1, ServesSplitNext DEF ServedInv
    <3>4. (\A v \in Updates : p \notin Serves(v)') => RestInv(p)'
      BY <2>1, <2>3, <3>1, PeerFramed, OthersFramed DEF PeerInv
    <3> QED
      BY <3>2, <3>3, <3>4 DEF PeerInv
  <2> QED
    BY <2>2, <2>3
<1> QED
    BY <1>2, <1>3, <1>4 DEF SocialInv

-------------------------------------------------------------------------------
\* The awaits.

LEMMA AwaitEffect ==
    ASSUME SocialInv, NEW u \in Updates, NEW s \in Steps, NEW p \in OneOrNone, Await(u, s, p)
    PROVE  /\ step' \in [Updates -> Steps] /\ pubkey' \in [Updates -> OneOrNone]
           /\ call' \in [Updates -> {"none", "sent", "ok", "error"}]
           /\ step'[u] = s /\ pubkey'[u] = p
           /\ call'[u] = IF s \in Calling THEN "sent" ELSE "none"
           /\ \A v \in Updates \ {u} : UNCHANGED <<step[v], pubkey[v], call[v]>>
BY SocialTypes DEF Await

\* What the types say of a state after a step of a task.
LEMMA TypesKept ==
    ASSUME SocialInv, UNCHANGED <<options, started, updates, previousFollows>>,
           peeredPubkeys' \subseteq Contacts, connector' \subseteq Contacts,
           live' \subseteq Contacts, failed' \subseteq Contacts, disturbed' \subseteq Contacts,
           newFollows' \in [Updates -> SUBSET Contacts],
           unfollows' \in [Updates -> SUBSET Contacts],
           step' \in [Updates -> Steps], pubkey' \in [Updates -> OneOrNone],
           call' \in [Updates -> {"none", "sent", "ok", "error"}]
    PROVE  SocialTypeOK'
BY DEF SocialInv, SocialTypeOK, Steps, OneOrNone

LEMMA HistoryTypes ==
    ASSUME SocialInv
    PROVE  /\ connector \subseteq Contacts /\ live \subseteq Contacts
           /\ failed \subseteq Contacts /\ disturbed \subseteq Contacts
           /\ started \in BOOLEAN
BY DEF SocialInv, SocialTypeOK

\* A task begins to unfollow, or is done with it at once.
LEMMA UnfollowEffect ==
    ASSUME SocialInv, NEW u \in Updates, NEW todo \in SUBSET Contacts,
           NEW peered \in SUBSET Contacts, handleUnfollow(u, todo, peered)
    PROVE  /\ step' \in [Updates -> Steps] /\ pubkey' \in [Updates -> OneOrNone]
           /\ call' \in [Updates -> {"none", "sent", "ok", "error"}]
           /\ unfollows' \in [Updates -> SUBSET Contacts] /\ peeredPubkeys' \subseteq Contacts
           /\ \A v \in Updates \ {u} : UNCHANGED <<step[v], pubkey[v], call[v], unfollows[v]>>
           /\ \/ /\ RemovePeersOnUnfollow /\ CanRemove /\ peeredPubkeys' = peered
                 /\ step'[u] = "removing" /\ call'[u] = "sent"
                 /\ \E p \in todo : pubkey'[u] = {p} /\ unfollows'[u] = todo \ {p}
              \/ /\ todo = {} \/ ~RemovePeersOnUnfollow \/ ~CanRemove
                 /\ step'[u] = "done" /\ call'[u] = "none"
                 /\ pubkey'[u] = {} /\ unfollows'[u] = {}
                 /\ peeredPubkeys' = IF RemovePeersOnUnfollow THEN peered \ todo ELSE peered
<1>1. CASE /\ RemovePeersOnUnfollow /\ CanRemove /\ peeredPubkeys' = peered
           /\ \E p \in todo : /\ Await(u, "removing", {p})
                              /\ unfollows' = [unfollows EXCEPT ![u] = todo \ {p}]
  <2>1. PICK p \in todo : /\ Await(u, "removing", {p})
                          /\ unfollows' = [unfollows EXCEPT ![u] = todo \ {p}]
    BY <1>1
  <2>2. {p} \in OneOrNone /\ "removing" \in Steps /\ "removing" \in Calling
    BY DEF OneOrNone, Steps, Calling
  <2> QED
    BY <1>1, <2>1, <2>2, AwaitEffect, SocialTypes
<1>2. CASE /\ todo = {} \/ ~RemovePeersOnUnfollow \/ ~CanRemove
           /\ Await(u, "done", {})
           /\ unfollows' = [unfollows EXCEPT ![u] = {}]
           /\ peeredPubkeys' = IF RemovePeersOnUnfollow THEN peered \ todo ELSE peered
  <2>1. {} \in OneOrNone /\ "done" \in Steps /\ "done" \notin Calling
    BY DEF OneOrNone, Steps, Calling
  <2> QED
    BY <1>2, <2>1, AwaitEffect, SocialTypes
<1> QED
  BY <1>1, <1>2 DEF handleUnfollow

\* A task that has served a peer to the end goes on with the others.
LEMMA ContinueInv ==
    ASSUME SocialInv, NEW u \in Updates,
           step[u] \in {"requesting", "querying", "adding", "removing"},
           NEW peered \in SUBSET Contacts, Continue(u, peered),
           peered \ pubkey[u] = peeredPubkeys \ pubkey[u], peered \subseteq live',
           UNCHANGED <<options, started, updates, previousFollows, connector, disturbed>>,
           live \subseteq live', live' \subseteq Contacts,
           failed' \subseteq Contacts, failed' \ pubkey[u] = failed \ pubkey[u],
           \A p \in pubkey[u] \ disturbed :
               (p \in peeredPubkeys' <=> p \in peered) => RestInv(p)'
    PROVE  SocialInv'
<1>1. /\ TaskInv(u) /\ InFlight(u) /\ pubkey[u] \subseteq Contacts
      /\ newFollows[u] \subseteq Contacts /\ unfollows[u] \subseteq Contacts
  BY SocialTypes DEF InFlight, OneOrNone
<1>2. /\ newFollows' = newFollows
      /\ newFollows' \in [Updates -> SUBSET Contacts]
  BY SocialTypes DEF Continue
<1>3. /\ step' \in [Updates -> Steps] /\ pubkey' \in [Updates -> OneOrNone]
      /\ call' \in [Updates -> {"none", "sent", "ok", "error"}]
      /\ unfollows' \in [Updates -> SUBSET Contacts] /\ peeredPubkeys' \subseteq Contacts
      /\ \A v \in Updates \ {u} : UNCHANGED <<step[v], pubkey[v], call[v], unfollows[v]>>
      /\ \/ /\ newFollows[u] # {} /\ peeredPubkeys' = peered
            /\ step'[u] = "coolingDown" /\ call'[u] = "none" /\ pubkey'[u] = {}
            /\ unfollows'[u] = unfollows[u]
         \/ /\ newFollows[u] = {}
            /\ RemovePeersOnUnfollow /\ CanRemove /\ peeredPubkeys' = peered
            /\ step'[u] = "removing" /\ call'[u] = "sent"
            /\ \E p \in unfollows[u] : pubkey'[u] = {p} /\ unfollows'[u] = unfollows[u] \ {p}
         \/ /\ newFollows[u] = {}
            /\ unfollows[u] = {} \/ ~RemovePeersOnUnfollow \/ ~CanRemove
            /\ step'[u] = "done" /\ call'[u] = "none"
            /\ pubkey'[u] = {} /\ unfollows'[u] = {}
            /\ peeredPubkeys' = IF RemovePeersOnUnfollow THEN peered \ unfollows[u] ELSE peered
  <2>1. CASE newFollows[u] # {}
    <3>1. /\ Await(u, "coolingDown", {}) /\ peeredPubkeys' = peered
          /\ unfollows' = unfollows
      BY <2>1 DEF Continue
    <3>2. {} \in OneOrNone /\ "coolingDown" \in Steps /\ "coolingDown" \notin Calling
      BY DEF OneOrNone, Steps, Calling
    <3>3. unfollows' \in [Updates -> SUBSET Contacts] /\ unfollows'[u] = unfollows[u]
      BY <3>1, SocialTypes
    <3>4. /\ step' \in [Updates -> Steps] /\ pubkey' \in [Updates -> OneOrNone]
          /\ call' \in [Updates -> {"none", "sent", "ok", "error"}]
          /\ step'[u] = "coolingDown" /\ pubkey'[u] = {} /\ call'[u] = "none"
          /\ \A v \in Updates \ {u} : UNCHANGED <<step[v], pubkey[v], call[v]>>
      BY <3>1, <3>2, AwaitEffect
    <3> QED
      BY <2>1, <3>1, <3>3, <3>4
  <2>2. CASE newFollows[u] = {}
    <3>1. handleUnfollow(u, unfollows[u], peered)
      BY <2>2 DEF Continue
    <3>2. unfollows[u] \in SUBSET Contacts
      BY <1>1
    <3>3. /\ step' \in [Updates -> Steps] /\ pubkey' \in [Updates -> OneOrNone]
          /\ call' \in [Updates -> {"none", "sent", "ok", "error"}]
          /\ unfollows' \in [Updates -> SUBSET Contacts] /\ peeredPubkeys' \subseteq Contacts
          /\ \A v \in Updates \ {u} : UNCHANGED <<step[v], pubkey[v], call[v], unfollows[v]>>
      BY <3>1, <3>2, UnfollowEffect
    <3>4. \/ /\ RemovePeersOnUnfollow /\ CanRemove /\ peeredPubkeys' = peered
             /\ step'[u] = "removing" /\ call'[u] = "sent"
             /\ \E p \in unfollows[u] : pubkey'[u] = {p} /\ unfollows'[u] = unfollows[u] \ {p}
          \/ /\ unfollows[u] = {} \/ ~RemovePeersOnUnfollow \/ ~CanRemove
             /\ step'[u] = "done" /\ call'[u] = "none"
             /\ pubkey'[u] = {} /\ unfollows'[u] = {}
             /\ peeredPubkeys' = IF RemovePeersOnUnfollow THEN peered \ unfollows[u] ELSE peered
      BY <3>1, <3>2, UnfollowEffect
    <3> QED
      BY <2>2, <3>3, <3>4
  <2> QED
    BY <2>1, <2>2
<1>4. SocialTypeOK'
  BY <1>2, <1>3, HistoryTypes, TypesKept
<1>5. PeersAnswered'
  BY <1>3 DEF SocialInv, PeersAnswered
<1>6. TaskInv(u)'
  BY <1>1, <1>2, <1>3 DEF TaskInv, InFlight, RemovePeersOnUnfollow, CanRemove
<1>7. \A v \in Updates \ {u} : SameTask(v)
  BY <1>2, <1>3 DEF SameTask
<1>8. Serves(u)' \subseteq Serves(u) \ pubkey[u]
  BY <1>1, <1>2, <1>3 DEF TaskInv, Serves, InFlight, RemovePeersOnUnfollow
<1>9. ASSUME NEW p \in Contacts \ disturbed'
      PROVE  IF p \in Serves(u)' THEN ServedInv(p, u)'
             ELSE IF p \in Serves(u) THEN RestInv(p)'
             ELSE SamePeer(p)
  <2>1. PeerInv(p) /\ p \notin disturbed
    BY DEF SocialInv
  <2>2. CASE p \in Serves(u)'
    <3>1. p \notin pubkey[u] /\ p \in Serves(u) /\ ServedInv(p, u)
      BY <1>8, <2>1, <2>2 DEF PeerInv
    <3>2. p \in Following(u)' => FollowInv(p, u)'
      BY <1>1, <1>2, <1>3, <3>1
         DEF TaskInv, Following, InFlight, ServedInv, FollowInv, CanRemove
    <3>3. p \in Unfollowing(u)' => UnfollowInv(p, u)'
      BY <1>1, <1>2, <1>3, <3>1
         DEF TaskInv, Unfollowing, InFlight, ServedInv, UnfollowInv, Agree, HasAdmin, CanRemove,
             RemovePeersOnUnfollow
    <3> QED
      BY <2>2, <3>2, <3>3 DEF ServedInv
  <2>3. CASE p \in Serves(u) /\ p \notin Serves(u)'
    <3>1. CASE p \in pubkey[u]
      <4>1. p \notin unfollows[u]
        BY <1>1, <3>1 DEF TaskInv
      <4>2. p \in peeredPubkeys' <=> p \in peered
        BY <1>3, <4>1
      <4> QED
        BY <2>1, <2>3, <3>1, <4>2
    <3>2. CASE p \notin pubkey[u]
      <4>1. /\ p \in unfollows[u] /\ RemovePeersOnUnfollow /\ ~CanRemove
            /\ p \notin peeredPubkeys'
        BY <1>1, <1>2, <1>3, <2>3, <3>2 DEF Serves, InFlight, RemovePeersOnUnfollow
      <4>2. UnfollowInv(p, u)
        BY <1>1, <2>1, <4>1 DEF PeerInv, ServedInv, Unfollowing
      <4> QED
        BY <2>3, <4>1, <4>2 DEF UnfollowInv, RestInv, Agree, CanRemove
    <3> QED
      BY <3>1, <3>2
  <2>4. CASE p \notin Serves(u)
    <3>1. p \notin pubkey[u] /\ (p \in unfollows[u] => ~RemovePeersOnUnfollow)
      BY <1>1, <2>4 DEF Serves
    <3>2. SamePeer(p)
      BY <1>3, <3>1 DEF SamePeer
    <3> QED
      BY <1>8, <2>4, <3>2
  <2> QED
    BY <2>2, <2>3, <2>4
<1> QED
  BY <1>4, <1>5, <1>6, <1>7, <1>8, <1>9, TaskStepInv

-------------------------------------------------------------------------------
\* The steps of a task.

LEMMA PeeredInv == ASSUME SocialInv, NEW u \in Updates, Peered(u) PROVE SocialInv'
<1> DEFINE peered == peeredPubkeys \cup pubkey[u]
<1>1. /\ TaskInv(u) /\ InFlight(u) /\ pubkey[u] \subseteq Contacts /\ peeredPubkeys \subseteq live
      /\ CanRemove => HasAdmin
  BY SocialTypes, GivenAssumption
     DEF Peered, Resumed, InFlight, OneOrNone, SocialInv, PeersAnswered, CanRemove, HasAdmin
<1>2. /\ step[u] \in {"requesting", "adding"} /\ pubkey[u] \subseteq live'
      /\ UNCHANGED <<options, started, updates, previousFollows, connector, disturbed>>
      /\ live \subseteq live' /\ live' \subseteq Contacts
      /\ failed' = failed \ pubkey[u] /\ Continue(u, peered)
      /\ HasAdmin => step[u] = "adding" /\ call[u] = "ok"
  BY <1>1, HistoryTypes DEF Peered, Resumed, TaskInv
<1>3. ASSUME NEW p \in pubkey[u] \ disturbed, p \in peeredPubkeys' <=> p \in peered
      PROVE  RestInv(p)'
  <2>1. FollowInv(p, u)
    BY <1>1, <1>2 DEF SocialInv, PeerInv, ServedInv, Following
  <2> QED
    BY <1>1, <1>2, <1>3, <2>1 DEF FollowInv, RestInv, Agree, HasAdmin
<1>4. peered \in SUBSET Contacts
  BY <1>1, SocialTypes
<1> QED
  BY <1>1, <1>2, <1>3, <1>4, ContinueInv, HistoryTypes

LEMMA FollowFailedInv == ASSUME SocialInv, NEW u \in Updates, FollowFailed(u) PROVE SocialInv'
<1>1. /\ TaskInv(u) /\ InFlight(u) /\ pubkey[u] \subseteq Contacts /\ peeredPubkeys \subseteq live
  BY SocialTypes DEF FollowFailed, Resumed, InFlight, OneOrNone, SocialInv, PeersAnswered
<1>2. /\ step[u] \in {"querying", "requesting", "adding"} /\ (step[u] = "adding" => call[u] = "error")
      /\ UNCHANGED <<options, started, updates, previousFollows, connector, disturbed, live>>
      /\ failed' = failed \cup pubkey[u] /\ Continue(u, peeredPubkeys)
  BY DEF FollowFailed, Resumed
<1>3. ASSUME NEW p \in pubkey[u] \ disturbed, p \in peeredPubkeys' <=> p \in peeredPubkeys
      PROVE  RestInv(p)'
  <2>1. FollowInv(p, u)
    BY <1>1, <1>2 DEF SocialInv, PeerInv, ServedInv, Following
  <2> QED
    BY <1>1, <1>2, <1>3, <2>1 DEF FollowInv, RestInv, Agree, CanRemove
<1>4. peeredPubkeys \in SUBSET Contacts
  BY SocialTypes
<1> QED
  BY <1>1, <1>2, <1>3, <1>4, ContinueInv, HistoryTypes

LEMMA UnfollowedInv == ASSUME SocialInv, NEW u \in Updates, Unfollowed(u) PROVE SocialInv'
<1> DEFINE peered == IF call[u] = "ok" THEN peeredPubkeys \ pubkey[u] ELSE peeredPubkeys
<1>1. /\ TaskInv(u) /\ InFlight(u) /\ pubkey[u] \subseteq Contacts /\ peeredPubkeys \subseteq live
  BY SocialTypes DEF Unfollowed, Resumed, InFlight, OneOrNone, SocialInv, PeersAnswered
<1>2. /\ step[u] = "removing" /\ call[u] \in {"ok", "error"}
      /\ UNCHANGED <<options, started, updates, previousFollows, connector, disturbed, live, failed>>
      /\ Continue(u, peered)
  BY <1>1 DEF Unfollowed, Resumed, TaskInv, Continue
<1>3. ASSUME NEW p \in pubkey[u] \ disturbed, p \in peeredPubkeys' <=> p \in peered
      PROVE  RestInv(p)'
  <2>1. UnfollowInv(p, u)
    BY <1>1, <1>2 DEF SocialInv, PeerInv, ServedInv, Unfollowing, TaskInv
  <2> QED
    BY <1>1, <1>2, <1>3, <2>1 DEF UnfollowInv, RestInv, Agree
<1>4. peered \in SUBSET Contacts
  BY SocialTypes
<1> QED
  BY <1>1, <1>2, <1>3, <1>4, ContinueInv, HistoryTypes

\* The steps within the serving of a peer.
LEMMA ResumedInv ==
    ASSUME SocialInv, NEW u \in Updates,
           PeerQueried(u) \/ PeerAlive(u) \/ CooledDown(u)
    PROVE  SocialInv'
<1>1. /\ TaskInv(u) /\ pubkey[u] \in OneOrNone /\ pubkey[u] \subseteq Contacts
      /\ newFollows[u] \subseteq Contacts
  BY SocialTypes DEF OneOrNone
<1>2. /\ UNCHANGED <<options, started, updates, previousFollows, connector, disturbed,
                     peeredPubkeys, unfollows, failed>>
      /\ live \subseteq live' /\ live' \subseteq Contacts
      /\ step[u] \in {"querying", "requesting", "coolingDown"}
  BY <1>1, HistoryTypes DEF PeerQueried, PeerAlive, CooledDown, Resumed
<1>3. /\ step' \in [Updates -> Steps] /\ pubkey' \in [Updates -> OneOrNone]
      /\ call' \in [Updates -> {"none", "sent", "ok", "error"}]
      /\ newFollows' \in [Updates -> SUBSET Contacts]
      /\ \A v \in Updates \ {u} : UNCHANGED <<step[v], pubkey[v], call[v], newFollows[v]>>
      /\ call'[u] # "ok" /\ step'[u] \in {"querying", "requesting", "adding"}
      /\ (step'[u] = "adding" => HasAdmin /\ pubkey'[u] \subseteq live')
      /\ newFollows'[u] \cup pubkey'[u] = newFollows[u] \cup pubkey[u]
      /\ newFollows'[u] \cap pubkey'[u] = {}
  <2>1. CASE PeerQueried(u) \/ PeerAlive(u)
    <3>1. PICK s \in {"requesting", "adding"} :
              Await(u, s, pubkey[u]) /\ (s = "adding" => HasAdmin /\ pubkey[u] \subseteq live')
      BY <2>1 DEF PeerQueried, PeerAlive
    <3>2. s \in Steps
      BY DEF Steps, Calling
    <3>3. newFollows' = newFollows /\ newFollows[u] \cap pubkey[u] = {}
      BY <1>1, <1>2, <2>1 DEF PeerQueried, PeerAlive, TaskInv, InFlight
    <3>4. /\ step' \in [Updates -> Steps] /\ pubkey' \in [Updates -> OneOrNone]
          /\ call' \in [Updates -> {"none", "sent", "ok", "error"}]
          /\ step'[u] = s /\ pubkey'[u] = pubkey[u] /\ call'[u] # "ok"
          /\ \A v \in Updates \ {u} : UNCHANGED <<step[v], pubkey[v], call[v]>>
      BY <1>1, <3>1, <3>2, AwaitEffect
    <3> QED
      BY <3>1, <3>3, <3>4, SocialTypes
  <2>2. CASE CooledDown(u)
    <3>1. PICK p \in newFollows[u] :
              /\ Await(u, "querying", {p})
              /\ newFollows' = [newFollows EXCEPT ![u] = newFollows[u] \ {p}]
      BY <2>2 DEF CooledDown, handleNewFollow
    <3>2. "querying" \in Steps /\ {p} \in OneOrNone
      BY <1>1 DEF Steps, OneOrNone
    <3>3. pubkey[u] = {}
      BY <1>1, <2>2 DEF CooledDown, Resumed, TaskInv
    <3>4. /\ step' \in [Updates -> Steps] /\ pubkey' \in [Updates -> OneOrNone]
          /\ call' \in [Updates -> {"none", "sent", "ok", "error"}]
          /\ step'[u] = "querying" /\ pubkey'[u] = {p} /\ call'[u] # "ok"
          /\ \A v \in Updates \ {u} : UNCHANGED <<step[v], pubkey[v], call[v]>>
      BY <3>1, <3>2, AwaitEffect DEF Calling
    <3>5. /\ newFollows' \in [Updates -> SUBSET Contacts]
          /\ newFollows'[u] = newFollows[u] \ {p}
          /\ \A v \in Updates \ {u} : newFollows'[v] = newFollows[v]
      BY <1>1, <3>1, SocialTypes
    <3> QED
      BY <3>1, <3>3, <3>4, <3>5
  <2> QED
    BY <2>1, <2>2
<1>4. SocialTypeOK'
  BY <1>2, <1>3, HistoryTypes, SocialTypes, TypesKept
<1>5. PeersAnswered'
  BY <1>2 DEF SocialInv, PeersAnswered
<1>6. TaskInv(u)'
  <2>1. ~(u > updates)
    BY <1>1, <1>2 DEF TaskInv
  <2>2. /\ newFollows[u] \cap unfollows[u] = {}
        /\ pubkey[u] \cap (newFollows[u] \cup unfollows[u]) = {}
    BY <1>1, <1>2 DEF TaskInv, InFlight
  <2>3. /\ newFollows'[u] \cap unfollows'[u] = {}
        /\ pubkey'[u] \cap (newFollows'[u] \cup unfollows'[u]) = {}
    BY <1>2, <1>3, <2>2
  <2>4. ~(u > updates')
    BY <1>2, <2>1
  <2> QED
    BY <1>2, <1>3, <2>3, <2>4 DEF TaskInv, HasAdmin
<1>7. \A v \in Updates \ {u} : SameTask(v)
  BY <1>2, <1>3 DEF SameTask
<1>8. Following(u)' = Following(u) /\ Unfollowing(u)' = Unfollowing(u) /\ Serves(u)' = Serves(u)
  BY <1>2, <1>3 DEF Following, Unfollowing, Serves, InFlight, RemovePeersOnUnfollow
<1>9. ASSUME NEW p \in Contacts \ disturbed'
      PROVE  IF p \in Serves(u)' THEN ServedInv(p, u)'
             ELSE IF p \in Serves(u) THEN RestInv(p)'
             ELSE SamePeer(p)
  <2>1. ServedInv(p, u)
    BY <1>2 DEF SocialInv, PeerInv
  <2>2. ServedInv(p, u)'
    BY <1>2, <1>3, <1>8, <2>1
       DEF ServedInv, FollowInv, UnfollowInv, Agree, HasAdmin, CanRemove
  <2> QED
    BY <1>2, <1>8, <2>2 DEF SamePeer
<1> QED
  BY <1>2, <1>4, <1>5, <1>6, <1>7, <1>8, <1>9, TaskStepInv

-------------------------------------------------------------------------------
\* The connector's answers.

LEMMA ConnectorInv == ASSUME SocialInv, NEW u \in Updates, Connector(u) PROVE SocialInv'
<1>1. /\ TaskInv(u) /\ pubkey[u] \subseteq Contacts /\ (CanRemove => HasAdmin)
      /\ updates \in 0..MaxUpdates
  BY SocialTypes, GivenAssumption DEF OneOrNone, CanRemove, HasAdmin
<1>2. PICK s \in Calling, answer \in {"ok", "error"} :
          /\ Answered(u, s, answer)
          /\ \/ /\ s = "adding" /\ connector' = connector \cup pubkey[u]
                /\ IF answer = "ok" THEN disturbed' = disturbed
                                   ELSE disturbed' = disturbed \cup pubkey[u]
             \/ /\ s = "removing" /\ connector' = connector \ pubkey[u]
                /\ IF answer = "ok" THEN disturbed' = disturbed
                                   ELSE disturbed' = disturbed \cup (pubkey[u] \cap connector)
             \/ /\ answer = "error" /\ connector' = connector
                /\ IF s = "adding" THEN disturbed' = disturbed
                                  ELSE disturbed' = disturbed \cup pubkey[u]
  BY DEF Connector, ConnectorAdds, ConnectorRemoves, ConnectorRefuses, Calling
<1>3. /\ UNCHANGED <<options, started, updates, previousFollows, peeredPubkeys,
                     newFollows, unfollows, step, pubkey, live, failed>>
      /\ step[u] = s /\ call[u] = "sent" /\ call'[u] = answer /\ step[u] \in Calling
      /\ call' \in [Updates -> {"none", "sent", "ok", "error"}]
      /\ \A v \in Updates \ {u} : call'[v] = call[v]
  BY <1>2, SocialTypes DEF Answered
<1>4. SocialTypeOK'
  BY <1>1, <1>2, <1>3, HistoryTypes, SocialTypes, TypesKept
<1>5. PeersAnswered'
  BY <1>1, <1>2, <1>3 DEF SocialInv, PeersAnswered, TaskInv
<1>6. TaskInv(u)'
  BY <1>1, <1>3 DEF TaskInv, InFlight, HasAdmin, CanRemove, RemovePeersOnUnfollow
<1>7. \A v \in Updates \ {u} : SameTask(v)
  BY <1>3 DEF SameTask
<1>8. Following(u)' = Following(u) /\ Unfollowing(u)' = Unfollowing(u) /\ Serves(u)' = Serves(u)
  BY <1>3 DEF Following, Unfollowing, Serves, InFlight, RemovePeersOnUnfollow
<1>9. ASSUME NEW p \in Contacts \ disturbed'
      PROVE  IF p \in Serves(u)' THEN ServedInv(p, u)'
             ELSE IF p \in Serves(u) THEN RestInv(p)'
             ELSE SamePeer(p)
  <2>1. p \notin disturbed /\ ServedInv(p, u)
    BY <1>2 DEF SocialInv, PeerInv
  <2>2. CASE p \in pubkey[u] /\ s = "adding"
    <3>1. FollowInv(p, u) /\ p \notin Unfollowing(u)
      BY <1>1, <1>3, <2>1, <2>2 DEF ServedInv, Following, Unfollowing, InFlight, TaskInv
    <3>2. FollowInv(p, u)'
      BY <1>2, <1>3, <2>2, <3>1 DEF FollowInv, CanRemove
    <3>3. p \in Serves(u)'
      BY <1>3, <1>8, <2>2 DEF Serves, InFlight
    <3> QED
      BY <1>8, <3>1, <3>2, <3>3 DEF ServedInv
  <2>3. CASE p \in pubkey[u] /\ s = "removing"
    <3>1. UnfollowInv(p, u) /\ p \notin Following(u) /\ CanRemove /\ HasAdmin
      BY <1>1, <1>3, <2>1, <2>3 DEF ServedInv, Following, Unfollowing, InFlight, TaskInv
    <3>2. UnfollowInv(p, u)'
      BY <1>2, <1>3, <2>3, <3>1 DEF UnfollowInv, Agree
    <3>3. p \in Serves(u)'
      BY <1>3, <1>8, <2>3 DEF Serves, InFlight
    <3> QED
      BY <1>8, <3>1, <3>2, <3>3 DEF ServedInv
  <2>4. CASE p \notin pubkey[u]
    <3>1. SamePeer(p)
      BY <1>2, <1>3, <2>4 DEF SamePeer
    <3>2. ServedInv(p, u)'
      BY <1>2, <1>3, <1>8, <2>1, <2>4
         DEF ServedInv, FollowInv, UnfollowInv, Agree, HasAdmin, CanRemove
    <3> QED
      BY <1>8, <3>1, <3>2
  <2> QED
    BY <2>2, <2>3, <2>4 DEF Calling
<1> QED
  BY <1>2, <1>3, <1>4, <1>5, <1>6, <1>7, <1>8, <1>9, TaskStepInv

-------------------------------------------------------------------------------
\* A step that leaves all but `started' alone.
LEMMA StutterInv ==
    ASSUME SocialInv, started' \in BOOLEAN,
           UNCHANGED <<options, updates, previousFollows, peeredPubkeys, taskVars,
                       connector, historyVars>>
    PROVE  SocialInv'
<1>1. /\ UNCHANGED <<options, updates, previousFollows, peeredPubkeys, connector>>
      /\ UNCHANGED <<newFollows, unfollows, step, pubkey, call>>
      /\ UNCHANGED <<live, failed, disturbed>>
  BY DEF taskVars, historyVars
<1>2. SocialTypeOK' /\ PeersAnswered'
  BY <1>1 DEF SocialInv, SocialTypeOK, PeersAnswered
<1>3. \A v \in Updates : SameTask(v) /\ Serves(v)' = Serves(v)
  BY <1>1 DEF SameTask, Serves, InFlight, RemovePeersOnUnfollow
<1>4. OneServer'
  BY <1>1, <1>3 DEF SocialInv, OneServer
<1>5. \A v \in Updates : TaskInv(v)'
  BY <1>1 DEF SocialInv, TaskInv, InFlight, HasAdmin, CanRemove, RemovePeersOnUnfollow
<1>6. \A p \in Contacts \ disturbed' : PeerInv(p)'
  BY <1>1, <1>3, PeerFramed DEF SocialInv, PeerInv, SamePeer
<1> QED
  BY <1>2, <1>4, <1>5, <1>6 DEF SocialInv

\* A follow list comes: nobody served the peers it changes, or they are disturbed.
LEMMA UpdateInv ==
    ASSUME SocialInv, NEW u \in Updates, NEW follows \in FollowLists,
           processFollowListUpdate(u, follows)
    PROVE  SocialInv'
<1> DEFINE new == follows \ (previousFollows \cup peeredPubkeys)
           gone == previousFollows \ follows
           changed == (follows \ previousFollows) \cup gone
<1>1. /\ u = updates + 1 /\ updates' = u /\ previousFollows' = follows /\ follows \subseteq Contacts
      /\ disturbed' = disturbed \cup {p \in changed : \E v \in Updates : p \in Serves(v)}
      /\ UNCHANGED <<options, started, connector, live, failed>>
      /\ updates \in 0..MaxUpdates /\ previousFollows \subseteq Contacts
      /\ peeredPubkeys \subseteq Contacts
  BY FollowListsAssumption, SocialTypes DEF processFollowListUpdate
<1>2. /\ ~InFlight(u) /\ newFollows[u] = {} /\ pubkey[u] = {} /\ Serves(u) = {} /\ u > updates
      /\ \A v \in Updates : ~(v > updates + 1) => ~(v > updates) \/ v = u
  BY <1>1, SocialTypes, MaxUpdatesAssumption DEF TaskInv, InFlight, Serves, Updates
<1>3. /\ step' \in [Updates -> Steps] /\ pubkey' \in [Updates -> OneOrNone]
      /\ call' \in [Updates -> {"none", "sent", "ok", "error"}]
      /\ newFollows' \in [Updates -> SUBSET Contacts]
      /\ unfollows' \in [Updates -> SUBSET Contacts] /\ peeredPubkeys' \subseteq Contacts
      /\ \A v \in Updates \ {u} : UNCHANGED <<newFollows[v], unfollows[v], step[v],
                                               pubkey[v], call[v]>>
      /\ \/ /\ new # {} /\ peeredPubkeys' = peeredPubkeys
            /\ step'[u] = "querying" /\ unfollows'[u] = gone
            /\ \E p \in new : pubkey'[u] = {p} /\ newFollows'[u] = new \ {p}
         \/ /\ new = {} /\ RemovePeersOnUnfollow /\ CanRemove
            /\ peeredPubkeys' = peeredPubkeys
            /\ step'[u] = "removing" /\ call'[u] = "sent" /\ newFollows'[u] = {}
            /\ \E p \in gone : pubkey'[u] = {p} /\ unfollows'[u] = gone \ {p}
         \/ /\ new = {}
            /\ gone = {} \/ ~RemovePeersOnUnfollow \/ ~CanRemove
            /\ step'[u] = "done" /\ newFollows'[u] = {} /\ pubkey'[u] = {}
            /\ peeredPubkeys' = IF RemovePeersOnUnfollow THEN peeredPubkeys \ gone
                                ELSE peeredPubkeys
  <2>1. CASE new # {}
    <3>1. /\ handleNewFollow(u, new) /\ unfollows' = [unfollows EXCEPT ![u] = gone]
          /\ peeredPubkeys' = peeredPubkeys
      BY <2>1 DEF processFollowListUpdate
    <3>2. PICK p \in new : /\ Await(u, "querying", {p})
                           /\ newFollows' = [newFollows EXCEPT ![u] = new \ {p}]
      BY <3>1 DEF handleNewFollow
    <3>3. "querying" \in Steps /\ {p} \in OneOrNone
      BY <1>1 DEF Steps, OneOrNone
    <3>4. /\ step' \in [Updates -> Steps] /\ pubkey' \in [Updates -> OneOrNone]
          /\ call' \in [Updates -> {"none", "sent", "ok", "error"}]
          /\ step'[u] = "querying" /\ pubkey'[u] = {p}
          /\ \A v \in Updates \ {u} : UNCHANGED <<step[v], pubkey[v], call[v]>>
      BY <3>2, <3>3, AwaitEffect
    <3>5. new \ {p} \subseteq Contacts /\ gone \subseteq Contacts
      BY <1>1
    <3>6. /\ newFollows' \in [Updates -> SUBSET Contacts]
          /\ unfollows' \in [Updates -> SUBSET Contacts]
          /\ newFollows'[u] = new \ {p} /\ unfollows'[u] = gone
          /\ \A v \in Updates \ {u} : UNCHANGED <<newFollows[v], unfollows[v]>>
      BY <3>1, <3>2, <3>5, SocialTypes
    <3> QED
      BY <1>1, <2>1, <3>1, <3>4, <3>6
  <2>2. CASE new = {}
    <3>1. handleUnfollow(u, gone, peeredPubkeys) /\ newFollows' = newFollows
      BY <2>2 DEF processFollowListUpdate
    <3>2. gone \in SUBSET Contacts /\ peeredPubkeys \in SUBSET Contacts
      BY <1>1
    <3> HIDE DEF gone
    <3>3. /\ step' \in [Updates -> Steps] /\ pubkey' \in [Updates -> OneOrNone]
          /\ call' \in [Updates -> {"none", "sent", "ok", "error"}]
          /\ unfollows' \in [Updates -> SUBSET Contacts] /\ peeredPubkeys' \subseteq Contacts
          /\ \A v \in Updates \ {u} : UNCHANGED <<step[v], pubkey[v], call[v], unfollows[v]>>
      BY <3>1, <3>2, UnfollowEffect
    <3>4. \/ /\ RemovePeersOnUnfollow /\ CanRemove /\ peeredPubkeys' = peeredPubkeys
             /\ step'[u] = "removing" /\ call'[u] = "sent"
             /\ \E p \in gone : pubkey'[u] = {p} /\ unfollows'[u] = gone \ {p}
          \/ /\ gone = {} \/ ~RemovePeersOnUnfollow \/ ~CanRemove
             /\ step'[u] = "done" /\ call'[u] = "none"
             /\ pubkey'[u] = {} /\ unfollows'[u] = {}
             /\ peeredPubkeys' = IF RemovePeersOnUnfollow THEN peeredPubkeys \ gone
                                 ELSE peeredPubkeys
      BY <3>1, <3>2, UnfollowEffect
    <3>5. newFollows' \in [Updates -> SUBSET Contacts] /\ newFollows'[u] = {}
      BY <1>2, <3>1, SocialTypes
    <3> HIDE DEF new
    <3> QED
      BY <2>2, <3>1, <3>3, <3>4, <3>5
  <2> QED
    BY <2>1, <2>2
<1>4. SocialTypeOK'
  <2>1. updates' \in 0..MaxUpdates
    BY <1>1, MaxUpdatesAssumption DEF Updates
  <2>2. started' \in BOOLEAN /\ options' \in Given
    BY <1>1, HistoryTypes, SocialTypes
  <2>3. /\ previousFollows' \subseteq Contacts /\ connector' \subseteq Contacts
        /\ live' \subseteq Contacts /\ failed' \subseteq Contacts /\ disturbed' \subseteq Contacts
    BY <1>1, HistoryTypes
  <2> QED
    BY <1>3, <2>1, <2>2, <2>3 DEF SocialTypeOK, Steps, OneOrNone
<1>5. PeersAnswered'
  BY <1>1, <1>3 DEF SocialInv, PeersAnswered
<1>6. \A v \in Updates \ {u} : SameTask(v) /\ Serves(v)' = Serves(v)
  BY <1>1, <1>3, OthersFramed DEF SameTask
<1>7. Serves(u)' \subseteq changed
  <2>1. InFlight(u)' => newFollows'[u] \cup pubkey'[u] \cup unfollows'[u] \subseteq changed
    BY <1>3 DEF InFlight
  <2> QED
    BY <2>1 DEF Serves
<1>8. OneServer'
  <2> SUFFICES ASSUME NEW v \in Updates, NEW w \in Updates, v # w,
                      NEW p \in Serves(v)' \cap Serves(w)'
               PROVE  p \in disturbed'
    BY DEF OneServer
  <2>1. CASE v # u /\ w # u
    BY <1>1, <1>6, <2>1 DEF SocialInv, OneServer
  <2>2. CASE v = u \/ w = u
    BY <1>1, <1>6, <1>7, <2>2
  <2> QED
    BY <2>1, <2>2
<1>9. ASSUME NEW v \in Updates PROVE TaskInv(v)'
  <2>1. CASE v = u
    <3>1. ~(u > updates')
      BY <1>1
    <3>2. new \cap gone = {}
      OBVIOUS
    <3> QED
      BY <1>1, <1>3, <2>1, <3>1, <3>2 DEF TaskInv, CanRemove, RemovePeersOnUnfollow
  <2>2. CASE v # u
    <3>1. SameTask(v) /\ TaskInv(v) /\ (v > updates' => v > updates)
      BY <1>1, <1>6, <2>2, SocialTypes, MaxUpdatesAssumption DEF Updates
    <3> QED
      BY <1>1, <3>1 DEF TaskInv, SameTask, InFlight, HasAdmin, CanRemove, RemovePeersOnUnfollow
  <2> QED
    BY <2>1, <2>2
<1>10. ASSUME NEW p \in Contacts \ disturbed' PROVE PeerInv(p)'
  <2>1. PeerInv(p) /\ p \notin disturbed
    BY <1>1 DEF SocialInv
  <2>2. CASE p \in changed
    <3>1. \A v \in Updates : p \notin Serves(v)
      BY <1>1, <2>2
    <3>2. RestInv(p)
      BY <2>1, <3>1 DEF PeerInv
    <3>3. \A v \in Updates \ {u} : ServedInv(p, v)'
      BY <1>6, <1>9, <3>1, ServesSplitNext DEF ServedInv
    <3>4. p \in Following(u)' => FollowInv(p, u)'
      <4>1. p \in Following(u)' => p \in new /\ step'[u] = "querying"
        BY <1>3 DEF Following
      <4> QED
        BY <1>1, <1>3, <3>2, <4>1 DEF FollowInv, RestInv, Agree, CanRemove
    <3>5. p \in Unfollowing(u)' => UnfollowInv(p, u)'
      <4>1. p \in Unfollowing(u)' => p \in gone /\ peeredPubkeys' = peeredPubkeys
        BY <1>3 DEF Unfollowing, InFlight
      <4>2. step'[u] = "removing" => call'[u] = "sent"
        BY <1>3
      <4>3. p \in Unfollowing(u)' => Agree(p)'
        BY <1>1, <3>2, <4>1 DEF RestInv, Agree, HasAdmin, CanRemove
      <4> QED
        BY <1>1, <4>1, <4>2, <4>3 DEF UnfollowInv
    <3>6. p \notin Serves(u)' => RestInv(p)'
      <4>1. CASE p \in gone
        <5>1. CASE RemovePeersOnUnfollow
          <6>1. p \notin Serves(u)' => ~CanRemove /\ p \notin peeredPubkeys'
            BY <1>1, <1>3, <4>1, <5>1 DEF Serves, InFlight, RemovePeersOnUnfollow
          <6> QED
            BY <1>1, <4>1, <6>1 DEF RestInv, Agree, CanRemove
        <5>2. CASE ~RemovePeersOnUnfollow
          <6>1. peeredPubkeys' = peeredPubkeys
            BY <1>3, <5>2
          <6> QED
            BY <1>1, <3>2, <4>1, <5>2, <6>1
               DEF RestInv, Agree, HasAdmin, CanRemove, RemovePeersOnUnfollow
        <5> QED
          BY <5>1, <5>2
      <4>2. CASE p \in follows \ previousFollows
        <5>1. p \in peeredPubkeys' <=> p \in peeredPubkeys
          BY <1>3, <4>2
        <5>2. p \notin Serves(u)' => p \in peeredPubkeys
          BY <1>3, <4>2 DEF Serves, InFlight
        <5> QED
          BY <1>1, <3>2, <4>2, <5>1, <5>2
             DEF RestInv, Agree, HasAdmin, CanRemove, RemovePeersOnUnfollow
      <4> QED
        BY <2>2, <4>1, <4>2
    <3> QED
      BY <3>3, <3>4, <3>5, <3>6 DEF PeerInv, ServedInv
  <2>3. CASE p \notin changed
    <3>1. SamePeer(p) /\ p \notin Serves(u)' /\ p \notin Serves(u)
      BY <1>1, <1>2, <1>3, <1>7, <2>3 DEF SamePeer
    <3>2. \A v \in Updates \ {u} : ServedInv(p, v)'
      BY <1>1, <1>6, <2>1, <3>1, PeerFramed DEF PeerInv
    <3>3. ServedInv(p, u)'
      BY <1>9, <3>1, ServesSplitNext DEF ServedInv
    <3>4. (\A v \in Updates : p \notin Serves(v)') => RestInv(p)'
      BY <1>1, <1>6, <2>1, <3>1, PeerFramed DEF PeerInv
    <3> QED
      BY <3>2, <3>3, <3>4 DEF PeerInv
  <2> QED
    BY <2>2, <2>3
<1> QED
  BY <1>4, <1>5, <1>8, <1>9, <1>10 DEF SocialInv

-------------------------------------------------------------------------------
LEMMA NextInv == SocialInv /\ [SocialNext]_socialVars => SocialInv'
<1> SUFFICES ASSUME SocialInv, [SocialNext]_socialVars PROVE SocialInv'
    OBVIOUS
<1>1. CASE start \/ unsubscribe \/ UNCHANGED socialVars
  <2>1. started' \in BOOLEAN
    BY <1>1, HistoryTypes DEF start, unsubscribe, socialVars
  <2>2. UNCHANGED <<options, updates, previousFollows, peeredPubkeys, taskVars,
                    connector, historyVars>>
    BY <1>1 DEF start, unsubscribe, socialVars
  <2> QED
    BY <2>1, <2>2, StutterInv
<1>2. CASE \E u \in Updates, follows \in FollowLists : processFollowListUpdate(u, follows)
  BY <1>2, UpdateInv
<1>3. CASE \E u \in Updates : Task(u) \/ Connector(u)
  BY <1>3, ResumedInv, PeeredInv, FollowFailedInv, UnfollowedInv, ConnectorInv DEF Task
<1> QED
  BY <1>1, <1>2, <1>3 DEF SocialNext

LEMMA InvHolds == SocialSpec => []SocialInv
BY InitInv, NextInv, PTL DEF SocialSpec

\* The discovery's state keeps its types.
THEOREM SocialTypeCorrect == SocialSpec => []SocialTypeOK
<1>1. SocialInv => SocialTypeOK
  BY DEF SocialInv
<1> QED
  BY <1>1, InvHolds, PTL

\* However many lists are served side by side, the connector and the set only ever
\* have peers that answered an SPSP request of ours.
THEOREM OnlyAnsweredPeers == SocialSpec => []PeersAnswered
<1>1. SocialInv => PeersAnswered
  BY DEF SocialInv
<1> QED
  BY <1>1, InvHolds, PTL

LEMMA AtRest ==
    ASSUME SocialInv, NEW p \in Contacts \ (BeingServed \cup disturbed)
    PROVE  RestInv(p)
BY DEF SocialInv, PeerInv, BeingServed

\* No failure of one peer keeps another from being served: a peer in the list that
\* no task serves is peered or was given up for a failure of its own.
THEOREM FollowsAreTried == SocialSpec => []FollowsTried
<1>1. SocialInv => FollowsTried
  BY AtRest, SocialTypes DEF FollowsTried, RestInv
<1> QED
  BY <1>1, InvHolds, PTL

\* Set, connector and follow list agree on every peer that no task serves and that
\* was not disturbed while one did.
THEOREM AgreeAtRest == SocialSpec => []UndisturbedAgree
<1>1. SocialInv => UndisturbedAgree
  BY AtRest DEF UndisturbedAgree, RestInv, Agree
<1> QED
  BY <1>1, InvHolds, PTL

================================================================================
