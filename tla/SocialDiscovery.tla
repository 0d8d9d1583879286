---------------------------- MODULE SocialDiscovery ----------------------------
(***************************************************************************)
(* SocialPeerDiscovery (packages/core/src/discovery/                       *)
(* SocialPeerDiscovery.ts).                                                *)
(*                                                                         *)
(* Every follow list that arrives is compared with the one before and      *)
(* served in an asynchronous task that nobody waits for: the new follows   *)
(* one after the other, with a pause between them, then the unfollows.     *)
(* The lists come from several relays, in any order (created_at is not     *)
(* looked at), and the tasks of two lists may run side by side.            *)
(*                                                                         *)
(* Relays, peers and connector are external; queries and SPSP requests are *)
(* answered or time out, which resumes the task.  A call to the connector  *)
(* takes effect at one moment and its answer resumes the task at another.  *)
(***************************************************************************)
EXTENDS Integers

CONSTANTS
    Contacts,    \* public keys that may be followed
    FollowLists, \* the follow lists that may arrive
    Given,       \* the options a discovery may be given
    MaxUpdates   \* bound: follow lists that arrive

ASSUME FollowListsAssumption == FollowLists \subseteq SUBSET Contacts
ASSUME GivenAssumption ==
    /\ Given \subseteq SUBSET {"admin", "removePeer", "removePeersOnUnfollow"}
    /\ \A o \in Given : "removePeer" \in o => "admin" \in o
ASSUME MaxUpdatesAssumption == MaxUpdates \in Nat

VARIABLES
    options,          \* what the discovery was given before start()
    started,
    updates,          \* number of follow lists received
    previousFollows,
    peeredPubkeys,
    newFollows,       \* of each update: the follows still to be served
    unfollows,        \* of each update: the unfollows still to be served
    step,             \* of each update: what it awaits
    pubkey,           \* of each update: the peers it is at, {} or {p}
    call,             \* of each update: its call to the connector, and the answer
    connector,        \* the peers the connector routes to
    live,             \* history: peers that answered an SPSP request
    failed,           \* history: peers whose last follow was given up
    disturbed         \* history: peers followed or unfollowed while an update
                      \* was yet to serve them, or whose call to the connector
                      \* was answered otherwise than it went

taskVars == <<newFollows, unfollows, step, pubkey, call>>
historyVars == <<live, failed, disturbed>>
socialVars == <<options, started, updates, previousFollows, peeredPubkeys,
                taskVars, connector, historyVars>>

Updates == 1..MaxUpdates

\* A connector admin client, its optional removePeer, removePeersOnUnfollow.
HasAdmin == "admin" \in options
CanRemove == "removePeer" \in options
RemovePeersOnUnfollow == "removePeersOnUnfollow" \in options

Calling == {"adding", "removing"}
InFlight(u) == step[u] \notin {"idle", "done"}

\* The peers an update is at or has yet to serve.
Serves(u) ==
    IF InFlight(u)
    THEN newFollows[u] \cup pubkey[u] \cup (IF RemovePeersOnUnfollow THEN unfollows[u] ELSE {})
    ELSE {}

\* The types of the discovery's state; an update never is at two peers.
SocialTypeOK ==
    /\ options \in Given
    /\ started \in BOOLEAN
    /\ updates \in 0..MaxUpdates
    /\ previousFollows \subseteq Contacts /\ peeredPubkeys \subseteq Contacts
    /\ newFollows \in [Updates -> SUBSET Contacts]
    /\ unfollows \in [Updates -> SUBSET Contacts]
    /\ step \in [Updates -> Calling \cup {"idle", "querying", "requesting",
                                        "coolingDown", "done"}]
    /\ pubkey \in [Updates -> {{}} \cup {{p} : p \in Contacts}]
    /\ call \in [Updates -> {"none", "sent", "ok", "error"}]
    /\ connector \subseteq Contacts
    /\ live \subseteq Contacts /\ failed \subseteq Contacts /\ disturbed \subseteq Contacts

SocialInit ==
    /\ options \in Given
    /\ started = FALSE
    /\ updates = 0
    /\ previousFollows = {} /\ peeredPubkeys = {}
    /\ newFollows = [u \in Updates |-> {}]
    /\ unfollows = [u \in Updates |-> {}]
    /\ step = [u \in Updates |-> "idle"]
    /\ pubkey = [u \in Updates |-> {}]
    /\ call = [u \in Updates |-> "none"]
    /\ connector = {}
    /\ live = {} /\ failed = {} /\ disturbed = {}

-------------------------------------------------------------------------------
\* How a task goes on, up to its next await.

Await(u, s, p) ==
    /\ step' = [step EXCEPT ![u] = s]
    /\ pubkey' = [pubkey EXCEPT ![u] = p]
    /\ call' = [call EXCEPT ![u] = IF s \in Calling THEN "sent" ELSE "none"]

\* handleNewFollow, up to the query.
handleNewFollow(u, todo) ==
    \E p \in todo :
        /\ Await(u, "querying", {p})
        /\ newFollows' = [newFollows EXCEPT ![u] = todo \ {p}]

\* The next handleUnfollow, up to removePeer; a connector that cannot remove is
\* not awaited, so that all of them are forgotten at once.
handleUnfollow(u, todo, peered) ==
    \/ /\ RemovePeersOnUnfollow /\ CanRemove
       /\ \E p \in todo :
              /\ Await(u, "removing", {p})
              /\ unfollows' = [unfollows EXCEPT ![u] = todo \ {p}]
       /\ peeredPubkeys' = peered
    \/ /\ todo = {} \/ ~RemovePeersOnUnfollow \/ ~CanRemove
       /\ Await(u, "done", {})
       /\ unfollows' = [unfollows EXCEPT ![u] = {}]
       /\ peeredPubkeys' = IF RemovePeersOnUnfollow THEN peered \ todo ELSE peered

\* The rest of the loop, once a follow is served.
Continue(u, peered) ==
    /\ IF newFollows[u] # {}
       THEN /\ Await(u, "coolingDown", {})
            /\ peeredPubkeys' = peered
            /\ UNCHANGED unfollows
       ELSE handleUnfollow(u, unfollows[u], peered)
    /\ UNCHANGED newFollows

-------------------------------------------------------------------------------
\* Bound: nobody unsubscribes or starts again once no list is to come any more.
MoreToCome == updates < MaxUpdates

start ==
    /\ ~started /\ MoreToCome
    /\ started' = TRUE
    /\ UNCHANGED <<options, updates, previousFollows, peeredPubkeys, taskVars,
                   connector, historyVars>>

unsubscribe ==
    /\ started /\ MoreToCome
    /\ started' = FALSE
    /\ UNCHANGED <<options, updates, previousFollows, peeredPubkeys, taskVars,
                   connector, historyVars>>

\* A follow list arrives.
processFollowListUpdate(u, currentFollows) ==
    LET new == currentFollows \ (previousFollows \cup peeredPubkeys)
        gone == previousFollows \ currentFollows
        changed == (currentFollows \ previousFollows) \cup gone
    IN
    /\ started
    /\ u = updates + 1
    /\ updates' = u
    /\ previousFollows' = currentFollows
    /\ IF new # {}
       THEN /\ handleNewFollow(u, new)
            /\ unfollows' = [unfollows EXCEPT ![u] = gone]
            /\ UNCHANGED peeredPubkeys
       ELSE handleUnfollow(u, gone, peeredPubkeys) /\ UNCHANGED newFollows
    /\ disturbed' = disturbed \cup {p \in changed : \E v \in Updates : p \in Serves(v)}
    /\ UNCHANGED <<options, started, connector, live, failed>>

Resumed(u, s, answers) ==
    /\ step[u] = s
    /\ call[u] \in answers
    /\ UNCHANGED <<options, started, updates, previousFollows, connector, disturbed>>

\* Mutation of PeerQueried: the handshake is left out.
PeerAdded(u) ==
    /\ Resumed(u, "querying", {"none"})
    /\ Await(u, "adding", pubkey[u])
    /\ UNCHANGED <<peeredPubkeys, newFollows, unfollows, live, failed>>

\* The newest announcement found parses.
PeerQueried(u) ==
    /\ Resumed(u, "querying", {"none"})
    /\ Await(u, "requesting", pubkey[u])
    /\ UNCHANGED <<peeredPubkeys, newFollows, unfollows, live, failed>>

\* The peer answers the SPSP request; the connector is told.
PeerAlive(u) ==
    /\ Resumed(u, "requesting", {"none"})
    /\ HasAdmin
    /\ live' = live \cup pubkey[u]
    /\ Await(u, "adding", pubkey[u])
    /\ UNCHANGED <<peeredPubkeys, newFollows, unfollows, failed>>

\* The connector took the peer, or there is none to tell.
Peered(u) ==
    /\ \/ /\ Resumed(u, "requesting", {"none"})
          /\ ~HasAdmin
          /\ live' = live \cup pubkey[u]
       \/ Resumed(u, "adding", {"ok"}) /\ UNCHANGED live
    /\ failed' = failed \ pubkey[u]
    /\ Continue(u, peeredPubkeys \cup pubkey[u])

\* Mutation of FollowFailed: the rest of the list is given up, too.
ListFailed(u) ==
    /\ \/ \E s \in {"querying", "requesting"} : Resumed(u, s, {"none"})
       \/ Resumed(u, "adding", {"error"})
    /\ UNCHANGED live
    /\ failed' = failed \cup pubkey[u]
    /\ Await(u, "done", {})
    /\ UNCHANGED <<peeredPubkeys, newFollows, unfollows>>

\* No announcement or none that parses, no answer in time, or a connector that
\* refuses: logged, and the next follow is served.
FollowFailed(u) ==
    /\ \/ \E s \in {"querying", "requesting"} : Resumed(u, s, {"none"})
       \/ Resumed(u, "adding", {"error"})
    /\ UNCHANGED live
    /\ failed' = failed \cup pubkey[u]
    /\ Continue(u, peeredPubkeys)

\* Mutation of CooledDown: the follow that waited is lost.
CooledDownLosing(u) ==
    /\ Resumed(u, "coolingDown", {"none"})
    /\ \E p \in newFollows[u] : newFollows' = [newFollows EXCEPT ![u] = @ \ {p}]
    /\ Await(u, "coolingDown", {})
    /\ UNCHANGED <<peeredPubkeys, unfollows, live, failed>>

\* The pause between two follows is over.
CooledDown(u) ==
    /\ Resumed(u, "coolingDown", {"none"})
    /\ handleNewFollow(u, newFollows[u])
    /\ UNCHANGED <<peeredPubkeys, unfollows, live, failed>>

\* Mutation of Unfollowed: the peer stays in the set.
UnfollowedKept(u) ==
    /\ Resumed(u, "removing", {"ok", "error"})
    /\ handleUnfollow(u, unfollows[u], peeredPubkeys)
    /\ UNCHANGED <<newFollows, live, failed>>

\* A peer whose removal fails stays in the set.
Unfollowed(u) ==
    /\ Resumed(u, "removing", {"ok", "error"})
    /\ handleUnfollow(u, unfollows[u],
           IF call[u] = "ok" THEN peeredPubkeys \ pubkey[u] ELSE peeredPubkeys)
    /\ UNCHANGED <<newFollows, live, failed>>

-------------------------------------------------------------------------------
\* The connector (external).

Answered(u, s, answer) ==
    /\ step[u] = s /\ call[u] = "sent"
    /\ call' = [call EXCEPT ![u] = answer]
    /\ UNCHANGED <<options, started, updates, previousFollows, peeredPubkeys,
                   newFollows, unfollows, step, pubkey, live, failed>>

\* The row is replaced; the answer may be lost.
ConnectorAdds(u) ==
    /\ connector' = connector \cup pubkey[u]
    /\ \/ Answered(u, "adding", "ok") /\ UNCHANGED disturbed
       \/ Answered(u, "adding", "error") /\ disturbed' = disturbed \cup pubkey[u]

\* Removing a peer that is not there may be an error or not.
ConnectorRemoves(u) ==
    /\ connector' = connector \ pubkey[u]
    /\ \/ Answered(u, "removing", "ok") /\ UNCHANGED disturbed
       \/ /\ Answered(u, "removing", "error")
          /\ disturbed' = disturbed \cup (pubkey[u] \cap connector)

ConnectorRefuses(u) ==
    /\ \/ Answered(u, "adding", "error") /\ UNCHANGED disturbed
       \/ Answered(u, "removing", "error") /\ disturbed' = disturbed \cup pubkey[u]
    /\ UNCHANGED connector

-------------------------------------------------------------------------------
Task(u) == \/ PeerQueried(u) \/ PeerAlive(u) \/ Peered(u) \/ FollowFailed(u)
           \/ CooledDown(u) \/ Unfollowed(u)

Connector(u) == ConnectorAdds(u) \/ ConnectorRemoves(u) \/ ConnectorRefuses(u)

SocialNext ==
    \/ start \/ unsubscribe
    \/ \E u \in Updates, follows \in FollowLists : processFollowListUpdate(u, follows)
    \/ \E u \in Updates : Task(u) \/ Connector(u)

\* The event loop runs every continuation and every timer; queries, requests
\* and calls have time limits.  No follow list is bound to arrive.
SocialFairness ==
    \A u \in Updates : WF_socialVars(Task(u)) /\ WF_socialVars(Connector(u))

SocialSpec == SocialInit /\ [][SocialNext]_socialVars /\ SocialFairness
-------------------------------------------------------------------------------
\* Properties

BeingServed == UNION {Serves(u) : u \in Updates}

\* The handshake is a liveness check: whatever runs side by side, the connector
\* and the set only ever have peers that answered a request of ours.
PeersAnswered == connector \cup peeredPubkeys \subseteq live

\* One failed peer does not block the others: a peer that is followed was served
\* to the end, is peered or was given up for a failure of its own.
FollowsTried ==
    \A p \in previousFollows \ (BeingServed \cup disturbed) :
        p \in peeredPubkeys \/ p \in failed

\* The set, the connector and the follow list agree on every peer that is not
\* being served, unless it was followed or unfollowed while it was, or a call of
\* the connector about it was answered otherwise than it went.
UndisturbedAgree ==
    \A p \in Contacts \ (BeingServed \cup disturbed) :
        /\ p \in peeredPubkeys /\ HasAdmin => p \in connector
        /\ p \in connector /\ CanRemove => p \in peeredPubkeys
        /\ p \in peeredPubkeys /\ RemovePeersOnUnfollow => p \in previousFollows

\* Every follow list is served to the end.
UpdatesEnd == \A u \in Updates : InFlight(u) ~> ~InFlight(u)
===============================================================================
