----------------------------- MODULE MCNostrRelay -----------------------------
(* Small instances of NostrRelay for TLC. *)
EXTENDS NostrRelay

CONSTANTS alice, bob, owner, client1, client2

event(i, p, k, t) == [id |-> i, pubkey |-> p, kind |-> k, d |-> <<>>, created_at |-> t,
                        content |-> 0]

\* Announcements of one peer, two of the same second, and a note; and an announcement
\* that borrows the id of another, and a note that borrows that of the first.
FewEvents == {event(1, alice, 10032, 1), event(2, alice, 10032, 2), event(3, owner, 1, 1)}
MoreEvents == FewEvents \cup {event(4, alice, 10032, 2)}
Borrowing == {event(4, bob, 10032, 1), [event(3, owner, 1, 1) EXCEPT !.content = 1]}
AllEvents == MoreEvents \cup Borrowing

NoFilter == [ids |-> {}, authors |-> {}, kinds |-> {}, dTags |-> {}, since |-> {}, until |-> {},
             limit |-> {}]
Announcements == [NoFilter EXCEPT !.kinds = {10032}]
NewestOfAlice == [Announcements EXCEPT !.authors = {alice}, !.limit = {1}]
OwnNote == [NoFilter EXCEPT !.ids = {3}, !.since = {1}, !.until = {1}]
Early == [NoFilter EXCEPT !.until = {1}]

\* What clients of this code ask (bootstrap), no filter at all, and combinations.
AskedLists == {<<NewestOfAlice>>, <<>>, <<Announcements, OwnNote>>, <<Early, Early, OwnNote>>}
OneList == {<<Announcements>>}

Lengths == [e \in Events |-> e.id]
ExactLike == {}
===============================================================================
