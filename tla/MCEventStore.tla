----------------------------- MODULE MCEventStore -----------------------------
(* A small instance of EventStore for TLC. *)
EXTENDS EventStore, FiniteSets

CONSTANTS alice, bob, post, Post, quoted, wild

event(i, p, k, d, t) == [id |-> i, pubkey |-> p, kind |-> k, d |-> d, created_at |-> t,
                        content |-> 0]

\* Two tags that differ in case, one that JSON escapes, one with a wildcard
\* that finds the first two, and a row with two tags.
AlikeEvents ==
    { event(1, alice, 30023, <<post>>, 1), event(2, alice, 30023, <<Post>>, 2),
      event(3, alice, 30023, <<Post, quoted>>, 3), event(4, alice, 30023, <<quoted>>, 1),
      event(5, alice, 30023, <<quoted>>, 2), event(6, alice, 30023, <<wild>>, 2),
      event(7, alice, 30023, <<wild>>, 3), event(8, alice, 10032, <<>>, 2),
      event(9, alice, 10032, <<>>, 1), event(10, alice, 40000, <<>>, 1) }

SqlLike == ({post, Post} \X {post, Post}) \cup ({wild} \X {post, Post, wild})
===============================================================================
