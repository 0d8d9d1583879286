------------------------------ MODULE MCBlsServer ------------------------------
(* A small instance of BlsServer for TLC. *)
EXTENDS BlsServer

CONSTANTS alice, bob, post, draft

event(i, p, k, d, t) == [id |-> i, pubkey |-> p, kind |-> k, d |-> d, created_at |-> t,
                        content |-> 0]

\* Announcements (two of one second), articles with, without and with two tags,
\* the kinds next to the replaceable ranges, and an SPSP request.
FewEvents ==
    { event(2, alice, 10032, <<>>, 1), event(3, alice, 10032, <<>>, 2),
      event(4, alice, 10032, <<>>, 2), event(5, bob, 19999, <<>>, 1),
      event(6, alice, 30023, <<post>>, 1), event(7, alice, 30023, <<post, draft>>, 2),
      event(8, alice, 30023, <<>>, 1), event(9, alice, 30023, <<NoTag>>, 2),
      event(10, alice, 9999, <<>>, 2), event(11, bob, 23194, <<>>, 1) }

ExactLike == {<<post, post>>, <<draft, draft>>}

NoFilter == [ids |-> {}, authors |-> {}, kinds |-> {}, dTags |-> {},
             since |-> {}, until |-> {}, limit |-> {}]
Announcements == [NoFilter EXCEPT !.authors = {alice}, !.kinds = {10032}]
Asked == { <<>>, <<NoFilter>>,
           <<[Announcements EXCEPT !.limit = {1}]>>,
           <<[NoFilter EXCEPT !.kinds = {30023}, !.since = {2}],
             [NoFilter EXCEPT !.ids = {5, 8}, !.until = {1}, !.limit = {1}]>>,
           <<[NoFilter EXCEPT !.kinds = {30023}, !.since = {2}],
             [NoFilter EXCEPT !.authors = {bob}, !.limit = {1}]>>,
           <<[NoFilter EXCEPT !.dTags = {post}], [NoFilter EXCEPT !.authors = {bob}]>>,
           <<[NoFilter EXCEPT !.dTags = {draft}, !.limit = {2}]>> }

Lengths == [e \in Events |-> e.id]

variable(b, r, p) == [bls |-> b, relay |-> r, plain |-> p]
none == variable(unset, unset, unset)
Default == [identityValid |-> TRUE, owner |-> {}, dataDirExists |-> TRUE,
            dataDirWritable |-> TRUE, base |-> none, overrides |-> none,
            spspMinPrice |-> unset]
ByKind == object(<< <<10032, number(1)>>, <<9999, number(7)>>, <<9999, number(2)>> >>)
Settings ==
    { Default,
      [Default EXCEPT !.base = variable(unset, unset, number(9)), !.owner = {alice},
                      !.spspMinPrice = number(0)],
      [Default EXCEPT !.base = variable(number(3), number(4), number(5)),
                      !.overrides = variable(ByKind, empty, empty),
                      !.dataDirWritable = FALSE],
      [Default EXCEPT !.base = variable(empty, number(4), number(5)), !.spspMinPrice = empty,
                      !.overrides = variable(unset, unset, ByKind)],
      [Default EXCEPT !.base = variable(empty, unset, number(6)), !.dataDirExists = FALSE,
                      !.overrides = variable(empty, ByKind, unset)],
      [Default EXCEPT !.base = variable(unset, number(-1), unset)],
      [Default EXCEPT !.overrides = variable(object(<< <<NaN, number(1)>> >>), unset, unset)],
      [Default EXCEPT !.spspMinPrice = invalid],
      [Default EXCEPT !.identityValid = FALSE] }
===============================================================================
