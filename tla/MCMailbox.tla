----------------------------- MODULE MCMailbox -----------------------------
(***************************************************************************)
(* Three handoffs and pages of one.  A server starts on an empty ledger or *)
(* on one of version 2 with two handoffs, the first changed again after    *)
(* the second.                                                             *)
(***************************************************************************)
EXTENDS Mailbox

CONSTANTS h1, h2, h3, alice, bob, src, l1

ToBob == [from |-> alice, to |-> bob, source |-> src]
ToAlice == [from |-> bob, to |-> alice, source |-> Nil]

MCRoutes == {ToBob, ToAlice}

Query(actor, box, source, all) ==
  [actor |-> actor, mailbox |-> box, source |-> source,
   include_completed |-> all]

MCQueries ==
  { Query(bob, "inbox", Nil, FALSE), Query(alice, "outbox", src, TRUE) }

Record(status, revision) ==
  [from |-> alice, to |-> bob, source |-> src, status |-> status,
   revision |-> revision]

Empty ==
  [next_seq |-> 0, records |-> [h \in Handoffs |-> Nil],
   changes |-> [h \in Handoffs |-> {}]]

TwoHandoffs ==
  [next_seq |-> 3,
   records |-> [h \in Handoffs |->
                  CASE h = h1 -> Record("accepted", 2)
                    [] h = h2 -> Record("pending", 1)
                    [] OTHER -> Nil],
   changes |-> [h \in Handoffs |->
                  CASE h = h1 -> {1, 3}
                    [] h = h2 -> {2}
                    [] OTHER -> {}]]

MCOldLedgers == {Empty, TwoHandoffs}
=============================================================================
