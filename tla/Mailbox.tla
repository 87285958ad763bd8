------------------------------- MODULE Mailbox -------------------------------
(***************************************************************************)
(* The handoff index of the two stores and the pages a member reads from   *)
(* it.  Each committed handoff command moves its row to the front of the   *)
(* index, so rows move while a client follows next_before_seq from page to *)
(* page.  Handoffs are never deleted: no route does.                       *)
(*                                                                         *)
(* A handoff record is what a mailbox query looks at: the route, which     *)
(* never changes after the send, and the status.                           *)
(***************************************************************************)
EXTENDS Naturals, FiniteSets

CONSTANTS
  Handoffs,
  Actors,
  Sources,    \* application source namespaces
  Queries,    \* the mailbox queries of the authenticated members
  Routes,     \* the routes handoffs are sent on
  OldLedgers, \* version 2 databases, which have no index yet
  Listers,    \* clients reading a mailbox page by page
  Limit,      \* HandoffQuery.limit
  MaxSeq,     \* largest project sequence: i64::MAX in the code
  Nil         \* Option::None, or an absent row

ASSUME LimitAssumption == Limit \in Nat \ {0}

ASSUME MaxSeqAssumption == MaxSeq \in Nat

Maybe(T) == T \cup {Nil}

Statuses == {"pending", "accepted", "completed"}

RouteRecords == [from : Actors, to : Actors, source : Maybe(Sources)]

Records == [from : Actors, to : Actors, source : Maybe(Sources),
            status : Statuses, revision : Nat]

IndexRows == [from : Actors, to : Actors, source : Maybe(Sources),
              status : Statuses, revision : Nat, updated : Nat]

QueryRecords == [actor : Actors, mailbox : {"inbox", "outbox"},
                 source : Maybe(Sources), include_completed : BOOLEAN]

ASSUME RequestsAssumption ==
  Queries \subseteq QueryRecords /\ Routes \subseteq RouteRecords

ASSUME NilAssumption ==
  Nil \notin Nat \cup Sources \cup Records \cup IndexRows

(* A version 2 ledger: its handoff resources, the sequences of the changes *)
(* of each, and next_seq.  The last change of a present handoff is the one *)
(* that wrote its head, and a sequence belongs to one change.              *)
ASSUME OldLedgersAssumption ==
  \A old \in OldLedgers :
    /\ old.next_seq \in Nat
    /\ old.records \in [Handoffs -> Maybe(Records)]
    /\ old.changes \in [Handoffs -> SUBSET (1..old.next_seq)]
    /\ \A h \in Handoffs : old.records[h] # Nil =>
         \E n \in old.changes[h] : \A m \in old.changes[h] : m <= n
    /\ \A g, h \in Handoffs :
         g # h => old.changes[g] \cap old.changes[h] = {}

VARIABLES
  next_seq,   \* ssot_projects.next_seq
  records,    \* the handoff resources, with their revision
  last,       \* the sequence of each handoff's latest entry in ssot_changes
  index,      \* ssot_handoff_index
  listings    \* what each client has asked for and received

vars == <<next_seq, records, last, index, listings>>

Entries == [handoff : Handoffs, project_seq : Nat, revision : Nat]

(* "earlier" holds the assignments of the pages before the latest; "start" *)
(* is the project head when the listing began and is not seen by the code. *)
Listings == [pc : {"idle", "reading", "done", "failed"},
             query : Maybe(Queries), start : Nat, before : Maybe(Nat),
             page : SUBSET Entries, earlier : SUBSET Entries]

Idle == [pc |-> "idle", query |-> Nil, start |-> 0, before |-> Nil,
         page |-> {}, earlier |-> {}]

-----------------------------------------------------------------------------

Latest(S) == CHOOSE n \in S : \A m \in S : m <= n

(* Fault: a backfill that takes the sequence of the first change.          *)
BackfillFirst(old) ==
  [h \in Handoffs |->
     IF old.records[h] = Nil THEN Nil
     ELSE [from |-> old.records[h].from, to |-> old.records[h].to,
           source |-> old.records[h].source,
           status |-> old.records[h].status,
           revision |-> old.records[h].revision,
           updated |-> CHOOSE n \in old.changes[h] :
                         \A m \in old.changes[h] : n <= m]]

(* migrate_v2_to_v3: one row per handoff, at MAX(change.seq).              *)
Backfill(old) ==
  [h \in Handoffs |->
     IF old.records[h] = Nil THEN Nil
     ELSE [from |-> old.records[h].from, to |-> old.records[h].to,
           source |-> old.records[h].source,
           status |-> old.records[h].status,
           revision |-> old.records[h].revision,
           updated |-> Latest(old.changes[h])]]

(* A server has opened a version 2 ledger, possibly an empty one.          *)
Init ==
  \E old \in OldLedgers :
    /\ next_seq = old.next_seq
    /\ records = old.records
    /\ last = [h \in Handoffs |->
                 IF old.records[h] = Nil THEN 0 ELSE Latest(old.changes[h])]
    /\ index = Backfill(old)
    /\ listings = [l \in Listers |-> Idle]

(* update_handoff_index, in the transaction of the command.                *)
UpdateIndex(h, r, seq) ==
  index' = [index EXCEPT ![h] =
    [from |-> r.from, to |-> r.to, source |-> r.source, status |-> r.status,
     revision |-> r.revision, updated |-> seq]]

WriteHandoff(h, r) ==
  /\ next_seq < MaxSeq
  /\ next_seq' = next_seq + 1
  /\ records' = [records EXCEPT ![h] = r]
  /\ last' = [last EXCEPT ![h] = next_seq + 1]
  /\ UpdateIndex(h, r, next_seq + 1)
  /\ UNCHANGED listings

Send(h, route) ==
  /\ records[h] = Nil
  /\ WriteHandoff(h, [from |-> route.from, to |-> route.to,
                      source |-> route.source,
                      status |-> "pending", revision |-> 1])

(* What an accepted transition makes of the status: a claim, a heartbeat,  *)
(* repeat or failed return, a completion, and its exact repeat.            *)
StatusMoves(status) ==
  IF status = "accepted" THEN {"accepted", "completed"}
  ELSE IF status = "pending" THEN {"accepted"} ELSE {"completed"}

Transition(h) ==
  /\ records[h] # Nil
  /\ \E status \in StatusMoves(records[h].status) :
       WriteHandoff(h, [records[h] EXCEPT !.status = status,
                                          !.revision = @ + 1])

(* A command on a resource that is no handoff.                             *)
OtherCommand ==
  /\ next_seq < MaxSeq
  /\ next_seq' = next_seq + 1
  /\ UNCHANGED <<records, last, index, listings>>

-----------------------------------------------------------------------------

Matches(q, r) ==
  /\ q.actor = IF q.mailbox = "inbox" THEN r.to ELSE r.from
  /\ q.source = Nil \/ r.source = q.source
  /\ q.include_completed \/ r.status # "completed"

(* Fault: an inclusive cursor.                                             *)
RowsFromCursor(q, before) ==
  {h \in Handoffs : /\ index[h] # Nil
                    /\ Matches(q, index[h])
                    /\ before = Nil \/ index[h].updated <= before}

(* The WHERE clause.                                                       *)
Rows(q, before) ==
  {h \in Handoffs : /\ index[h] # Nil
                    /\ Matches(q, index[h])
                    /\ before = Nil \/ index[h].updated < before}

(* ORDER BY updated_seq DESC LIMIT n: exactly one set, the sequences being *)
(* distinct.                                                               *)
Newest(rows, n) ==
  {s \in SUBSET rows :
     /\ Cardinality(s) <= n
     /\ s = rows \/ Cardinality(s) = n
     /\ \A h \in s, g \in rows \ s : index[g].updated < index[h].updated}

(* HandoffIndexRow::validate *)
RowValid(h) ==
  /\ records[h] # Nil
  /\ index[h].revision = records[h].revision
  /\ index[h].from = records[h].from
  /\ index[h].to = records[h].to
  /\ index[h].source = records[h].source
  /\ index[h].status = records[h].status

EntryOf(h) ==
  [handoff |-> h, project_seq |-> index[h].updated,
   revision |-> records[h].revision]

(* Fault: the cursor is taken before the extra row is cut off.             *)
NextBeforeUntruncated(fetched, page) ==
  IF fetched = page THEN {Nil}
  ELSE {index[h].updated :
          h \in {g \in fetched :
                   \A f \in fetched : index[g].updated <= index[f].updated}}

(* next_before_seq: the last entry's sequence, when a row was cut off.     *)
NextBefore(fetched, page) ==
  IF fetched = page THEN {Nil}
  ELSE {index[h].updated :
          h \in {g \in page :
                   \A f \in page : index[g].updated <= index[f].updated}}

Begin(l, q) ==
  /\ listings[l].pc = "idle"
  /\ listings' = [listings EXCEPT ![l] =
       [pc |-> "reading", query |-> q, start |-> next_seq, before |-> Nil,
        page |-> {}, earlier |-> {}]]
  /\ UNCHANGED <<next_seq, records, last, index>>

(* HandoffStore::handoffs: limit + 1 rows are read and checked, limit are  *)
(* answered.                                                               *)
Answered(s, fetched, page, next) ==
  [pc |-> IF \E h \in fetched : ~RowValid(h) THEN "failed"
          ELSE IF next = Nil THEN "done" ELSE "reading",
   query |-> s.query, start |-> s.start, before |-> next,
   page |-> {EntryOf(h) : h \in page},
   earlier |-> s.earlier \cup s.page]

ReadPage(l) ==
  /\ listings[l].pc = "reading"
  /\ \E fetched \in Newest(Rows(listings[l].query, listings[l].before),
                           Limit + 1) :
     \E page \in Newest(fetched, Limit) :
     \E next \in NextBefore(fetched, page) :
       listings' = [listings EXCEPT ![l] =
                      Answered(listings[l], fetched, page, next)]
  /\ UNCHANGED <<next_seq, records, last, index>>

Next ==
  \/ \E h \in Handoffs, route \in Routes : Send(h, route)
  \/ \E h \in Handoffs : Transition(h)
  \/ OtherCommand
  \/ \E l \in Listers, q \in Queries : Begin(l, q)
  \/ \E l \in Listers : ReadPage(l)

MailSpec == Init /\ [][Next]_vars

-----------------------------------------------------------------------------

(* The tables and the listings keep their types, and no page ever fails on *)
(* a row that disagrees with its record (handoff_mailbox_decode).          *)
MailTypeOK ==
  /\ next_seq \in Nat
  /\ records \in [Handoffs -> Maybe(Records)]
  /\ last \in [Handoffs -> Nat]
  /\ index \in [Handoffs -> Maybe(IndexRows)]
  /\ listings \in [Listers -> Listings]
  /\ \A l \in Listers : listings[l].pc # "failed"

(* Written by transactions or by the migration, the index always has one   *)
(* row for each handoff, equal to its record and placed at the handoff's   *)
(* latest change, and no two rows share a place: the cursor is exact.      *)
IndexAgrees ==
  /\ \A h \in Handoffs : records[h] # Nil \/ index[h] # Nil =>
       /\ records[h] # Nil /\ index[h] # Nil
       /\ RowValid(h)
       /\ index[h].updated = last[h]
       /\ last[h] \in 1..next_seq
  /\ \A g, h \in Handoffs :
       index[g] # Nil /\ index[h] # Nil /\ g # h =>
         index[g].updated # index[h].updated

(* A finished listing has missed nothing but what moved to the front while *)
(* it ran: every handoff of the mailbox that has not changed since the     *)
(* listing began is on one of its pages, with its current revision.        *)
Received(l) == listings[l].page \cup listings[l].earlier

ListingMissesOnlyMoved ==
  \A l \in Listers : listings[l].pc = "done" =>
    \A h \in Handoffs :
      /\ records[h] # Nil
      /\ Matches(listings[l].query, records[h])
      /\ last[h] <= listings[l].start
      => [handoff |-> h, project_seq |-> last[h],
          revision |-> records[h].revision] \in Received(l)

(* No handoff is on two pages of a listing, wherever its row moves.        *)
NothingListedTwice ==
  \A l \in Listers :
    \A e \in listings[l].page, f \in listings[l].earlier :
      e.handoff # f.handoff
=============================================================================
