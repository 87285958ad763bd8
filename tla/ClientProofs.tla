---------------------------- MODULE ClientProofs ----------------------------
(***************************************************************************)
(* Proofs about what a member works with: Mailbox, for every set of        *)
(* handoffs, routes, queries and clients, every page size and every        *)
(* version 2 ledger; SendOutbox, for every number of processes, operations *)
(* and kinds of evidence; Pending, for every set of entries and of runs of *)
(* the two programs that rewrite their log; and MemoryCommands, for every  *)
(* set of stores, ports, seeds, calls and requests, and for any number of  *)
(* servers and of managers of the daemon.                                  *)
(***************************************************************************)
EXTENDS Mailbox, SendOutbox, Pending, MemoryCommands, FiniteSetTheorems,
        FunctionTheorems, TLAPS

EntryNow(h) ==
  [handoff |-> h, project_seq |-> last[h], revision |-> records[h].revision]

(* The listing s has passed the places from its cursor on.                 *)
Passed(s, seq) ==
  \/ s.pc = "done"
  \/ s.pc = "reading" /\ s.before # Nil /\ seq >= s.before

(* What has been passed and has not changed since the start was received.  *)
Complete(s) ==
  \A h \in Handoffs :
    /\ records[h] # Nil
    /\ Matches(s.query, records[h])
    /\ last[h] <= s.start
    /\ Passed(s, last[h])
    => EntryNow(h) \in s.page \cup s.earlier

(* A received handoff can only have moved forward since.                   *)
Behind(s) ==
  \A e \in s.page \cup s.earlier :
    index[e.handoff] # Nil /\ e.project_seq <= last[e.handoff]

(* Everything received stands at the cursor or before it.                  *)
AboveCursor(s) ==
  s.pc = "reading" =>
    \A e \in s.page \cup s.earlier :
      s.before # Nil /\ s.before <= e.project_seq

Distinct(s) == \A e \in s.page, f \in s.earlier : e.handoff # f.handoff

ListingOK(s) ==
  /\ s.start <= next_seq
  /\ Complete(s)
  /\ Behind(s)
  /\ AboveCursor(s)
  /\ Distinct(s)

MailInv == MailTypeOK /\ IndexAgrees /\ \A l \in Listers : ListingOK(listings[l])

-----------------------------------------------------------------------------
(* Cutting limit rows off limit + 1 leaves the newest rows, all of them    *)
(* when nothing was cut.                                                   *)
LEMMA PageIsTop ==
  ASSUME NEW rows, NEW fetched \in Newest(rows, Limit + 1),
         NEW page \in Newest(fetched, Limit)
  PROVE  /\ page \subseteq rows
         /\ fetched \subseteq rows
         /\ \A h \in page, g \in rows \ page :
              index[g].updated < index[h].updated
         /\ fetched = page => page = rows
<1>1. page \subseteq fetched /\ fetched \subseteq rows
  BY DEF Newest
<1>2. ASSUME NEW h \in page, NEW g \in rows \ page
      PROVE  index[g].updated < index[h].updated
  BY <1>1, <1>2 DEF Newest
<1>3. ASSUME fetched = page PROVE page = rows
  BY <1>3, LimitAssumption DEF Newest
<1> QED BY <1>1, <1>2, <1>3

(* The greatest of a set of sequences is what Latest chooses.              *)
LEMMA LatestIsGreatest ==
  ASSUME NEW S, \E n \in S : \A m \in S : m <= n
  PROVE  Latest(S) \in S /\ \A m \in S : m <= Latest(S)
BY DEF Latest

(* An entry of the index and the record it belongs to match alike.         *)
LEMMA MatchAlike ==
  ASSUME NEW q, NEW h \in Handoffs, RowValid(h)
  PROVE  Matches(q, index[h]) <=> Matches(q, records[h])
BY DEF Matches, RowValid

-----------------------------------------------------------------------------
(* The migration's index agrees with the ledger it was built from.         *)
LEMMA InitHolds == Init => MailInv
<1> SUFFICES ASSUME Init PROVE MailInv
  OBVIOUS
<1> PICK old \in OldLedgers :
      /\ next_seq = old.next_seq
      /\ records = old.records
      /\ last = [h \in Handoffs |->
                   IF old.records[h] = Nil THEN 0 ELSE Latest(old.changes[h])]
      /\ index = Backfill(old)
      /\ listings = [l \in Listers |-> Idle]
  BY DEF Init
<1>1. /\ next_seq \in Nat
      /\ records \in [Handoffs -> Maybe(Records)]
  BY OldLedgersAssumption
<1>2. ASSUME NEW h \in Handoffs, records[h] # Nil
      PROVE  /\ Latest(old.changes[h]) \in old.changes[h]
             /\ Latest(old.changes[h]) \in 1..next_seq
             /\ last[h] = Latest(old.changes[h])
             /\ records[h] \in Records
  <2>1. Latest(old.changes[h]) \in old.changes[h]
    BY <1>2, OldLedgersAssumption, LatestIsGreatest
  <2>2. old.changes[h] \subseteq 1..next_seq
    BY OldLedgersAssumption
  <2> QED BY <1>1, <1>2, <2>1, <2>2 DEF Maybe
<1>3. ASSUME NEW h \in Handoffs, records[h] # Nil
      PROVE  /\ RowValid(h)
             /\ index[h].updated = last[h]
             /\ index[h] \in IndexRows
             /\ index[h] # Nil
  <2>1. index[h] = [from |-> records[h].from, to |-> records[h].to,
                    source |-> records[h].source,
                    status |-> records[h].status,
                    revision |-> records[h].revision,
                    updated |-> last[h]]
    BY <1>2, <1>3 DEF Backfill
  <2>2. index[h] \in IndexRows
    BY <1>1, <1>2, <1>3, <2>1 DEF IndexRows, Records
  <2>3. RowValid(h) /\ index[h].updated = last[h]
    BY <1>3, <2>1 DEF RowValid
  <2> QED BY <2>2, <2>3, NilAssumption
<1>4. ASSUME NEW h \in Handoffs, records[h] = Nil
      PROVE  index[h] = Nil /\ last[h] = 0
  BY <1>4 DEF Backfill
<1>5. MailTypeOK
  <2>1. last \in [Handoffs -> Nat]
    <3>1. ASSUME NEW h \in Handoffs PROVE last[h] \in Nat
      BY <1>1, <1>2, <1>4
    <3> QED BY <3>1
  <2>2. index \in [Handoffs -> Maybe(IndexRows)]
    <3>1. ASSUME NEW h \in Handoffs PROVE index[h] \in Maybe(IndexRows)
      BY <1>3, <1>4 DEF Maybe
    <3> QED BY <3>1 DEF Backfill
  <2>3. listings \in [Listers -> Listings] /\ Idle.pc # "failed"
    BY DEF Idle, Listings, Maybe
  <2> QED BY <1>1, <2>1, <2>2, <2>3 DEF MailTypeOK
<1>6. IndexAgrees
  <2>1. ASSUME NEW h \in Handoffs, records[h] # Nil \/ index[h] # Nil
        PROVE  /\ records[h] # Nil /\ index[h] # Nil
               /\ RowValid(h)
               /\ index[h].updated = last[h]
               /\ last[h] \in 1..next_seq
    <3>1. records[h] # Nil
      BY <1>4, <2>1
    <3>2. last[h] \in 1..next_seq
      BY <1>2, <3>1
    <3> QED BY <1>3, <3>1, <3>2
  <2>2. ASSUME NEW g \in Handoffs, NEW h \in Handoffs,
               index[g] # Nil, index[h] # Nil, g # h
        PROVE  index[g].updated # index[h].updated
    <3>1. records[g] # Nil /\ records[h] # Nil
      BY <1>4, <2>2
    <3>2. old.changes[g] \cap old.changes[h] = {}
      BY <2>2, OldLedgersAssumption
    <3>3. last[g] \in old.changes[g] /\ last[h] \in old.changes[h]
      BY <1>2, <3>1
    <3>4. index[g].updated = last[g] /\ index[h].updated = last[h]
      BY <1>3, <3>1
    <3> QED BY <3>2, <3>3, <3>4
  <2> QED BY <2>1, <2>2 DEF IndexAgrees
<1>7. ASSUME NEW l \in Listers PROVE ListingOK(listings[l])
  BY <1>1 DEF ListingOK, Complete, Passed, Behind, AboveCursor, Distinct, Idle
<1> QED BY <1>5, <1>6, <1>7 DEF MailInv

(* A handoff command keeps the index true and every listing complete: the  *)
(* handoff it writes has moved past every listing's start.                 *)
LEMMA WriteKeeps ==
  ASSUME MailInv, NEW h \in Handoffs, NEW r \in Records, WriteHandoff(h, r)
  PROVE  MailInv'
<1> USE DEF WriteHandoff, UpdateIndex
<1>1. /\ next_seq \in Nat /\ next_seq' = next_seq + 1
      /\ listings' = listings
      /\ listings \in [Listers -> Listings]
  BY DEF MailInv, MailTypeOK
<1>2. /\ records'[h] = r
      /\ last'[h] = next_seq + 1
      /\ index'[h] = [from |-> r.from, to |-> r.to, source |-> r.source,
                      status |-> r.status, revision |-> r.revision,
                      updated |-> next_seq + 1]
  BY DEF MailInv, MailTypeOK
<1>3. ASSUME NEW g \in Handoffs, g # h
      PROVE  /\ records'[g] = records[g] /\ last'[g] = last[g]
             /\ index'[g] = index[g]
  BY <1>3 DEF MailInv, MailTypeOK
<1>4. index'[h] \in IndexRows /\ index'[h] # Nil /\ r # Nil
  <2>1. next_seq + 1 \in Nat
    BY <1>1
  <2>2. index'[h] \in IndexRows
    BY <1>2, <2>1 DEF IndexRows, Records
  <2> QED BY <2>2, NilAssumption
<1>5. MailTypeOK'
  <2>1. records' \in [Handoffs -> Maybe(Records)]
    BY DEF MailInv, MailTypeOK, Maybe
  <2>2. last' \in [Handoffs -> Nat]
    <3>1. next_seq + 1 \in Nat
      BY <1>1
    <3> QED BY <3>1 DEF MailInv, MailTypeOK
  <2>3. index' \in [Handoffs -> Maybe(IndexRows)]
    <3>1. ASSUME NEW g \in Handoffs PROVE index'[g] \in Maybe(IndexRows)
      BY <1>3, <1>4 DEF MailInv, MailTypeOK, Maybe
    <3>2. index' = [g \in Handoffs |-> index'[g]]
      BY DEF MailInv, MailTypeOK
    <3> QED BY <3>1, <3>2
  <2>4. next_seq' \in Nat
    BY <1>1
  <2> QED BY <1>1, <2>1, <2>2, <2>3, <2>4 DEF MailInv, MailTypeOK
<1>6. IndexAgrees'
  <2>1. ASSUME NEW g \in Handoffs, (records[g] # Nil \/ index[g] # Nil)'
        PROVE  (/\ records[g] # Nil /\ index[g] # Nil
                /\ RowValid(g)
                /\ index[g].updated = last[g]
                /\ last[g] \in 1..next_seq)'
    <3>1. CASE g = h
      BY <1>1, <1>2, <1>4, <3>1 DEF RowValid
    <3>2. CASE g # h
      BY <1>1, <1>3, <2>1, <3>2 DEF MailInv, IndexAgrees, RowValid
    <3> QED BY <3>1, <3>2
  <2>2. ASSUME NEW g \in Handoffs, index[g] # Nil
        PROVE  index[g].updated \in 1..next_seq
    BY <2>2 DEF MailInv, IndexAgrees
  <2>3. ASSUME NEW g \in Handoffs, NEW k \in Handoffs,
               (index[g] # Nil)', (index[k] # Nil)', g # k
        PROVE  (index[g].updated # index[k].updated)'
    <3>1. CASE g = h
      BY <1>1, <1>2, <1>3, <2>2, <2>3, <3>1
    <3>2. CASE k = h
      BY <1>1, <1>2, <1>3, <2>2, <2>3, <3>2
    <3>3. CASE g # h /\ k # h
      BY <1>3, <2>3, <3>3 DEF MailInv, IndexAgrees
    <3> QED BY <3>1, <3>2, <3>3
  <2> QED BY <2>1, <2>3 DEF IndexAgrees
<1>7. ASSUME NEW l \in Listers PROVE ListingOK(listings[l])'
  <2> DEFINE s == listings[l]
  <2>1. ListingOK(s) /\ s \in Listings /\ s' = s
    BY <1>1 DEF MailInv
  <2>2. s.start \in Nat /\ s.start <= next_seq
    BY <2>1 DEF Listings, ListingOK
  <2>3. (s.start <= next_seq)'
    BY <1>1, <2>1, <2>2
  <2>4. Complete(s)'
    <3>1. ASSUME NEW g \in Handoffs,
                 (/\ records[g] # Nil
                  /\ Matches(s.query, records[g])
                  /\ last[g] <= s.start
                  /\ Passed(s, last[g]))'
          PROVE  (EntryNow(g) \in s.page \cup s.earlier)'
      <4>1. g # h
        BY <1>1, <1>2, <2>1, <2>2, <3>1
      <4>2. /\ records[g] # Nil
            /\ Matches(s.query, records[g])
            /\ last[g] <= s.start
            /\ Passed(s, last[g])
        BY <1>3, <2>1, <3>1, <4>1 DEF Matches, Passed
      <4>3. EntryNow(g) \in s.page \cup s.earlier
        BY <2>1, <4>2 DEF ListingOK, Complete
      <4> QED BY <1>3, <2>1, <4>1, <4>3 DEF EntryNow
    <3> QED BY <3>1 DEF Complete
  <2>5. Behind(s)'
    <3>1. ASSUME NEW e \in s.page \cup s.earlier
          PROVE  (index[e.handoff] # Nil /\ e.project_seq <= last[e.handoff])'
      <4>1. e.handoff \in Handoffs /\ e.project_seq \in Nat
        BY <2>1 DEF Listings, Entries
      <4>2. index[e.handoff] # Nil /\ e.project_seq <= last[e.handoff]
        BY <2>1 DEF ListingOK, Behind
      <4>3. last[e.handoff] \in 1..next_seq
        BY <4>1, <4>2 DEF MailInv, IndexAgrees
      <4>4. CASE e.handoff = h
        BY <1>1, <1>2, <1>4, <4>1, <4>2, <4>3, <4>4
      <4>5. CASE e.handoff # h
        BY <1>3, <4>1, <4>2, <4>5
      <4> QED BY <4>4, <4>5
    <3> QED BY <2>1, <3>1 DEF Behind
  <2>6. AboveCursor(s)' /\ Distinct(s)'
    BY <2>1 DEF ListingOK, AboveCursor, Distinct
  <2> QED BY <2>3, <2>4, <2>5, <2>6 DEF ListingOK
<1> QED BY <1>5, <1>6, <1>7 DEF MailInv

(* Other commands only raise the project head.                             *)
LEMMA OtherKeeps == ASSUME MailInv, OtherCommand PROVE MailInv'
<1>1. /\ next_seq \in Nat /\ next_seq' = next_seq + 1
      /\ records' = records /\ last' = last /\ index' = index
      /\ listings' = listings
  BY DEF MailInv, MailTypeOK, OtherCommand
<1>2. MailTypeOK'
  BY <1>1 DEF MailInv, MailTypeOK
<1>3. IndexAgrees'
  <2>1. 1..next_seq \subseteq 1..next_seq'
    BY <1>1
  <2> QED BY <1>1, <2>1 DEF MailInv, IndexAgrees, RowValid
<1>4. ASSUME NEW l \in Listers PROVE ListingOK(listings[l])'
  <2>1. ListingOK(listings[l]) /\ listings[l].start \in Nat
    BY DEF MailInv, MailTypeOK, Listings
  <2>2. (listings[l].start <= next_seq)'
    BY <1>1, <2>1 DEF ListingOK
  <2> QED BY <1>1, <2>1, <2>2 DEF ListingOK, Complete, Passed, Behind,
          AboveCursor, Distinct, EntryNow, Matches
<1> QED BY <1>2, <1>3, <1>4 DEF MailInv

(* A step of the listing l alone keeps the rest of the invariant.          *)
LEMMA ListingStep ==
  ASSUME MailInv, NEW l \in Listers, NEW s \in Listings,
         listings' = [listings EXCEPT ![l] = s],
         UNCHANGED <<next_seq, records, last, index>>,
         s.pc # "failed", ListingOK(s)
  PROVE  MailInv'
<1>1. MailTypeOK'
  BY DEF MailInv, MailTypeOK
<1>2. IndexAgrees'
  BY DEF MailInv, IndexAgrees, RowValid
<1>3. ASSUME NEW k \in Listers PROVE ListingOK(listings[k])'
  <2>1. listings'[k] = IF k = l THEN s ELSE listings[k]
    BY DEF MailInv, MailTypeOK
  <2>2. ListingOK(listings'[k])
    BY <2>1 DEF MailInv
  <2> QED BY <2>2 DEF ListingOK, Complete, Passed, Behind, AboveCursor,
          Distinct, EntryNow, Matches
<1> QED BY <1>1, <1>2, <1>3 DEF MailInv

(* A new listing has received nothing and passed nothing.                  *)
LEMMA BeginKeeps ==
  ASSUME MailInv, NEW l \in Listers, NEW q \in Queries, Begin(l, q)
  PROVE  MailInv'
<1> DEFINE s == [pc |-> "reading", query |-> q, start |-> next_seq,
                 before |-> Nil, page |-> {}, earlier |-> {}]
<1>1. next_seq \in Nat
  BY DEF MailInv, MailTypeOK
<1>2. s \in Listings /\ s.pc # "failed"
  BY <1>1 DEF Listings, Maybe
<1>3. ListingOK(s)
  <2>1. s.start <= next_seq
    BY <1>1
  <2>2. Complete(s)
    BY DEF Complete, Passed
  <2>3. Behind(s) /\ AboveCursor(s) /\ Distinct(s)
    BY DEF Behind, AboveCursor, Distinct
  <2> QED BY <2>1, <2>2, <2>3 DEF ListingOK
<1> QED BY <1>2, <1>3, ListingStep DEF Begin

(* A page continues exactly where the pages before it stopped.             *)
LEMMA ReadKeeps ==
  ASSUME MailInv, NEW l \in Listers, ReadPage(l)
  PROVE  MailInv'
<1> DEFINE s == listings[l]
           rows == Rows(s.query, s.before)
<1> PICK fetched \in Newest(rows, Limit + 1) :
      \E page \in Newest(fetched, Limit) :
      \E next \in NextBefore(fetched, page) :
        listings' = [listings EXCEPT ![l] = Answered(s, fetched, page, next)]
  BY DEF ReadPage
<1> PICK page \in Newest(fetched, Limit) :
      \E next \in NextBefore(fetched, page) :
        listings' = [listings EXCEPT ![l] = Answered(s, fetched, page, next)]
  OBVIOUS
<1>1. PICK next \in NextBefore(fetched, page) :
        listings' = [listings EXCEPT ![l] = Answered(s, fetched, page, next)]
  OBVIOUS
<1> DEFINE t == Answered(s, fetched, page, next)
<1>2. /\ s \in Listings /\ s.pc = "reading" /\ ListingOK(s)
      /\ UNCHANGED <<next_seq, records, last, index>>
  BY DEF MailInv, MailTypeOK, ReadPage
<1>3. /\ page \subseteq rows /\ fetched \subseteq rows
      /\ \A h \in page, g \in rows \ page :
           index[g].updated < index[h].updated
      /\ fetched = page => page = rows
  BY PageIsTop
<1>4. ASSUME NEW h \in Handoffs, index[h] # Nil \/ records[h] # Nil
      PROVE  /\ records[h] # Nil /\ index[h] # Nil /\ RowValid(h)
             /\ index[h].updated = last[h] /\ last[h] \in Nat
             /\ records[h].revision \in Nat
  <2>1. /\ records[h] # Nil /\ index[h] # Nil /\ RowValid(h)
        /\ index[h].updated = last[h]
    BY <1>4 DEF MailInv, IndexAgrees
  <2>2. records[h] \in Records /\ last[h] \in Nat
    BY <2>1 DEF MailInv, MailTypeOK, Maybe
  <2> QED BY <2>1, <2>2 DEF Records
<1>5. ASSUME NEW h \in rows
      PROVE  /\ h \in Handoffs /\ index[h] # Nil
             /\ s.before = Nil \/ last[h] < s.before
             /\ EntryOf(h) = EntryNow(h) /\ EntryOf(h) \in Entries
  <2>1. /\ h \in Handoffs /\ index[h] # Nil
        /\ s.before = Nil \/ index[h].updated < s.before
    BY DEF Rows
  <2>2. EntryOf(h) = EntryNow(h)
    BY <1>4, <2>1 DEF EntryOf, EntryNow
  <2>3. EntryNow(h) \in Entries
    BY <1>4, <2>1 DEF EntryNow, Entries
  <2> QED BY <1>4, <2>1, <2>2, <2>3
<1>6. /\ next = Nil => page = rows
      /\ next # Nil =>
           /\ next \in Nat
           /\ \A h \in page : next <= last[h]
           /\ \A h \in rows \ page : last[h] < next
  <2>1. CASE fetched = page
    BY <1>1, <1>3, <2>1 DEF NextBefore
  <2>2. CASE fetched # page
    <3>1. PICK g \in page : /\ next = index[g].updated
                            /\ \A f \in page : index[g].updated <= index[f].updated
      BY <1>1, <2>2 DEF NextBefore
    <3>2. \A h \in rows : index[h].updated = last[h] /\ last[h] \in Nat
      BY <1>4, <1>5
    <3>3. next \in Nat /\ g \in rows
      BY <1>3, <3>1, <3>2
    <3> QED BY <1>3, <3>1, <3>2, <3>3, NilAssumption
  <2> QED BY <2>1, <2>2
<1>7. t = [pc |-> IF next = Nil THEN "done" ELSE "reading",
           query |-> s.query, start |-> s.start, before |-> next,
           page |-> {EntryNow(h) : h \in page},
           earlier |-> s.earlier \cup s.page]
  <2>1. ~ \E h \in fetched : ~RowValid(h)
    BY <1>3, <1>4, <1>5
  <2>2. {EntryOf(h) : h \in page} = {EntryNow(h) : h \in page}
    BY <1>3, <1>5
  <2> QED BY <1>2, <2>1, <2>2 DEF Answered, Listings
<1>8. t \in Listings /\ t.pc # "failed"
  <2>1. {EntryNow(h) : h \in page} \subseteq Entries
    BY <1>3, <1>5
  <2>2. next \in Maybe(Nat)
    BY <1>6 DEF Maybe
  <2> QED BY <1>2, <1>7, <2>1, <2>2 DEF Listings
<1>9. ASSUME NEW h \in Handoffs, records[h] # Nil,
             Matches(s.query, records[h]), last[h] <= s.start,
             Passed(t, last[h])
      PROVE  EntryNow(h) \in t.page \cup t.earlier
  <2>1. CASE s.before # Nil /\ last[h] >= s.before
    BY <1>2, <1>7, <1>9, <2>1 DEF ListingOK, Complete, Passed
  <2>2. CASE s.before = Nil \/ ~(last[h] >= s.before)
    <3>1. s.before \in Maybe(Nat) /\ last[h] \in Nat
      BY <1>2, <1>4, <1>9 DEF Listings
    <3>2. s.before = Nil \/ index[h].updated < s.before
      BY <1>4, <1>9, <2>2, <3>1 DEF Maybe
    <3>3. h \in rows
      BY <1>4, <1>9, <3>2, MatchAlike DEF Rows
    <3>4. h \in page
      BY <1>6, <1>7, <1>9, <3>1, <3>3 DEF Passed
    <3> QED BY <1>7, <3>4
  <2> QED BY <2>1, <2>2
<1>10. ASSUME NEW e \in t.page \cup t.earlier
       PROVE  /\ index[e.handoff] # Nil
              /\ e.project_seq <= last[e.handoff]
  <2>1. CASE e \in s.page \cup s.earlier
    BY <1>2, <2>1 DEF ListingOK, Behind
  <2>2. CASE e \in {EntryNow(h) : h \in page}
    BY <1>3, <1>4, <1>5, <2>2 DEF EntryNow
  <2> QED BY <1>7, <2>1, <2>2
<1>11. ASSUME NEW e \in s.page \cup s.earlier, NEW h \in page
       PROVE  /\ last[h] < e.project_seq
              /\ e.handoff # h
  <2>1. e.project_seq \in Nat /\ s.before \in Maybe(Nat) /\ e.handoff \in Handoffs
    BY <1>2 DEF Listings, Entries
  <2>2. s.before # Nil /\ s.before <= e.project_seq
    BY <1>2 DEF ListingOK, AboveCursor
  <2>3. last[h] < s.before /\ last[h] \in Nat
    BY <1>3, <1>4, <1>5, <2>2
  <2>4. index[e.handoff] # Nil /\ e.project_seq <= last[e.handoff]
    BY <1>2 DEF ListingOK, Behind
  <2>5. last[e.handoff] \in Nat
    BY <1>4, <2>1, <2>4
  <2>6. last[h] < e.project_seq
    BY <2>1, <2>2, <2>3 DEF Maybe
  <2> QED BY <2>1, <2>4, <2>5, <2>6, <2>3
<1>12. ASSUME next # Nil, NEW e \in t.page \cup t.earlier
       PROVE  next <= e.project_seq
  <2>1. CASE e \in {EntryNow(h) : h \in page}
    BY <1>6, <1>12, <2>1 DEF EntryNow
  <2>2. CASE e \in s.page \cup s.earlier
    <3>1. PICK g \in page : TRUE
      <4>1. page = {} => fetched = {} \/ next = Nil
        BY <1>1 DEF NextBefore
      <4>2. page # {}
        BY <1>1, <1>12, <4>1 DEF NextBefore
      <4> QED BY <4>2
    <3>2. next <= last[g] /\ last[g] < e.project_seq
      BY <1>6, <1>11, <1>12, <2>2
    <3>3. next \in Nat /\ last[g] \in Nat /\ e.project_seq \in Nat
      BY <1>2, <1>3, <1>4, <1>5, <1>6, <1>12, <2>2 DEF Listings, Entries
    <3> QED BY <3>2, <3>3
  <2> QED BY <1>7, <2>1, <2>2
<1>13. ListingOK(t)
  <2>1. t.start <= next_seq
    BY <1>2, <1>7 DEF ListingOK
  <2>2. Complete(t)
    BY <1>7, <1>9 DEF Complete
  <2>3. Behind(t)
    BY <1>10 DEF Behind
  <2>4. AboveCursor(t)
    BY <1>7, <1>12 DEF AboveCursor
  <2>5. Distinct(t)
    <3>1. ASSUME NEW e \in t.page, NEW f \in t.earlier
          PROVE  e.handoff # f.handoff
      <4>1. f \in s.page \cup s.earlier
        BY <1>7
      <4>2. PICK h \in page : e = EntryNow(h)
        BY <1>7
      <4> QED BY <1>11, <4>1, <4>2 DEF EntryNow
    <3> QED BY <3>1 DEF Distinct
  <2> QED BY <2>1, <2>2, <2>3, <2>4, <2>5 DEF ListingOK
<1> QED BY <1>1, <1>2, <1>8, <1>13, ListingStep

-----------------------------------------------------------------------------
(* Every step keeps the invariant.                                         *)
LEMMA NextKeeps == MailInv /\ [Next]_vars => MailInv'
<1> SUFFICES ASSUME MailInv, [Next]_vars PROVE MailInv'
  OBVIOUS
<1>1. ASSUME NEW h \in Handoffs, NEW route \in Routes, Send(h, route)
      PROVE  MailInv'
  <2> DEFINE r == [from |-> route.from, to |-> route.to,
                   source |-> route.source,
                   status |-> "pending", revision |-> 1]
  <2>1. r \in Records
    BY RequestsAssumption DEF Records, RouteRecords, Statuses
  <2> QED BY <1>1, <2>1, WriteKeeps DEF Send
<1>2. ASSUME NEW h \in Handoffs, Transition(h)
      PROVE  MailInv'
  <2>1. PICK status \in StatusMoves(records[h].status) :
          WriteHandoff(h, [records[h] EXCEPT !.status = status,
                                             !.revision = @ + 1])
    BY <1>2 DEF Transition
  <2>2. records[h] \in Records
    BY <1>2 DEF Transition, MailInv, MailTypeOK, Maybe
  <2>3. status \in Statuses
    BY DEF StatusMoves, Statuses
  <2>4. records[h].revision + 1 \in Nat
    BY <2>2 DEF Records
  <2>5. [records[h] EXCEPT !.status = status, !.revision = @ + 1] \in Records
    BY <2>2, <2>3, <2>4 DEF Records
  <2> QED BY <2>1, <2>5, WriteKeeps
<1>3. CASE OtherCommand
  BY <1>3, OtherKeeps
<1>4. ASSUME NEW l \in Listers, NEW q \in Queries, Begin(l, q)
      PROVE  MailInv'
  BY <1>4, BeginKeeps
<1>5. ASSUME NEW l \in Listers, ReadPage(l)
      PROVE  MailInv'
  BY <1>5, ReadKeeps
<1>6. CASE UNCHANGED vars
  BY <1>6 DEF vars, MailInv, MailTypeOK, IndexAgrees, RowValid, ListingOK,
     Complete, Passed, Behind, AboveCursor, Distinct, EntryNow, Matches
<1> QED BY <1>1, <1>2, <1>3, <1>4, <1>5, <1>6 DEF Next

(* The inductive invariant holds of every reachable state.                 *)
THEOREM MailboxInvariance == MailSpec => []MailInv
<1> QED BY InitHolds, NextKeeps, PTL DEF MailSpec

(* The mailbox keeps its types and no page fails on its index.             *)
THEOREM MailTypeCorrect == MailSpec => []MailTypeOK
<1>1. MailInv => MailTypeOK
  BY DEF MailInv
<1> QED BY <1>1, MailboxInvariance, PTL

(* The index agrees with the records, migrated or new.                     *)
THEOREM IndexIsExact == MailSpec => []IndexAgrees
<1>1. MailInv => IndexAgrees
  BY DEF MailInv
<1> QED BY <1>1, MailboxInvariance, PTL

(* Whatever the page size, a finished listing has every handoff of the     *)
(* mailbox that did not change while it ran.                               *)
THEOREM ListingIsComplete == MailSpec => []ListingMissesOnlyMoved
<1>1. MailInv => ListingMissesOnlyMoved
  <2> SUFFICES ASSUME MailInv, NEW l \in Listers, listings[l].pc = "done"
               PROVE  /\ Complete(listings[l])
                      /\ \A h \in Handoffs : Passed(listings[l], last[h])
    BY DEF Complete, EntryNow, ListingMissesOnlyMoved, Received
  <2>1. ASSUME NEW h \in Handoffs PROVE Passed(listings[l], last[h])
    BY DEF Passed
  <2>2. ListingOK(listings[l])
    BY DEF MailInv
  <2> QED BY <2>1, <2>2 DEF ListingOK
<1> QED BY <1>1, MailboxInvariance, PTL

(* Whatever moves, no listing answers a handoff twice.                     *)
THEOREM ListingHasNoDuplicates == MailSpec => []NothingListedTwice
<1>1. MailInv => NothingListedTwice
  BY DEF MailInv, ListingOK, Distinct, NothingListedTwice
<1> QED BY <1>1, MailboxInvariance, PTL

-----------------------------------------------------------------------------
(* The outbox accounts for what the server has, and evidence that was sent *)
(* gets no second operation, although processes die between any two file   *)
(* operations and publish what they listed under another lock.             *)

(* The operation of the directory is the one a process works on.           *)
Holds(process) == Readable /\ directory.operation.id = process.id

(* A process that got hold of an operation knows one that was reserved,    *)
(* and what the steps before its own gave it.                              *)
Informed(process) ==
  /\ process.pc \notin {"idle", "listing", "failing"}
       => process.payload \in Payloads
  /\ process.pc \notin {"idle", "reserving"} => process.id \in 1..Len(reserved)
  /\ process.pc \in {"binding", "queueing", "submitting", "committing"}
       => process.actor \in Identities
  /\ process.pc = "failing" => process.failure \in {"failed", "conflict"}

(* The evidence it is about to send is that of its operation, as far as    *)
(* the operation is still there.                                           *)
PlanSound(process) ==
  process.pc \in {"storing", "identifying", "binding"} /\ Holds(process)
    => process.payload = directory.operation.payload

(* Once it has bound the operation it sends it as it was reserved, and     *)
(* finds it in the directory or acknowledged.                              *)
BindingSound(process) ==
  process.pc \in {"queueing", "submitting", "committing"} =>
    /\ process.payload = reserved[process.id]
    /\ Holds(process) => directory.operation.actor = process.actor
    /\ Holds(process) \/ process.id \in archive
    /\ process.pc = "committing" => process.id \in Sent

Sound(process) ==
  Informed(process) /\ PlanSound(process) /\ BindingSound(process)

(* An operation that can be read is the last one reserved, and the rest of *)
(* a directory is of its operation.                                        *)
DirectorySound ==
  /\ Readable => /\ directory.operation.id = Len(reserved)
                 /\ Len(reserved) # 0
                 /\ directory.operation.payload = reserved[Len(reserved)]
  /\ directory # Absent /\ directory.replay # Absent => Readable
  /\ directory # Absent /\ directory.replay \notin Broken
       => directory.replay = directory.operation.payload
  /\ directory # Absent /\ directory.committed # Absent
       => Readable /\ directory.operation.id \in Sent

(* What was sent is acknowledged or still there; what was acknowledged was *)
(* sent, and followed by other evidence.                                   *)
SentSound ==
  /\ \A id \in Sent :
       id \in archive \/ (Readable /\ directory.operation.id = id)
  /\ archive \subseteq Sent
  /\ \A id \in archive :
       id < Len(reserved) /\ reserved[id + 1] # reserved[id]

IInv ==
  /\ OutboxTypeOK
  /\ \A p \in Processes : Sound(processes[p])
  /\ DirectorySound
  /\ SentSound
  /\ HandoffsMatchReservations

-----------------------------------------------------------------------------

(* A step that changes one process only.                                   *)
LEMMA ProcessStep ==
  ASSUME IInv, NEW p \in Processes, NEW process \in ProcessRecords,
         processes' = [processes EXCEPT ![p] = process], Sound(process),
         UNCHANGED <<directory, archive, reserved, handoffs>>
  PROVE  IInv'
<1>1. OutboxTypeOK'
  BY DEF IInv, OutboxTypeOK
<1>2. ASSUME NEW q \in Processes
      PROVE  Sound(processes[q])'
  <2>1. processes'[q] = IF q = p THEN process ELSE processes[q]
    BY DEF IInv, OutboxTypeOK
  <2>2. Sound(processes'[q])
    BY <2>1 DEF IInv
  <2>. QED
    BY <2>2 DEF Sound, Informed, PlanSound, BindingSound, Holds, Readable, Sent
<1>3. (DirectorySound /\ SentSound /\ HandoffsMatchReservations)'
  BY DEF IInv, DirectorySound, SentSound, HandoffsMatchReservations, Readable,
         Sent
<1>. QED
  BY <1>1, <1>2, <1>3 DEF IInv

(* A step that writes the other files of an operation, or its actor.       *)
LEMMA DirectoryStep ==
  ASSUME IInv, NEW p \in Processes, NEW process \in ProcessRecords,
         processes' = [processes EXCEPT ![p] = process], Sound(process)',
         UNCHANGED <<archive, reserved, handoffs>>,
         Readable, directory' \in Directories,
         directory'.operation \in Operations,
         directory'.operation.id = directory.operation.id,
         directory'.operation.payload = directory.operation.payload,
         directory.operation.actor \in {Absent, directory'.operation.actor},
         directory'.replay \in Broken \cup {directory.operation.payload},
         directory'.committed # Absent => directory.operation.id \in Sent
  PROVE  IInv'
<1>1. OutboxTypeOK'
  BY DEF IInv, OutboxTypeOK
<1>2. Readable'
  BY AbsentAssumption DEF Readable, Broken
<1>3. Sent' = Sent
  BY DEF Sent
<1>4. ASSUME NEW q \in Processes
      PROVE  Sound(processes[q])'
  <2>1. CASE q = p
    BY <2>1 DEF IInv, OutboxTypeOK
  <2>2. CASE q # p
    <3>1. processes'[q] = processes[q] /\ Sound(processes[q])
      BY <2>2 DEF IInv, OutboxTypeOK
    <3>2. Holds(processes[q])' <=> Holds(processes[q])
      BY <1>2, <3>1 DEF Holds
    <3>3. Informed(processes[q])'
      BY <3>1 DEF Sound, Informed
    <3>4. PlanSound(processes[q])'
      BY <3>1, <3>2 DEF Sound, PlanSound
    <3>5. BindingSound(processes[q])'
      BY <3>1, <3>2, <1>3, AbsentAssumption
         DEF Sound, BindingSound, Informed, Holds
    <3>. QED
      BY <3>3, <3>4, <3>5 DEF Sound
  <2>. QED
    BY <2>1, <2>2
<1>5. DirectorySound'
  BY <1>2, <1>3 DEF IInv, DirectorySound, Broken
<1>6. SentSound'
  BY <1>2, <1>3 DEF IInv, SentSound
<1>7. HandoffsMatchReservations'
  <2>. SUFFICES ASSUME NEW id \in Sent
                PROVE  (/\ handoffs[id].payload = reserved[id]
                        /\ Readable /\ directory.operation.id = id
                             => directory.operation.actor = handoffs[id].actor)'
    BY <1>3 DEF HandoffsMatchReservations
  <2>1. handoffs[id] \in HandoffRecords
    BY DEF IInv, OutboxTypeOK, Sent
  <2>. QED
    BY <2>1, AbsentAssumption
       DEF IInv, HandoffsMatchReservations, HandoffRecords
<1>. QED
  BY <1>1, <1>4, <1>5, <1>6, <1>7 DEF IInv

(* A process at rest knows nothing, and whoever gives up may come to rest. *)
LEMMA RestingSound ==
  ASSUME IInv
  PROVE  Resting \in ProcessRecords /\ Sound(Resting)
  BY DEF Resting, ProcessRecords, Sound, Informed, PlanSound, BindingSound

LEMMA EndStep ==
  ASSUME IInv, NEW p \in Processes, End(p),
         UNCHANGED <<directory, archive, reserved, handoffs>>
  PROVE  IInv'
  BY RestingSound, ProcessStep DEF End

LEMMA FailStep ==
  ASSUME IInv, NEW p \in Processes, NEW failure \in {"failed", "conflict"},
         processes[p].pc \notin {"idle", "reserving"}, FailWith(p, failure),
         UNCHANGED <<directory, archive, reserved, handoffs>>
  PROVE  IInv'
<1>. DEFINE process == [processes[p] EXCEPT !.pc = "failing",
                                            !.failure = failure]
<1>1. processes[p] \in ProcessRecords /\ Sound(processes[p])
  BY DEF IInv, OutboxTypeOK
<1>2. process \in ProcessRecords
  BY <1>1 DEF ProcessRecords
<1>3. Sound(process)
  BY <1>1 DEF Sound, Informed, PlanSound, BindingSound, ProcessRecords
<1>. QED
  BY <1>2, <1>3, ProcessStep DEF FailWith

LEMMA Init_IInv == OutboxInit => IInv
<1>. SUFFICES ASSUME OutboxInit
              PROVE  IInv
  OBVIOUS
<1>1. Sent = {} /\ ~Readable
  BY DEF OutboxInit, Sent, Readable
<1>2. OutboxTypeOK
  BY MaxOpsAssumption
     DEF OutboxInit, OutboxTypeOK, ProcessRecords, Resting
<1>3. Sound(Resting)
  BY DEF Resting, Sound, Informed, PlanSound, BindingSound
<1>. QED
  BY <1>1, <1>2, <1>3
     DEF OutboxInit, IInv, DirectorySound, SentSound, HandoffsMatchReservations

LEMMA Step_StartSend ==
  ASSUME IInv, NEW p \in Processes, NEW payload \in Payloads,
         StartSend(p, payload)
  PROVE  IInv'
<1>. DEFINE process == [Resting EXCEPT !.pc = "reserving", !.payload = payload]
<1>1. process \in ProcessRecords /\ Sound(process)
  BY DEF Resting, ProcessRecords, Sound, Informed, PlanSound, BindingSound
<1>. QED
  BY <1>1, ProcessStep DEF StartSend

LEMMA Step_Reuse ==
  ASSUME IInv, NEW p \in Processes, Reuse(p)
  PROVE  IInv'
<1>. DEFINE process == [processes[p] EXCEPT !.pc = "storing",
                                            !.id = directory.operation.id]
<1>1. processes[p] \in ProcessRecords /\ Informed(processes[p])
  BY DEF IInv, OutboxTypeOK, Sound
<1>2. /\ directory.operation.id \in 1..Len(reserved)
      /\ directory.operation.id \in Nat
  <2>1. Len(reserved) \in Nat
    BY DEF IInv, OutboxTypeOK
  <2>. QED
    BY <2>1 DEF Reuse, IInv, DirectorySound
<1>3. process \in ProcessRecords
  BY <1>1, <1>2 DEF ProcessRecords
<1>4. Sound(process)
  BY <1>1, <1>2
     DEF Reuse, ProcessRecords, Sound, Informed, PlanSound, BindingSound
<1>. QED
  BY <1>3, <1>4, ProcessStep DEF Reuse

LEMMA Step_Reserve ==
  ASSUME IInv, NEW p \in Processes, Reserve(p)
  PROVE  IInv'
<1>. DEFINE n == Len(reserved)
            payload == processes[p].payload
            record == [id |-> n + 1, payload |-> payload, actor |-> Absent]
            with(operation) == [EmptyDirectory EXCEPT !.operation = operation]
            process == [processes[p] EXCEPT !.pc = "storing", !.id = n + 1]
<1>1. /\ processes \in [Processes -> ProcessRecords]
      /\ processes[p] \in ProcessRecords
      /\ payload \in Payloads
  BY DEF IInv, OutboxTypeOK, Sound, Informed, Reserve
<1>2. /\ n \in Nat /\ n + 1 \in Ids /\ n + 1 \in Nat
      /\ reserved \in Seq(Payloads)
      /\ reserved' = Append(reserved, payload)
  BY MaxOpsAssumption DEF IInv, OutboxTypeOK, Reserve, Ids
<1>3. /\ reserved' \in Seq(Payloads)
      /\ Len(reserved') = n + 1
      /\ reserved'[n + 1] = payload
      /\ \A i \in 1..n : reserved'[i] = reserved[i]
  BY <1>1, <1>2
<1>4. /\ directory' \in {Absent, EmptyDirectory, with(Torn), with(record),
                         [with(record) EXCEPT !.status = Torn],
                         [with(record) EXCEPT !.status = "queued"]}
      /\ \/ /\ directory' = [with(record) EXCEPT !.status = "queued"]
            /\ processes' = [processes EXCEPT ![p] = process]
         \/ End(p)
  BY DEF Reserve, Section
<1>5. /\ Readable' => directory'.operation = record
      /\ directory' # Absent =>
           /\ directory'.replay = Absent /\ directory'.committed = Absent
           /\ directory' \in Directories
  <2>1. record \in Operations /\ record # Absent /\ record # Torn
    BY <1>1, <1>2, AbsentAssumption DEF Operations
  <2>2. PICK operation \in {Absent, Torn, record},
             status \in {Absent, Torn, "queued"} :
          directory' \in {Absent, [operation |-> operation, replay |-> Absent,
                                  status |-> status, committed |-> Absent]}
    BY <1>4 DEF EmptyDirectory
  <2>. QED
    BY <2>1, <2>2 DEF Readable, Broken, Directories, States
<1>6. /\ Sent' = Sent
      /\ handoffs' = handoffs
  BY DEF Reserve, Sent
<1>7. \A id \in Sent : id \in 1..n
  <2>1. \A id \in archive : id < n /\ id \in Ids
    BY DEF IInv, SentSound, OutboxTypeOK
  <2>. QED
    BY <2>1, <1>2 DEF IInv, SentSound, DirectorySound, Sent, Ids
<1>8. Sent \subseteq archive' /\ archive' \subseteq Sent
  BY DEF Reserve, Replaceable, IInv, SentSound, DirectorySound, Readable, Broken
<1>9. \A id \in archive' : reserved'[id + 1] # reserved'[id]
  <2>. SUFFICES ASSUME NEW id \in archive'
                PROVE  reserved'[id + 1] # reserved'[id]
    OBVIOUS
  <2>1. CASE id \in archive
    <3>1. id + 1 \in 1..n /\ reserved[id + 1] # reserved[id]
      BY <2>1, <1>2, <1>7 DEF IInv, SentSound
    <3>. QED
      BY <3>1, <1>3, <1>7, <1>8
  <2>2. CASE id \notin archive
    <3>1. Readable /\ id = directory.operation.id
      BY <2>2 DEF Reserve
    <3>2. id = n /\ reserved[n] # payload /\ n \in 1..n
      BY <3>1, <1>2
         DEF IInv, DirectorySound, Reserve, Replaceable, Readable, Broken
    <3>. QED
      BY <3>2, <1>3
  <2>. QED
    BY <2>1, <2>2
<1>10. OutboxTypeOK'
  <2>1. processes' \in [Processes -> ProcessRecords]
    <3>1. process \in ProcessRecords
      BY <1>1, <1>2 DEF ProcessRecords
    <3>. QED
      BY <1>1, <1>4, <3>1, RestingSound DEF End
  <2>2. archive' \subseteq Ids
    BY <1>8 DEF Sent
  <2>. QED
    BY <1>2, <1>3, <1>5, <1>6, <2>1, <2>2
       DEF IInv, OutboxTypeOK, Reserve, Ids
<1>11. ASSUME NEW q \in Processes
       PROVE  Sound(processes[q])'
  <2>1. CASE q # p
    <3>1. processes'[q] = processes[q] /\ Sound(processes[q])
      BY <2>1, <1>1, <1>4 DEF End, IInv
    <3>2. Informed(processes[q])'
      BY <3>1, <1>2, <1>3 DEF Sound, Informed
    <3>3. processes[q].pc \notin {"idle", "reserving", "listing", "failing"}
            => ~Holds(processes[q])'
      BY <3>1, <1>2, <1>5 DEF Sound, Informed, Holds
    <3>4. PlanSound(processes[q])'
      BY <3>1, <3>3 DEF PlanSound
    <3>5. BindingSound(processes[q])'
      <4>. SUFFICES ASSUME processes[q].pc
                             \in {"queueing", "submitting", "committing"}
                    PROVE  BindingSound(processes[q])'
        BY <3>1 DEF BindingSound
      <4>1. processes[q].id \in 1..n
        BY <3>1 DEF Sound, Informed
      <4>2. processes[q].id \in archive'
        BY <3>1
           DEF Sound, BindingSound, Holds, Reserve
      <4>. QED
        BY <3>1, <3>3, <4>1, <4>2, <1>3, <1>6 DEF Sound, BindingSound
    <3>. QED
      BY <3>2, <3>4, <3>5 DEF Sound
  <2>2. CASE q = p /\ End(p)
    BY <2>2, <1>1
       DEF End, Resting, Sound, Informed, PlanSound, BindingSound
  <2>3. CASE q = p /\ ~End(p)
    <3>1. processes'[q] = process /\ directory'.operation = record
      BY <2>3, <1>1, <1>4, <1>5, AbsentAssumption DEF EmptyDirectory
    <3>2. process.pc = "storing" /\ process.id = n + 1
          /\ process.payload = payload
      BY <1>1 DEF ProcessRecords
    <3>. QED
      BY <3>1, <3>2, <1>1, <1>2, <1>3
         DEF Sound, Informed, PlanSound, BindingSound
  <2>. QED
    BY <2>1, <2>2, <2>3
<1>12. DirectorySound'
  BY <1>2, <1>3, <1>5 DEF DirectorySound, Broken
<1>13. SentSound'
  BY <1>2, <1>3, <1>6, <1>7, <1>8, <1>9 DEF SentSound
<1>14. HandoffsMatchReservations'
  <2>1. \A id \in Sent : reserved'[id] = reserved[id] /\ id # n + 1
    BY <1>2, <1>3, <1>7
  <2>. QED
    BY <2>1, <1>5, <1>6 DEF IInv, HandoffsMatchReservations
<1>. QED
  BY <1>10, <1>11, <1>12, <1>13, <1>14 DEF IInv

(* A step to another point of the protocol that learns nothing: the        *)
(* process keeps its operation, evidence and actor.                        *)
LEMMA GoStep ==
  ASSUME IInv, NEW p \in Processes, NEW pc, Go(p, pc),
         \/ processes[p].pc = "storing" /\ pc = "identifying"
         \/ processes[p].pc = "queueing" /\ pc = "submitting",
         UNCHANGED <<directory, archive, reserved, handoffs>>
  PROVE  IInv'
<1>. DEFINE process == [processes[p] EXCEPT !.pc = pc]
<1>1. processes[p] \in ProcessRecords /\ Sound(processes[p])
  BY DEF IInv, OutboxTypeOK
<1>2. process \in ProcessRecords /\ Sound(process)
  BY <1>1
     DEF ProcessRecords, Sound, Informed, PlanSound, BindingSound, Holds
<1>. QED
  BY <1>2, ProcessStep DEF Go, IInv, OutboxTypeOK

(* The directory a process finds its operation in.                         *)
LEMMA Found ==
  ASSUME IInv, Readable
  PROVE  /\ directory \in Directories /\ directory.operation \in Operations
         /\ directory.replay \in Broken \cup {directory.operation.payload}
         /\ directory.committed # Absent => directory.operation.id \in Sent
  BY DEF IInv, OutboxTypeOK, DirectorySound, Readable, Directories, Broken

(* Part of a section that leaves the operation as it is, or binds it, by a *)
(* process that comes to rest or goes on.                                  *)
LEMMA FileStep ==
  ASSUME IInv, NEW p \in Processes, NEW files \in Directories,
         directory' = files, files.operation = directory.operation,
         files.replay \in Broken \cup {directory.operation.payload},
         files.committed # Absent => directory.operation.id \in Sent,
         Readable, UNCHANGED <<archive, reserved, handoffs>>,
         NEW pc \in {"identifying", "submitting"},
         \/ End(p)
         \/ processes[p].pc = "storing" /\ pc = "identifying" /\ Go(p, pc)
         \/ processes[p].pc = "queueing" /\ pc = "submitting" /\ Go(p, pc)
  PROVE  IInv'
<1>1. /\ processes[p] \in ProcessRecords /\ Sound(processes[p])
      /\ processes \in [Processes -> ProcessRecords]
  BY DEF IInv, OutboxTypeOK
<1>2. Readable' /\ directory.operation \in Operations
  BY Found, AbsentAssumption DEF Readable
<1>3. CASE End(p)
  <2>1. Sound(Resting)'
    BY DEF Resting, Sound, Informed, PlanSound, BindingSound
  <2>. QED
    BY <1>2, <1>3, <2>1, RestingSound, DirectoryStep, AbsentAssumption
       DEF End, Operations
<1>4. CASE ~End(p)
  <2>1. PICK process \in ProcessRecords :
          process = [processes[p] EXCEPT !.pc = pc]
    BY <1>1 DEF ProcessRecords
  <2>2. Sound(process)'
    BY <1>1, <1>2, <1>4, <2>1
       DEF ProcessRecords, Sound, Informed, PlanSound, BindingSound, Holds,
           Readable
  <2>3. processes' = [processes EXCEPT ![p] = process]
    BY <1>1, <1>4, <2>1 DEF Go
  <2>. QED
    BY <1>2, <2>1, <2>2, <2>3, DirectoryStep
<1>. QED
  BY <1>3, <1>4

LEMMA Step_StoreReplay ==
  ASSUME IInv, NEW p \in Processes, StoreReplay(p)
  PROVE  IInv'
<1>. DEFINE plan == processes[p].payload
            next == IF directory.committed # Absent THEN End(p)
                    ELSE Go(p, "identifying")
<1>1. CASE Mine(p) /\ Section(p, <<[directory EXCEPT !.replay = Torn],
                                   [directory EXCEPT !.replay = plan]>>, next)
  <2>1. Readable /\ plan = directory.operation.payload /\ plan \in Payloads
    BY <1>1
       DEF StoreReplay, Mine, IInv, Sound, Informed, PlanSound, Holds
  <2>2. PICK replay \in {Torn, plan} :
          /\ directory' = [directory EXCEPT !.replay = replay]
          /\ End(p) \/ Go(p, "identifying")
    BY <1>1 DEF Section
  <2>. DEFINE files == [directory EXCEPT !.replay = replay]
  <2>3. /\ files \in Directories /\ files.operation = directory.operation
        /\ files.replay = replay /\ files.committed = directory.committed
    BY <2>1, <2>2, Found DEF Directories, Broken
  <2>. QED
    BY <2>1, <2>2, <2>3, Found, FileStep DEF StoreReplay, Broken
<1>2. CASE UNCHANGED directory /\ (End(p) \/ Go(p, "identifying"))
  BY <1>2, EndStep, GoStep DEF StoreReplay
<1>. QED
  BY <1>1, <1>2 DEF StoreReplay

LEMMA Step_Listing ==
  ASSUME IInv, NEW p \in Processes, ListOperation(p) \/ ListPlan(p)
  PROVE  IInv'
<1>1. processes[p] \in ProcessRecords /\ Sound(processes[p])
  BY DEF IInv, OutboxTypeOK
<1>2. CASE ListOperation(p)
  <2>. DEFINE process == [Resting EXCEPT !.pc = "listing",
                                         !.id = directory.operation.id]
  <2>1. /\ directory.operation.id \in Nat
        /\ directory.operation.id \in 1..Len(reserved)
    <3>1. Len(reserved) \in Nat
      BY DEF IInv, OutboxTypeOK
    <3>. QED
      BY <1>2, <3>1 DEF ListOperation, Pending, IInv, DirectorySound
  <2>2. process \in ProcessRecords /\ Sound(process)
    BY <2>1
       DEF Resting, ProcessRecords, Sound, Informed, PlanSound, BindingSound
  <2>. QED
    BY <1>2, <2>2, ProcessStep DEF ListOperation
<1>3. CASE ListPlan(p) /\ ~End(p)
  <2>. DEFINE process == [processes[p] EXCEPT !.pc = "identifying",
                                              !.payload = directory.replay]
  <2>1. /\ directory.replay \in Payloads
        /\ directory.replay = directory.operation.payload
    BY <1>3
       DEF ListPlan, End, IInv, OutboxTypeOK, Directories, DirectorySound
  <2>2. process \in ProcessRecords /\ Sound(process)
    BY <1>1, <1>3, <2>1
       DEF ListPlan, ProcessRecords, Sound, Informed, PlanSound, BindingSound
  <2>. QED
    BY <1>3, <2>2, ProcessStep DEF ListPlan
<1>. QED
  BY <1>2, <1>3, EndStep DEF ListPlan

LEMMA Step_Identify ==
  ASSUME IInv, NEW p \in Processes, Identify(p)
  PROVE  IInv'
<1>1. CASE FailWith(p, "failed")
  BY <1>1, FailStep DEF Identify
<1>2. CASE ~FailWith(p, "failed")
  <2>1. PICK actor \in Identities :
          processes' = [processes EXCEPT ![p] =
                          [@ EXCEPT !.pc = "binding", !.actor = actor]]
    BY <1>2 DEF Identify
  <2>. DEFINE process == [processes[p] EXCEPT !.pc = "binding",
                                              !.actor = actor]
  <2>2. processes[p] \in ProcessRecords /\ Sound(processes[p])
    BY DEF IInv, OutboxTypeOK
  <2>3. process \in ProcessRecords /\ Sound(process)
    BY <2>2
       DEF Identify, ProcessRecords, Sound, Informed, PlanSound, BindingSound,
           Holds
  <2>. QED
    BY <2>1, <2>3, ProcessStep DEF Identify, IInv, OutboxTypeOK
<1>. QED
  BY <1>1, <1>2

LEMMA Step_Bind ==
  ASSUME IInv, NEW p \in Processes, Bind(p)
  PROVE  IInv'
<1>. DEFINE actor == processes[p].actor
            files == [directory EXCEPT !.operation.actor = actor]
<1>1. CASE UNCHANGED directory /\ \E failure \in {"failed", "conflict"} :
                                    FailWith(p, failure)
  BY <1>1, FailStep DEF Bind
<1>2. CASE /\ Mine(p) /\ directory.operation.actor \in {Absent, actor}
           /\ directory' = files /\ Go(p, "queueing")
  <2>1. /\ processes[p] \in ProcessRecords /\ Sound(processes[p])
        /\ actor \in Identities /\ Readable
        /\ directory.operation.payload = processes[p].payload
        /\ directory.operation.payload = reserved[processes[p].id]
    BY <1>2
       DEF IInv, OutboxTypeOK, Sound, Informed, PlanSound, Holds, Mine, Bind,
           DirectorySound
  <2>2. /\ files \in Directories /\ files.operation \in Operations
        /\ files.operation.id = directory.operation.id
        /\ files.operation.payload = directory.operation.payload
        /\ files.operation.actor = actor
        /\ files.replay = directory.replay
        /\ files.committed = directory.committed
    BY <2>1, Found DEF Directories, Operations, Broken
  <2>3. PICK process \in ProcessRecords :
          process = [processes[p] EXCEPT !.pc = "queueing"]
    BY <2>1 DEF ProcessRecords
  <2>4. Readable'
    BY <1>2, <2>2, AbsentAssumption DEF Readable, Broken
  <2>5. Sound(process)'
    BY <1>2, <2>1, <2>2, <2>3, <2>4
       DEF Bind, Mine, ProcessRecords, Sound, Informed, PlanSound,
           BindingSound, Holds
  <2>. QED
    BY <1>2, <2>1, <2>2, <2>3, <2>5, Found, DirectoryStep
       DEF Bind, Go
<1>. QED
  BY <1>1, <1>2 DEF Bind

(* What the processes that write a status leave.                           *)
LEMMA StatusStep ==
  ASSUME IInv, NEW p \in Processes, NEW state \in States, NEW next,
         Mine(p), Section(p, StatusWrites(state), next),
         UNCHANGED <<archive, reserved, handoffs>>,
         NEW pc \in {"identifying", "submitting"},
         next => \/ End(p)
                 \/ /\ processes[p].pc = "queueing" /\ pc = "submitting"
                    /\ Go(p, pc)
  PROVE  IInv'
<1>1. PICK status \in {Torn, state} :
        directory' = [directory EXCEPT !.status = status]
  BY DEF Section, StatusWrites
<1>. DEFINE files == [directory EXCEPT !.status = status]
<1>2. /\ files \in Directories /\ files.operation = directory.operation
      /\ files.replay = directory.replay
      /\ files.committed = directory.committed
  BY Found DEF Mine, Directories, Broken, States
<1>3. End(p) \/ next
  BY DEF Section
<1>. QED
  BY <1>1, <1>2, <1>3, Found, FileStep DEF Mine

LEMMA Step_Queue ==
  ASSUME IInv, NEW p \in Processes, Queue(p)
  PROVE  IInv'
<1>1. CASE Mine(p) /\ Section(p, StatusWrites("queued"), Go(p, "submitting"))
  BY <1>1, StatusStep DEF Queue, States
<1>2. CASE FailWith(p, "failed") /\ UNCHANGED directory
  BY <1>2, FailStep DEF Queue
<1>. QED
  BY <1>1, <1>2 DEF Queue

LEMMA Step_RecordFailure ==
  ASSUME IInv, NEW p \in Processes, RecordFailure(p)
  PROVE  IInv'
<1>1. CASE UNCHANGED directory /\ End(p)
  BY <1>1, EndStep DEF RecordFailure
<1>2. CASE Mine(p) /\ Section(p, StatusWrites(processes[p].failure), End(p))
  <2>1. processes[p].failure \in States
    BY DEF RecordFailure, IInv, Sound, Informed, States
  <2>. QED
    BY <1>2, <2>1, StatusStep DEF RecordFailure
<1>. QED
  BY <1>1, <1>2 DEF RecordFailure

LEMMA Step_Acknowledge ==
  ASSUME IInv, NEW p \in Processes, Acknowledge(p)
  PROVE  IInv'
<1>. DEFINE id == processes[p].id
            marked == [directory EXCEPT !.committed = id]
            torn == [directory EXCEPT !.committed = Torn]
            done == [marked EXCEPT !.status = "committed"]
<1>1. CASE FailWith(p, "failed") /\ UNCHANGED directory
  BY <1>1, FailStep DEF Acknowledge
<1>2. CASE /\ Mine(p)
           /\ directory' \in {torn, directory, marked, done}
           /\ End(p)
  <2>1. id \in Sent /\ id = directory.operation.id /\ Readable
    BY <1>2 DEF Acknowledge, Mine, IInv, Sound, BindingSound
  <2>2. id \in Ids
    BY <2>1 DEF Sent
  <2>3. PICK files \in Directories :
          /\ directory' = files
          /\ files.operation = directory.operation
          /\ files.replay = directory.replay
    BY <1>2, <2>1, <2>2, Found DEF Directories, Broken, States
  <2>. QED
    BY <1>2, <2>1, <2>3, Found, FileStep DEF Acknowledge
<1>. QED
  BY <1>1, <1>2 DEF Acknowledge, Section

LEMMA Step_Submit ==
  ASSUME IInv, NEW p \in Processes, Submit(p)
  PROVE  IInv'
<1>. DEFINE id == processes[p].id
            handoff == [payload |-> processes[p].payload,
                        actor |-> processes[p].actor]
<1>1. CASE UNCHANGED handoffs /\ \E failure \in {"failed", "conflict"} :
                                   FailWith(p, failure)
  BY <1>1, FailStep DEF Submit
<1>2. CASE /\ handoffs[id] \in {Absent, handoff}
           /\ handoffs' = [handoffs EXCEPT ![id] = handoff]
           /\ \/ Go(p, "committing")
              \/ \E failure \in {"failed", "conflict"} : FailWith(p, failure)
  <2>1. /\ processes \in [Processes -> ProcessRecords]
        /\ processes[p] \in ProcessRecords /\ Sound(processes[p])
        /\ processes[p].pc = "submitting"
        /\ handoffs \in [Ids -> HandoffRecords \cup {Absent}]
        /\ UNCHANGED <<directory, archive, reserved>>
    BY DEF IInv, OutboxTypeOK, Submit
  <2>2. /\ handoff \in HandoffRecords /\ handoff # Absent
        /\ handoff.payload = reserved[id]
        /\ Holds(processes[p]) => directory.operation.actor = handoff.actor
        /\ Holds(processes[p]) \/ id \in archive
    BY <2>1, AbsentAssumption
       DEF Sound, Informed, BindingSound, HandoffRecords
  <2>3. id \in Ids
    <3>1. id \in 1..Len(reserved) /\ Len(reserved) \in Nat
          /\ Len(reserved) <= MaxOps
      BY <2>1 DEF Sound, Informed, IInv, OutboxTypeOK
    <3>. QED
      BY <3>1, MaxOpsAssumption DEF Ids
  <2>4. /\ handoffs'[id] = handoff
        /\ \A j \in Ids \ {id} : handoffs'[j] = handoffs[j]
    BY <1>2, <2>1, <2>3
  <2>5. Sent' = Sent \cup {id}
    BY <2>2, <2>3, <2>4 DEF Sent
  <2>6. OutboxTypeOK'
    <3>1. processes' \in [Processes -> ProcessRecords]
      <4>1. PICK process \in ProcessRecords :
              processes' = [processes EXCEPT ![p] = process]
        <5>1. \A pc \in {"committing", "failing"} :
                [processes[p] EXCEPT !.pc = pc] \in ProcessRecords
          BY <2>1 DEF ProcessRecords
        <5>2. \A failure \in {"failed", "conflict"} :
                [processes[p] EXCEPT !.pc = "failing", !.failure = failure]
                  \in ProcessRecords
          BY <2>1 DEF ProcessRecords
        <5>. QED
          BY <1>2, <2>1, <5>1, <5>2 DEF Go, FailWith
      <4>. QED
        BY <2>1, <4>1
    <3>. QED
      BY <1>2, <2>1, <2>2, <3>1 DEF IInv, OutboxTypeOK
  <2>7. ASSUME NEW q \in Processes
        PROVE  Sound(processes[q])'
    <3>1. CASE q # p
      <4>1. processes'[q] = processes[q] /\ Sound(processes[q])
        BY <1>2, <2>1, <3>1 DEF Go, FailWith, IInv
      <4>. QED
        BY <4>1, <2>1, <2>5
           DEF Sound, Informed, PlanSound, BindingSound, Holds, Readable
    <3>2. CASE q = p
      <4>1. /\ processes'[p].pc \in {"committing", "failing"}
            /\ processes'[p].id = id
            /\ processes'[p].payload = processes[p].payload
            /\ processes'[p].actor = processes[p].actor
            /\ processes'[p].pc = "failing"
                 => processes'[p].failure \in {"failed", "conflict"}
        <5>1. CASE Go(p, "committing")
          BY <2>1, <5>1 DEF Go, ProcessRecords
        <5>2. ASSUME NEW failure \in {"failed", "conflict"},
                     FailWith(p, failure)
              PROVE  <4>1
          BY <2>1, <5>2 DEF FailWith, ProcessRecords
        <5>. QED
          BY <1>2, <5>1, <5>2
      <4>. QED
        BY <3>2, <4>1, <2>1, <2>2, <2>5
           DEF ProcessRecords, Sound, Informed, PlanSound, BindingSound,
               Holds, Readable
    <3>. QED
      BY <3>1, <3>2
  <2>8. DirectorySound'
    BY <2>1, <2>5 DEF IInv, DirectorySound, Readable
  <2>9. SentSound'
    BY <2>1, <2>2, <2>5 DEF IInv, SentSound, Readable, Holds
  <2>10. HandoffsMatchReservations'
    BY <2>1, <2>2, <2>4, <2>5
       DEF IInv, HandoffsMatchReservations, Readable, Holds, Sent
  <2>. QED
    BY <2>6, <2>7, <2>8, <2>9, <2>10 DEF IInv
<1>. QED
  BY <1>1, <1>2 DEF Submit

(* The invariant is inductive.                                             *)
LEMMA Step_IInv == IInv /\ [OutboxNext]_outboxVars => IInv'
<1>. SUFFICES ASSUME IInv, [OutboxNext]_outboxVars
              PROVE  IInv'
  OBVIOUS
<1>1. CASE UNCHANGED outboxVars
  BY <1>1
     DEF outboxVars, IInv, OutboxTypeOK, Sound, Informed, PlanSound,
         BindingSound, Holds, DirectorySound, SentSound,
         HandoffsMatchReservations, Readable, Sent
<1>2. ASSUME NEW p \in Processes,
             \/ Refuse(p)
             \/ Die(p)
      PROVE  IInv'
  BY <1>2, EndStep DEF Refuse, Die
<1>3. CASE OutboxNext
  BY <1>2, <1>3, Step_StartSend, Step_Reuse, Step_Reserve, Step_StoreReplay,
     Step_Listing, Step_Identify, Step_Bind, Step_Queue, Step_Submit,
     Step_Acknowledge, Step_RecordFailure
     DEF OutboxNext
<1>. QED
  BY <1>1, <1>3

LEMMA Invariance == OutboxSpec => []IInv
  BY Init_IInv, Step_IInv, PTL DEF OutboxSpec

(* Whatever dies when: what the outbox counts as acknowledged was sent,    *)
(* what was sent and is not acknowledged is there to be sent again under   *)
(* the same ids, and the server has it with the evidence it was reserved   *)
(* for, from the actor it is bound to (send_operation.rs).                 *)
THEOREM OutboxIsSafe == OutboxSpec => []OutboxAccounts
<1>1. IInv => OutboxAccounts
  <2>. SUFFICES ASSUME IInv
                PROVE  OutboxMatchesServer
    BY DEF OutboxAccounts, IInv
  <2>1. Readable /\ directory.committed # Absent
          => directory.operation.id \in Sent
    BY DEF IInv, DirectorySound, Readable
  <2>. QED
    BY <2>1 DEF OutboxMatchesServer, Acknowledged, IInv, SentSound
<1>. QED
  BY <1>1, Invariance, PTL

(* A send of evidence that the server has uses the operation it went out   *)
(* with: another one is reserved only after a send of other evidence       *)
(* (reserve_send).                                                         *)
THEOREM RetriesAreIdempotent == OutboxSpec => []RetriesReuseOperations
<1>1. IInv => RetriesReuseOperations
  <2>. SUFFICES ASSUME IInv, NEW id \in Sent, NEW next \in DOMAIN reserved,
                       id < next, reserved[id] = reserved[next]
                PROVE  \E between \in (id + 1)..(next - 1) :
                         reserved[between] # reserved[id]
    BY DEF RetriesReuseOperations
  <2>1. /\ Len(reserved) \in Nat /\ next \in 1..Len(reserved) /\ id \in Nat
    BY DEF IInv, OutboxTypeOK, Sent, Ids
  <2>2. id \in archive
    BY <2>1 DEF IInv, SentSound, DirectorySound
  <2>3. reserved[id + 1] # reserved[id]
    BY <2>2 DEF IInv, SentSound
  <2>4. id + 1 # next
    BY <2>3
  <2>5. id + 1 \in (id + 1)..(next - 1)
    BY <2>1, <2>4
  <2>. QED
    BY <2>3, <2>5
<1>. QED
  BY <1>1, Invariance, PTL

-----------------------------------------------------------------------------
(* The log of captures.  An entry leaves the log in the hands of a pass    *)
(* that read it, so the invariant says of every pass that has read what it *)
(* still holds, and of the temporary file, once somebody may rename it,    *)
(* what is in it or will be.                                               *)

(* What counts is in one of these places.                                  *)
Settled(entries) ==
  captured \ excused \subseteq entries \cup facts \cup discarded

PassSound(p) ==
  LET pass == passes[p]
  IN  /\ pass.pc = "applying" =>
           /\ Settled(pass.todo \cup pass.kept)
           /\ pass.discard \subseteq discarded
           /\ p \in Slashes => pass.kept = {}
      /\ pass.pc \in {"writing", "filling", "renaming"} => Settled(pass.kept)
      /\ pass.pc = "writing" => p \in Slashes
      /\ pass.pc = "filling" => pass.file # "none"
      /\ pass.pc = "renaming" => p \in Reviews
      /\ pass.file = "tmp" =>
           pass.pc = "filling" /\ p \in Reviews /\ tmp # NoFile

TmpSound ==
  (\E p \in Reviews : Replacing(p)) /\ tmp # NoFile
    => Settled(tmp.lines \cup InHand("tmp"))

ReviewInv ==
  /\ ReviewTypeOK
  /\ EntriesAccounted
  /\ TmpSound
  /\ \A p \in Passes : PassSound(p)

(* Nothing new counts, and what was committed or discarded stays so.       *)
Calm ==
  /\ facts \subseteq facts'
  /\ discarded \subseteq discarded'
  /\ captured' \ excused' \subseteq captured \ excused

OthersRest(p) == \A q \in Passes \ {p} : passes'[q] = passes[q]

(* Nobody has read, and nothing is captured.                               *)
LEMMA ReviewInit_Inv == ReviewInit => ReviewInv
<1>. SUFFICES ASSUME ReviewInit
              PROVE  ReviewInv
  OBVIOUS
<1>1. /\ Ready \in PassRecords
      /\ Ready.pc = "ready" /\ Ready.file = "none"
      /\ Emptied \in Files
  BY DEF Ready, PassRecords, Emptied, Files
<1>2. \A p \in Passes : passes[p] = Ready
  BY DEF ReviewInit
<1>3. ReviewTypeOK
  BY <1>1 DEF ReviewInit, ReviewTypeOK
<1>4. EntriesAccounted /\ TmpSound
  BY DEF ReviewInit, EntriesAccounted, TmpSound
<1>5. \A p \in Passes : PassSound(p)
  BY <1>1, <1>2 DEF PassSound
<1>. QED
  BY <1>3, <1>4, <1>5 DEF ReviewInv

(* A step of p leaves in hand what it does not have in hand itself.        *)
LEMMA HandStays ==
  ASSUME NEW p \in Passes, NEW file, OthersRest(p),
         passes[p].pc = "filling" => passes[p].file # file
  PROVE  InHand(file) \subseteq InHand(file)'
<1>. SUFFICES ASSUME NEW entry \in InHand(file)
              PROVE  entry \in InHand(file)'
  OBVIOUS
<1>1. PICK q \in Passes : /\ passes[q].pc = "filling"
                          /\ passes[q].file = file
                          /\ entry \in passes[q].kept
  BY DEF InHand
<1>2. passes'[q] = passes[q]
  BY <1>1 DEF OthersRest
<1>. QED
  BY <1>1, <1>2 DEF InHand

(* What is said of a pass stays true while it rests.                       *)
LEMMA PassStays ==
  ASSUME NEW q \in Passes, PassSound(q), Calm,
         passes'[q] = passes[q], tmp # NoFile => tmp' # NoFile
  PROVE  PassSound(q)'
BY DEF PassSound, Settled, Calm

(* A step that leaves a file alone, of a pass that does not have it in     *)
(* hand, leaves its entries accounted for.                                 *)
LEMMA LogStays ==
  ASSUME NEW p \in Passes, OthersRest(p), Calm, EntriesAccounted,
         passes[p].pc = "filling" => passes[p].file # "log",
         log.lines \subseteq log'.lines
  PROVE  EntriesAccounted'
<1>1. InHand("log") \subseteq InHand("log")'
  BY HandStays
<1>. QED
  BY <1>1 DEF EntriesAccounted, Calm

(* So does one that leaves the temporary file alone and after which nobody *)
(* new may rename it.                                                      *)
LEMMA TmpStays ==
  ASSUME NEW p \in Passes, OthersRest(p), Calm, TmpSound,
         passes[p].pc = "filling" => passes[p].file # "tmp",
         tmp' = tmp,
         p \in Reviews /\ Replacing(p)' => Replacing(p)
  PROVE  TmpSound'
<1>1. InHand("tmp") \subseteq InHand("tmp")'
  BY HandStays
<1>2. (\E q \in Reviews : Replacing(q))' => \E q \in Reviews : Replacing(q)
  BY DEF OthersRest, Replacing, Passes
<1>. QED
  BY <1>1, <1>2 DEF TmpSound, Settled, Calm

(* The step of a pass that changes no file.                                *)
LEMMA QuietStep ==
  ASSUME ReviewInv, NEW p \in Passes, NEW next \in PassRecords,
         passes' = [passes EXCEPT ![p] = next],
         passes[p].pc # "filling", next.pc # "filling",
         next.pc = "renaming" => passes[p].pc = "renaming",
         next.file # "tmp",
         UNCHANGED <<log, tmp>>, Calm,
         (facts \cup discarded \cup captured \cup excused)'
           \subseteq Captures,
         PassSound(p)'
  PROVE  ReviewInv'
<1>1. passes' \in [Passes -> PassRecords] /\ passes'[p] = next /\ OthersRest(p)
  BY DEF ReviewInv, ReviewTypeOK, OthersRest
<1>2. ReviewTypeOK'
  BY <1>1 DEF ReviewInv, ReviewTypeOK
<1>3. EntriesAccounted'
  BY <1>1, LogStays DEF ReviewInv
<1>4. TmpSound'
  BY <1>1, TmpStays DEF ReviewInv, Replacing
<1>5. ASSUME NEW q \in Passes
      PROVE  PassSound(q)'
  BY <1>1, PassStays DEF ReviewInv, OthersRest
<1>. QED
  BY <1>2, <1>3, <1>4, <1>5 DEF ReviewInv

(* A capture during a pass does not count; any other capture finds nobody  *)
(* that could overlook it.                                                 *)
LEMMA Step_Capture ==
  ASSUME ReviewInv, NEW entry \in Captures, Capture(entry)
  PROVE  ReviewInv'
<1>1. ReviewTypeOK'
  BY DEF ReviewInv, ReviewTypeOK, Capture, Files
<1>2. /\ log.lines \subseteq log'.lines
      /\ UNCHANGED <<tmp, facts, discarded, passes>>
      /\ InHand("log")' = InHand("log") /\ InHand("tmp")' = InHand("tmp")
  BY DEF ReviewInv, ReviewTypeOK, Capture, Files, InHand
<1>3. CASE captured' \ excused' \subseteq captured \ excused
  <2>1. EntriesAccounted'
    BY <1>2, <1>3 DEF ReviewInv, EntriesAccounted
  <2>2. TmpSound'
    BY <1>2, <1>3 DEF ReviewInv, TmpSound, Replacing, Settled
  <2>3. ASSUME NEW p \in Passes
        PROVE  PassSound(p)'
    BY <1>2, <1>3, PassStays DEF ReviewInv, Calm
  <2>. QED
    BY <1>1, <2>1, <2>2, <2>3 DEF ReviewInv
<1>4. CASE ~(captured' \ excused' \subseteq captured \ excused)
  <2>1. /\ Open = {}
        /\ log' = [log EXCEPT !.lines = @ \cup {entry}]
        /\ captured' = captured \cup {entry}
        /\ excused' = excused
    BY <1>4 DEF Capture
  <2>2. entry \in log'.lines
    BY <2>1 DEF ReviewInv, ReviewTypeOK, Files
  <2>3. EntriesAccounted'
    BY <1>2, <2>1, <2>2 DEF ReviewInv, EntriesAccounted
  <2>4. \A p \in Passes : passes[p].pc \in {"ready", "over"}
    BY <2>1 DEF Open
  <2>5. TmpSound'
    BY <1>2, <2>4 DEF TmpSound, Replacing, Passes
  <2>6. ASSUME NEW p \in Passes
        PROVE  PassSound(p)'
    BY <1>2, <2>4 DEF ReviewInv, PassSound
  <2>. QED
    BY <1>1, <2>3, <2>5, <2>6 DEF ReviewInv
<1>. QED
  BY <1>3, <1>4

(* What a pass does not read, it could not know of.                        *)
LEMMA Step_Read ==
  ASSUME ReviewInv, NEW p \in Passes, NEW commit \in SUBSET Captures,
         NEW discard \in SUBSET Captures, NEW goesOn \in BOOLEAN,
         Read(p, commit, discard, goesOn)
  PROVE  ReviewInv'
<1> DEFINE next ==
      IF goesOn
      THEN [pc |-> "applying", todo |-> log.lines, commit |-> commit,
            discard |-> discard, kept |-> {}, file |-> "none"]
      ELSE [pc |-> "over", todo |-> {}, commit |-> {}, discard |-> {},
            kept |-> {}, file |-> "none"]
<1>1. /\ passes' = [passes EXCEPT ![p] = next]
      /\ passes[p].pc = "ready"
      /\ UNCHANGED <<log, tmp>>
  <2>1. Over = [pc |-> "over", todo |-> {}, commit |-> {}, discard |-> {},
                kept |-> {}, file |-> "none"]
    BY DEF Ready, Over
  <2>. QED
    BY <2>1 DEF Read
<1>2. next \in PassRecords /\ next.pc \in {"applying", "over"}
      /\ next.file = "none"
  BY DEF ReviewInv, ReviewTypeOK, Files, PassRecords
<1>3. Calm /\ (facts \cup discarded \cup captured \cup excused)'
                \subseteq Captures
  BY DEF Read, Calm, Live, ReviewInv, ReviewTypeOK
<1>4. passes'[p] = next
  BY <1>1 DEF ReviewInv, ReviewTypeOK
<1>5. Settled(log.lines)' /\ discard \subseteq discarded'
  BY DEF Read, Settled, Live
<1>6. PassSound(p)'
  <2>1. CASE goesOn
    BY <1>1, <1>4, <1>5, <2>1 DEF PassSound, Settled
  <2>2. CASE ~goesOn
    BY <1>4, <2>2 DEF PassSound
  <2>. QED
    BY <2>1, <2>2
<1>. QED
  BY <1>1, <1>2, <1>3, <1>6, QuietStep

(* An entry leaves what is to do as a fact, discarded or kept.             *)
LEMMA Step_Apply ==
  ASSUME ReviewInv, NEW p \in Passes, Apply(p)
  PROVE  ReviewInv'
<1>1. PICK entry \in passes[p].todo, committed \in BOOLEAN :
        /\ committed => facts' = facts \cup {entry}
        /\ ~committed => facts' = facts
        /\ passes' = [passes EXCEPT ![p] =
             [passes[p] EXCEPT !.todo = passes[p].todo \ {entry},
                               !.kept = Kept(passes[p], entry, committed)]]
  BY DEF Apply
<1> DEFINE next ==
      [passes[p] EXCEPT !.todo = passes[p].todo \ {entry},
                        !.kept = Kept(passes[p], entry, committed)]
<1>2. /\ passes[p] \in PassRecords /\ passes[p].pc = "applying"
      /\ PassSound(p) /\ p \in Reviews /\ p \notin Slashes
      /\ UNCHANGED <<log, tmp, discarded, captured, excused>>
  BY PassesApart DEF ReviewInv, ReviewTypeOK, Apply
<1>3. /\ next.pc = "applying" /\ next.file = passes[p].file
      /\ next.todo = passes[p].todo \ {entry}
      /\ next.discard = passes[p].discard
      /\ next.kept = Kept(passes[p], entry, committed)
  BY <1>2 DEF PassRecords
<1> HIDE DEF next
<1>4. entry \in Captures /\ Kept(passes[p], entry, committed) \subseteq Captures
  BY <1>1, <1>2 DEF PassRecords, Kept
<1>5. next \in PassRecords
  BY <1>2, <1>4 DEF PassRecords, next
<1>6. passes' = [passes EXCEPT ![p] = next]
  BY <1>1 DEF next
<1>7. Calm /\ (facts \cup discarded \cup captured \cup excused)'
                \subseteq Captures
  BY <1>1, <1>2, <1>4 DEF Calm, ReviewInv, ReviewTypeOK
<1>8. next.file # "tmp"
  BY <1>2, <1>3 DEF PassSound
<1>9. PassSound(p)'
  <2>1. passes'[p] = next
    BY <1>6 DEF ReviewInv, ReviewTypeOK
  <2>2. /\ Settled(passes[p].todo \cup passes[p].kept)
        /\ passes[p].discard \subseteq discarded
    BY <1>2 DEF PassSound
  <2>3. \/ entry \in facts' \cup discarded'
        \/ entry \in next.kept
    BY <1>1, <1>2, <1>3, <2>2 DEF Kept
  <2>4. passes[p].kept \subseteq next.kept
    BY <1>3 DEF Kept
  <2>5. Settled(passes[p].todo \cup passes[p].kept)'
    BY <1>2, <1>3, <1>7, <2>1, <2>2, <2>3, <2>4 DEF Settled, Calm
  <2>6. passes'[p].discard \subseteq discarded'
    BY <1>2, <1>3, <2>1, <2>2
  <2>. QED
    BY <1>2, <1>3, <1>8, <2>1, <2>5, <2>6 DEF PassSound, Settled
<1>. QED
  BY <1>2, <1>3, <1>5, <1>6, <1>7, <1>8, <1>9, QuietStep

(* The slash command goes on to write only when what it was to commit is   *)
(* there, and is otherwise over.                                           *)
LEMMA Step_AddAll ==
  ASSUME ReviewInv, NEW p \in Passes, AddAll(p)
  PROVE  ReviewInv'
<1> DEFINE chosen == passes[p].commit \cup passes[p].discard
           next == [passes[p] EXCEPT !.pc = "writing",
                                     !.kept = passes[p].todo \ chosen]
<1>1. /\ passes[p] \in PassRecords /\ passes[p].pc = "applying"
      /\ PassSound(p) /\ p \in Slashes
      /\ UNCHANGED <<log, tmp, discarded, captured, excused>>
  BY DEF ReviewInv, ReviewTypeOK, AddAll
<1>2. Calm /\ (facts \cup discarded \cup captured \cup excused)'
                \subseteq Captures
  BY <1>1 DEF Calm, ReviewInv, ReviewTypeOK, AddAll, PassRecords
<1>3. CASE /\ passes[p].commit \subseteq facts'
           /\ passes' = [passes EXCEPT ![p] = next]
  <2>1. /\ next \in PassRecords /\ next.pc = "writing"
        /\ next.file = passes[p].file
        /\ next.kept = passes[p].todo \ chosen
    BY <1>1 DEF PassRecords
  <2>2. passes'[p] = next
    BY <1>3 DEF ReviewInv, ReviewTypeOK
  <2>3. next.file # "tmp"
    BY <1>1, <2>1 DEF PassSound
  <2>4. Settled(passes[p].kept)'
    BY <1>1, <1>2, <1>3, <2>1, <2>2 DEF PassSound, Settled, Calm
  <2>5. PassSound(p)'
    BY <1>1, <2>1, <2>2, <2>3, <2>4 DEF PassSound, Settled
  <2>. QED
    BY <1>1, <1>2, <1>3, <2>1, <2>3, <2>5, QuietStep
<1>4. CASE passes' = [passes EXCEPT ![p] = Over]
  <2>1. Over \in PassRecords /\ Over.pc = "over" /\ Over.file = "none"
    BY DEF Over, Ready, PassRecords
  <2>2. passes'[p] = Over
    BY <1>4 DEF ReviewInv, ReviewTypeOK
  <2>3. PassSound(p)'
    BY <2>1, <2>2 DEF PassSound
  <2>. QED
    BY <1>1, <1>2, <1>4, <2>1, <2>3, QuietStep
<1>. QED
  BY <1>3, <1>4 DEF AddAll

(* The emptied file is refilled from what the pass kept.                   *)
LEMMA Step_CreateTmp ==
  ASSUME ReviewInv, NEW p \in Passes, CreateTmp(p)
  PROVE  ReviewInv'
<1>1. /\ passes[p] \in PassRecords /\ PassSound(p) /\ p \in Reviews
      /\ passes[p].pc = "applying" /\ passes[p].todo = {}
      /\ tmp' = Emptied
      /\ UNCHANGED <<log, facts, discarded, captured, excused>>
  BY DEF ReviewInv, ReviewTypeOK, CreateTmp
<1>2. /\ passes' \in [Passes -> PassRecords]
      /\ OthersRest(p)
      /\ passes'[p].pc = "filling" /\ passes'[p].file = "tmp"
      /\ passes'[p].kept = passes[p].kept
  BY <1>1 DEF ReviewInv, ReviewTypeOK, CreateTmp, OthersRest, PassRecords
<1>3. Emptied \in Files
  BY DEF Emptied, Files
<1>4. ReviewTypeOK'
  BY <1>1, <1>2, <1>3 DEF ReviewInv, ReviewTypeOK
<1>5. Calm
  BY <1>1 DEF Calm
<1>6. EntriesAccounted'
  BY <1>1, <1>2, <1>5, LogStays DEF ReviewInv
<1>7. Settled(passes[p].kept)'
  BY <1>1, <1>2 DEF PassSound, Settled
<1>8. passes'[p].kept \subseteq InHand("tmp")'
  BY <1>2 DEF InHand
<1>9. TmpSound'
  BY <1>7, <1>8 DEF TmpSound, Settled
<1>10. tmp' # NoFile
  BY <1>1, <1>3, NoFileApart
<1>11. ASSUME NEW q \in Passes
       PROVE  PassSound(q)'
  <2>1. CASE q = p
    BY <1>1, <1>2, <1>7, <1>10, <2>1 DEF PassSound
  <2>2. CASE q # p
    BY <1>2, <1>5, <1>10, <2>2, PassStays DEF ReviewInv, OthersRest
  <2>. QED
    BY <2>1, <2>2
<1>. QED
  BY <1>4, <1>6, <1>9, <1>11 DEF ReviewInv

(* So is the log that the plugin truncates.                                *)
LEMMA Step_Truncate ==
  ASSUME ReviewInv, NEW p \in Passes, Truncate(p)
  PROVE  ReviewInv'
<1>1. /\ passes[p] \in PassRecords /\ PassSound(p)
      /\ passes[p].pc = "writing"
      /\ log' = Emptied
      /\ UNCHANGED <<tmp, facts, discarded, captured, excused>>
  BY DEF ReviewInv, ReviewTypeOK, Truncate
<1>2. /\ passes' \in [Passes -> PassRecords]
      /\ OthersRest(p)
      /\ passes'[p].pc = "filling" /\ passes'[p].file = "log"
      /\ passes'[p].kept = passes[p].kept
  BY <1>1 DEF ReviewInv, ReviewTypeOK, Truncate, OthersRest, PassRecords
<1>3. Emptied \in Files
  BY DEF Emptied, Files
<1>4. ReviewTypeOK'
  BY <1>1, <1>2, <1>3 DEF ReviewInv, ReviewTypeOK
<1>5. Calm
  BY <1>1 DEF Calm
<1>6. Settled(passes[p].kept)'
  BY <1>1, <1>2 DEF PassSound, Settled
<1>7. passes'[p].kept \subseteq InHand("log")'
  BY <1>2 DEF InHand
<1>8. EntriesAccounted'
  BY <1>6, <1>7 DEF EntriesAccounted, Settled
<1>9. TmpSound'
  <2>1. p \notin Reviews
    BY <1>1, PassesApart DEF PassSound
  <2>. QED
    BY <1>1, <1>2, <1>5, <2>1, TmpStays DEF ReviewInv
<1>10. ASSUME NEW q \in Passes
       PROVE  PassSound(q)'
  <2>1. CASE q = p
    BY <1>1, <1>2, <1>6, <2>1 DEF PassSound
  <2>2. CASE q # p
    BY <1>1, <1>2, <1>5, <2>2, PassStays DEF ReviewInv, OthersRest
  <2>. QED
    BY <2>1, <2>2
<1>. QED
  BY <1>4, <1>8, <1>9, <1>10 DEF ReviewInv

(* A write leaves a file that has the new lines, and no other file.        *)
LEMMA WriteLeaves ==
  ASSUME ReviewTypeOK, NEW p \in Passes, NEW new \in Files, Write(p, new),
         passes[p].file = "tmp" => tmp # NoFile
  PROVE  /\ log' \in Files /\ tmp' \in Files \cup {NoFile}
         /\ tmp' = NoFile <=> tmp = NoFile
         /\ passes[p].file # "log" => log' = log
         /\ passes[p].file # "tmp" => tmp' = tmp
         /\ passes[p].file = "log" => new.lines \subseteq log'.lines
         /\ passes[p].file = "tmp" => new.lines \subseteq tmp'.lines
<1>1. ASSUME NEW old \in Files, NEW content \in Overlaid(old, new)
      PROVE  content \in Files /\ new.lines \subseteq content.lines
  <2>1. CASE content = new
    BY <2>1
  <2>2. ASSUME NEW rest \in SUBSET old.lines, NEW torn \in {FALSE, old.torn},
               content = [lines |-> new.lines \cup rest, torn |-> torn]
        PROVE  content \in Files /\ new.lines \subseteq content.lines
    <3>1. /\ new.lines \cup rest \in SUBSET Captures
          /\ torn \in BOOLEAN
      BY DEF Files
    <3>. QED
      BY <2>2, <3>1 DEF Files
  <2>. QED
    BY <1>1, <2>1, <2>2 DEF Overlaid
<1>2. CASE passes[p].file = "tmp"
  BY <1>1, <1>2, NoFileApart DEF ReviewTypeOK, Write
<1>3. CASE passes[p].file = "log"
  BY <1>1, <1>3 DEF ReviewTypeOK, Write
<1>4. CASE passes[p].file \notin {"tmp", "log"}
  BY <1>4 DEF ReviewTypeOK, Write
<1>. QED
  BY <1>2, <1>3, <1>4

(* What the pass had in hand is in the file it had open.                   *)
LEMMA Step_Fill ==
  ASSUME ReviewInv, NEW p \in Passes, Fill(p)
  PROVE  ReviewInv'
<1> DEFINE new == [lines |-> passes[p].kept, torn |-> FALSE]
<1>1. /\ passes[p] \in PassRecords /\ PassSound(p)
      /\ passes[p].pc = "filling" /\ Settled(passes[p].kept)
      /\ Write(p, new)
      /\ UNCHANGED <<facts, discarded, captured, excused>>
  BY DEF ReviewInv, ReviewTypeOK, Fill, PassSound
<1>2. new \in Files /\ new.lines = passes[p].kept
  BY <1>1 DEF Files, PassRecords
<1>3. /\ log' \in Files /\ tmp' \in Files \cup {NoFile}
      /\ tmp' = NoFile <=> tmp = NoFile
      /\ passes[p].file # "log" => log' = log
      /\ passes[p].file # "tmp" => tmp' = tmp
      /\ passes[p].file = "log" => passes[p].kept \subseteq log'.lines
      /\ passes[p].file = "tmp" => passes[p].kept \subseteq tmp'.lines
  <2>1. passes[p].file = "tmp" => tmp # NoFile
    BY <1>1 DEF PassSound
  <2> HIDE DEF new
  <2>. QED
    BY <1>1, <1>2, <2>1, WriteLeaves DEF ReviewInv
<1>4. /\ passes' \in [Passes -> PassRecords]
      /\ OthersRest(p)
      /\ passes'[p].pc = IF p \in Reviews THEN "renaming" ELSE "over"
      /\ passes'[p].file = "none"
      /\ p \in Reviews => passes'[p].kept = passes[p].kept
  <2>1. Over \in PassRecords /\ Over.pc = "over" /\ Over.file = "none"
    BY DEF Over, Ready, PassRecords
  <2>2. CASE p \in Reviews
    BY <1>1, <2>2 DEF ReviewInv, ReviewTypeOK, Fill, OthersRest, PassRecords
  <2>3. CASE p \notin Reviews
    BY <1>1, <2>1, <2>3 DEF ReviewInv, ReviewTypeOK, Fill, OthersRest
  <2>. QED
    BY <2>2, <2>3
<1>5. Calm
  BY <1>1 DEF Calm
<1>6. ReviewTypeOK'
  BY <1>1, <1>3, <1>4 DEF ReviewInv, ReviewTypeOK
<1>7. EntriesAccounted'
  <2>1. CASE passes[p].file = "log"
    BY <1>1, <1>3, <2>1 DEF EntriesAccounted, Settled
  <2>2. CASE passes[p].file # "log"
    BY <1>3, <1>4, <1>5, <2>2, LogStays DEF ReviewInv
  <2>. QED
    BY <2>1, <2>2
<1>8. TmpSound'
  <2>1. CASE passes[p].file = "tmp"
    BY <1>1, <1>3, <2>1 DEF TmpSound, Settled
  <2>2. CASE passes[p].file # "tmp"
    BY <1>1, <1>3, <1>4, <1>5, <2>2, TmpStays DEF ReviewInv, Replacing
  <2>. QED
    BY <2>1, <2>2
<1>9. ASSUME NEW q \in Passes
      PROVE  PassSound(q)'
  <2>1. CASE q = p
    BY <1>1, <1>4, <2>1 DEF PassSound, Settled
  <2>2. CASE q # p
    BY <1>3, <1>4, <1>5, <2>2, PassStays DEF ReviewInv, OthersRest
  <2>. QED
    BY <2>1, <2>2
<1>. QED
  BY <1>6, <1>7, <1>8, <1>9 DEF ReviewInv

(* The temporary file becomes the log, and with it what others have yet to *)
(* write to it.                                                            *)
LEMMA Step_Rename ==
  ASSUME ReviewInv, NEW p \in Passes, Rename(p)
  PROVE  ReviewInv'
<1>1. /\ passes[p] \in PassRecords /\ p \in Reviews
      /\ passes[p].pc = "renaming"
      /\ UNCHANGED <<facts, discarded, captured, excused>>
  BY DEF ReviewInv, ReviewTypeOK, Rename, PassSound
<1>2. Over \in PassRecords /\ Over.pc = "over" /\ Over.file = "none"
  BY DEF Over, Ready, PassRecords
<1>3. Calm
  BY <1>1 DEF Calm
<1>4. CASE tmp = NoFile
  <2>1. passes' = [passes EXCEPT ![p] = Over] /\ UNCHANGED <<log, tmp>>
    BY <1>4 DEF Rename
  <2>2. PassSound(p)'
    BY <1>2, <2>1 DEF ReviewInv, ReviewTypeOK, PassSound
  <2>3. (facts \cup discarded \cup captured \cup excused)' \subseteq Captures
    BY <1>1 DEF ReviewInv, ReviewTypeOK
  <2>. QED
    BY <1>1, <1>2, <1>3, <2>1, <2>2, <2>3, QuietStep
<1>5. CASE tmp # NoFile
  <2>1. /\ log' = tmp /\ tmp' = NoFile /\ tmp \in Files
        /\ passes' = [q \in Passes |->
             IF q = p THEN Over
             ELSE [passes[q] EXCEPT !.file = Renamed(@)]]
    BY <1>5 DEF Rename, ReviewInv, ReviewTypeOK
  <2>2. ASSUME NEW q \in Passes, q # p
        PROVE  /\ passes'[q] \in PassRecords
               /\ passes'[q].pc = passes[q].pc
               /\ passes'[q].todo = passes[q].todo
               /\ passes'[q].kept = passes[q].kept
               /\ passes'[q].discard = passes[q].discard
               /\ passes'[q].file = Renamed(passes[q].file)
    <3>1. passes[q] \in PassRecords
      BY DEF ReviewInv, ReviewTypeOK
    <3>2. Renamed(passes[q].file) \in {"tmp", "log", "unlinked", "none"}
      BY <3>1 DEF PassRecords, Renamed
    <3>3. passes'[q] = [passes[q] EXCEPT !.file = Renamed(passes[q].file)]
      BY <2>1, <2>2
    <3>. QED
      BY <3>1, <3>2, <3>3 DEF PassRecords
  <2>3. passes'[p] = Over
    BY <2>1
  <2>4. ReviewTypeOK'
    <3>1. \A q \in Passes : passes'[q] \in PassRecords
      BY <1>2, <2>2, <2>3
    <3>2. passes' \in [Passes -> PassRecords]
      BY <2>1, <3>1
    <3>. QED
      BY <1>1, <2>1, <3>2 DEF ReviewInv, ReviewTypeOK
  <2>5. InHand("tmp") \subseteq InHand("log")'
    <3>1. SUFFICES ASSUME NEW entry \in InHand("tmp")
                   PROVE  entry \in InHand("log")'
      OBVIOUS
    <3>2. PICK q \in Passes : /\ passes[q].pc = "filling"
                              /\ passes[q].file = "tmp"
                              /\ entry \in passes[q].kept
      BY DEF InHand
    <3>3. q # p /\ Renamed("tmp") = "log"
      BY <1>1, <3>2 DEF Renamed
    <3>. QED
      BY <2>2, <3>2, <3>3 DEF InHand
  <2>6. Settled(tmp.lines \cup InHand("tmp"))
    BY <1>1, <1>5 DEF ReviewInv, TmpSound, Replacing
  <2>7. EntriesAccounted'
    BY <1>1, <2>1, <2>5, <2>6 DEF EntriesAccounted, Settled
  <2>8. TmpSound'
    BY <2>1 DEF TmpSound
  <2>9. ASSUME NEW q \in Passes
        PROVE  PassSound(q)'
    <3>1. CASE q = p
      BY <1>2, <2>3, <3>1 DEF PassSound
    <3>2. CASE q # p
      <4>1. /\ passes[q] \in PassRecords
            /\ passes[q].file # "none" => passes'[q].file # "none"
            /\ passes'[q].file # "tmp"
        BY <2>2, <3>2 DEF ReviewInv, ReviewTypeOK, PassRecords, Renamed
      <4>. QED
        BY <1>1, <2>2, <3>2, <4>1 DEF ReviewInv, PassSound, Settled
    <3>. QED
      BY <3>1, <3>2
  <2>. QED
    BY <2>4, <2>7, <2>8, <2>9 DEF ReviewInv
<1>. QED
  BY <1>4, <1>5

(* Only a pass that nobody else could harm or be harmed by dies without    *)
(* being an excuse.                                                        *)
LEMMA Step_Fail ==
  ASSUME ReviewInv, NEW p \in Passes, Fail(p)
  PROVE  ReviewInv'
<1>1. /\ passes[p] \in PassRecords /\ PassSound(p)
      /\ passes' = [passes EXCEPT ![p] = Over]
      /\ UNCHANGED <<facts, discarded, captured>>
  BY DEF ReviewInv, ReviewTypeOK, Fail
<1>2. Over \in PassRecords /\ Over.pc = "over" /\ Over.file = "none"
  BY DEF Over, Ready, PassRecords
<1>3. /\ passes' \in [Passes -> PassRecords]
      /\ OthersRest(p)
      /\ passes'[p] = Over
  BY <1>1, <1>2 DEF ReviewInv, ReviewTypeOK, OthersRest
<1>4. PassSound(p)'
  BY <1>2, <1>3 DEF PassSound
<1>5. /\ excused \subseteq excused'
      /\ (facts \cup discarded \cup captured \cup excused)' \subseteq Captures
      /\ Calm
  BY <1>1 DEF Fail, Calm, ReviewInv, ReviewTypeOK
<1>6. CASE passes[p].pc # "filling"
  BY <1>1, <1>2, <1>4, <1>5, <1>6, QuietStep DEF Fail
<1>7. CASE passes[p].pc = "filling"
  <2>1. PICK lines \in SUBSET passes[p].kept, torn \in BOOLEAN :
          Write(p, [lines |-> lines, torn |-> torn])
    BY <1>7 DEF Fail
  <2>2. /\ [lines |-> lines, torn |-> torn] \in Files
        /\ passes[p].file = "tmp" => tmp # NoFile
    BY <1>1 DEF Files, PassRecords, PassSound
  <2>3. /\ log' \in Files /\ tmp' \in Files \cup {NoFile}
        /\ tmp' = NoFile <=> tmp = NoFile
        /\ passes[p].file # "log" => log' = log
        /\ passes[p].file # "tmp" => tmp' = tmp
    BY <2>1, <2>2, WriteLeaves DEF ReviewInv
  <2>4. ReviewTypeOK'
    BY <1>3, <1>5, <2>3 DEF ReviewTypeOK
  <2>5. ASSUME NEW q \in Passes
        PROVE  PassSound(q)'
    BY <1>3, <1>4, <1>5, <2>3, PassStays DEF ReviewInv, OthersRest
  <2>6. CASE \/ passes[p].file = "log"
             \/ \E q \in Passes \ {p} : Replacing(q)
    <3>1. captured' \ excused' = {}
      BY <1>7, <2>6, <1>1 DEF Fail
    <3>2. EntriesAccounted' /\ TmpSound'
      BY <3>1 DEF EntriesAccounted, TmpSound, Settled
    <3>. QED
      BY <2>4, <2>5, <3>2 DEF ReviewInv
  <2>7. CASE ~ \/ passes[p].file = "log"
               \/ \E q \in Passes \ {p} : Replacing(q)
    <3>1. EntriesAccounted'
      BY <1>3, <1>5, <2>3, <2>7, LogStays DEF ReviewInv
    <3>2. ~ \E q \in Reviews : Replacing(q)'
      BY <1>2, <1>3, <2>7 DEF Replacing, OthersRest, Passes
    <3>3. TmpSound'
      BY <3>2 DEF TmpSound
    <3>. QED
      BY <2>4, <2>5, <3>1, <3>3 DEF ReviewInv
  <2>. QED
    BY <2>6, <2>7
<1>. QED
  BY <1>6, <1>7

(* The invariant is inductive.                                             *)
LEMMA ReviewStep == ReviewInv /\ [ReviewNext]_reviewVars => ReviewInv'
<1>. SUFFICES ASSUME ReviewInv, [ReviewNext]_reviewVars
              PROVE  ReviewInv'
  OBVIOUS
<1>1. CASE UNCHANGED reviewVars
  BY <1>1
     DEF reviewVars, ReviewInv, ReviewTypeOK, EntriesAccounted, TmpSound,
         PassSound, Settled, InHand, Replacing
<1>2. ASSUME NEW p \in Passes, NEW commit \in SUBSET Captures,
             NEW discard \in SUBSET Captures,
             \/ ReadReview(p, commit, discard)
             \/ ReadSlash(p, commit, discard)
      PROVE  ReviewInv'
  BY <1>2, Step_Read DEF ReadReview, ReadSlash
<1>3. CASE ReviewNext
  BY <1>2, <1>3, Step_Capture, Step_Apply, Step_AddAll, Step_CreateTmp,
     Step_Truncate, Step_Fill, Step_Rename, Step_Fail
     DEF ReviewNext
<1>. QED
  BY <1>1, <1>3

(* The log and the temporary file are files, and a pass is one of the two  *)
(* programs at one of its steps.                                           *)
THEOREM ReviewTypeCorrect == ReviewSpec => []ReviewTypeOK
<1>1. ReviewInv => ReviewTypeOK
  BY DEF ReviewInv
<1>. QED
  BY <1>1, ReviewInit_Inv, ReviewStep, PTL DEF ReviewSpec

(* However the reviews of the log and the plugin's slash commands overlap, *)
(* fail and die, an entry that every pass could see when it read is in the *)
(* log or about to be written to it, or a fact, or was discarded           *)
(* (cmd/pending/mod.rs, plugins/hermes).                                   *)
THEOREM ReviewsLoseNothing == ReviewSpec => []EntriesAccounted
<1>1. ReviewInv => EntriesAccounted
  BY DEF ReviewInv
<1>. QED
  BY <1>1, ReviewInit_Inv, ReviewStep, PTL DEF ReviewSpec

-----------------------------------------------------------------------------
(* The memory commands.  A call that is over says what it did; before that *)
(* the invariant says of every call what it has written at the place where *)
(* it is, which facts it has found, and where its server was registered.   *)

(* Whoever was registered, or was spawned to be, is a process on that port *)
(* with that store.                                                        *)
RegistrySound ==
  registry # None =>
    /\ registry.pid \in Pids
    /\ servers[registry.pid].port = registry.port
    /\ servers[registry.pid].store = registry.store

ManagerSound(m) ==
  LET manager == managers[m]
  IN  /\ manager.pc = "waiting" =>
           /\ manager.pid \in Pids
           /\ servers[manager.pid].port = manager.port
           /\ servers[manager.pid].store = manager.store
      /\ manager.pc = "spawning" => manager.store \in Stores
      /\ manager.pc \in {"probing", "clearing"} => manager.store \in Stores

Registered(port, store) ==
  \E pid \in Pids : servers[pid].port = port /\ servers[pid].store = store

(* All that the call added is gone again.                                  *)
Deleted(c) == \A id \in AddedBy(c) : memory[id].tier = "gone"

OutcomeSound(c) ==
  LET call == calls[c]
  IN  /\ call.outcome # None
      /\ call.outcome = "done" => call.writes = 1
      /\ call.outcome = "nothing" => call.writes = 0
      /\ call.outcome = "failed" /\ call.writes = 1 =>
           call.request.tool = "add" /\ Deleted(c)

ReportSound(c) ==
  LET call == calls[c]
  IN  /\ call.told = "done" /\ Heard(call) => call.writes = 1
      /\ call.told = "nothing" => call.writes = 0
      /\ call.told = "failed" /\ call.writes = 1 =>
           \/ AnswerLost(call)
           \/ call.request.tool = "add" /\ Deleted(c)

WritesSound(c) ==
  LET call == calls[c]
  IN  /\ call.pc \in {"unissued", "looking", "probing", "sending"} =>
           call.host = None
      /\ call.pc # "unissued" => call.request \in Requests
      /\ call.writes \in {0, 1}
      /\ call.pc \notin {"confirming", "answering", "over"} =>
           call.writes = 0
      /\ call.told # None => call.pc = "over"

ToolSound(c) ==
  LET call == calls[c]
  IN  /\ call.pc = "adding" => call.request.tool = "add"
      /\ call.pc \in {"checking", "checking both", "comparing", "finding",
                      "writing"} => call.request.tool # "add"
      /\ call.pc = "confirming" =>
           /\ call.request.tool = "add"
           /\ call.writes = 1
           /\ Len(call.request.items) = 1

ProgressSound(c) ==
  /\ WritesSound(c)
  /\ ToolSound(c)
  /\ calls[c].pc = "answering" => OutcomeSound(c)
  /\ calls[c].pc = "over" => ReportSound(c)

HostSound(c) ==
  LET call == calls[c]
  IN  /\ ~Own(call) =>
           /\ call.host \in Pids
           /\ servers[call.host].port = call.port
           /\ servers[call.host].bound # None =>
                /\ call.source = servers[call.host].bound
                /\ ~Overrides(call.request, servers[call.host].bound)
      /\ call.pc # "unissued" /\ call.request.via # "mcp"
         /\ (call.pc \in {"probing", "sending"} \/ ~Own(call))
           => Registered(call.port, call.request.store)

(* The fact to write is the caller's, once it was looked at.               *)
Scoped(call, id) ==
  id \in DOMAIN memory /\ memory[id].source = call.source

CheckSound(c) ==
  LET call == calls[c]
      fact == call.request.fact
  IN  call.source # None =>
        /\ call.pc \in {"comparing", "finding", "writing"} =>
             Scoped(call, fact)
        /\ call.pc = "checking" =>
             \/ Scoped(call, fact)
             \/ call.todo # <<>> /\ Head(call.todo) = fact
        /\ call.pc = "checking both" =>
             \E i \in DOMAIN call.todo : call.todo[i] = fact

(* What a call added is there, once, and where it belongs.                 *)
AddedSound(c) ==
  LET call == calls[c]
  IN  /\ AddedBy(c) =
           IF call.pc # "unissued" /\ call.request.tool = "add"
              /\ call.writes = 1
           THEN {<<c, i>> : i \in DOMAIN call.request.items}
           ELSE {}
      /\ call.pc # "unissued" /\ call.request.via # "mcp" =>
           \A id \in AddedBy(c) :
             \/ memory[id].store = call.request.store
             \/ Contended(call.port)

CallSound(c) ==
  ProgressSound(c) /\ HostSound(c) /\ CheckSound(c) /\ AddedSound(c)

SeedsSound ==
  \A id \in DOMAIN memory : memory[id].by = None => id \in DOMAIN Seeds

CommandsInv ==
  /\ CommandsTypeOK
  /\ RegistrySound
  /\ \A m \in Managers : ManagerSound(m)
  /\ SeedsSound
  /\ \A c \in Calls : CallSound(c)

(* Servers come, and stop for good.                                        *)
ServersKeep ==
  \A pid \in Pids :
    /\ pid \in Pids'
    /\ servers'[pid].store = servers[pid].store
    /\ servers'[pid].port = servers[pid].port
    /\ servers'[pid].bound = servers[pid].bound
    /\ servers[pid].state = "dead" => servers'[pid].state = "dead"

(* Facts come, and neither move nor return.                                *)
MemoryKeeps ==
  \A id \in DOMAIN memory :
    /\ id \in DOMAIN memory'
    /\ memory'[id].store = memory[id].store
    /\ memory'[id].source = memory[id].source
    /\ memory'[id].by = memory[id].by
    /\ memory[id].tier = "gone" => memory'[id].tier = "gone"

(* A resting call does not notice.                                         *)
LEMMA CallStays ==
  ASSUME NEW c \in Calls, CallSound(c), calls'[c] = calls[c],
         ServersKeep, MemoryKeeps, AddedBy(c)' = AddedBy(c)
  PROVE  CallSound(c)'
<1>1. AddedBy(c) \subseteq DOMAIN memory
  BY DEF AddedBy
<1>2. Deleted(c) => Deleted(c)'
  BY <1>1 DEF Deleted, MemoryKeeps
<1>3. HostSound(c)
  BY DEF CallSound
<1>4. AnswerLost(calls[c]) => AnswerLost(calls[c])'
  BY <1>3 DEF AnswerLost, Own, HostSound, ServersKeep
<1>5. ProgressSound(c)'
  <2>1. OutcomeSound(c) => OutcomeSound(c)'
    BY <1>2 DEF OutcomeSound
  <2>2. ReportSound(c) => ReportSound(c)'
    BY <1>2, <1>4 DEF ReportSound, Heard, Own
  <2>3. WritesSound(c)'
    BY DEF CallSound, ProgressSound, WritesSound
  <2>4. ToolSound(c)'
    BY DEF CallSound, ProgressSound, ToolSound
  <2>. QED
    BY <2>1, <2>2, <2>3, <2>4 DEF CallSound, ProgressSound
<1>6. \A port, store : Registered(port, store) => Registered(port, store)'
  BY DEF Registered, ServersKeep
<1>7. HostSound(c)'
  BY <1>3, <1>6 DEF HostSound, Own, ServersKeep, Overrides, Items
<1>8. CheckSound(c)'
  BY DEF CallSound, CheckSound, Scoped, MemoryKeeps
<1>9. \A port : Contended(port) => Contended(port)'
  BY DEF Contended, ServersKeep
<1>10. AddedSound(c)'
  BY <1>1, <1>9 DEF CallSound, AddedSound, MemoryKeeps
<1>. QED
  BY <1>5, <1>7, <1>8, <1>10 DEF CallSound

(* What a call added is the same where no fact changes.                    *)
LEMMA AddedStays ==
  ASSUME NEW c \in Calls, UNCHANGED memory
  PROVE  AddedBy(c)' = AddedBy(c) /\ MemoryKeeps
BY DEF AddedBy, MemoryKeeps

(* A step of one call that changes no fact.                                *)
LEMMA CallChanges ==
  ASSUME CommandsInv, NEW c \in Calls, NEW next \in CallRecords,
         Change(c, next), UNCHANGED <<registry, servers, memory, managers>>,
         CallSound(c)'
  PROVE  CommandsInv'
<1>1. calls' = [calls EXCEPT ![c] = next]
  BY DEF Change
<1>2. ServersKeep
  BY DEF ServersKeep, Pids
<1>3. CommandsTypeOK'
  BY <1>1 DEF CommandsInv, CommandsTypeOK
<1>4. RegistrySound' /\ SeedsSound' /\ \A m \in Managers : ManagerSound(m)'
  BY DEF CommandsInv, RegistrySound, SeedsSound, ManagerSound, Pids
<1>5. ASSUME NEW d \in Calls
      PROVE  CallSound(d)'
  <2>1. CASE d = c
    BY <2>1
  <2>2. CASE d # c
    <3>1. calls'[d] = calls[d]
      BY <1>1, <2>2 DEF CommandsInv, CommandsTypeOK
    <3>2. CallSound(d)
      BY DEF CommandsInv
    <3>. QED
      BY <1>2, <3>1, <3>2, AddedStays, CallStays
  <2>. QED
    BY <2>1, <2>2
<1>. QED
  BY <1>3, <1>4, <1>5 DEF CommandsInv

(* What is unchanged with the servers and the facts.                       *)
LEMMA SameWorld ==
  ASSUME UNCHANGED <<servers, memory>>
  PROVE  /\ \A c \in Calls : AddedBy(c)' = AddedBy(c)
         /\ \A c \in Calls : Deleted(c)' <=> Deleted(c)
         /\ \A port, store :
              Registered(port, store)' <=> Registered(port, store)
         /\ \A port : Contended(port)' <=> Contended(port)
         /\ Pids' = Pids
BY DEF AddedBy, Deleted, Registered, Contended, Pids

(* A call that goes on from its place to another, having written as much   *)
(* and for the same request, on the same port and host.                    *)
LEMMA PlaceChanges ==
  ASSUME CommandsInv, NEW c \in Calls, NEW next \in CallRecords,
         Change(c, next), UNCHANGED <<registry, servers, memory, managers>>,
         calls[c].pc # "unissued", next.pc # "unissued",
         next.request = calls[c].request, next.port = calls[c].port,
         next.host = calls[c].host, next.source = calls[c].source,
         next.writes = calls[c].writes,
         next.pc \in {"probing", "sending"} =>
           calls[c].pc \in {"probing", "sending"},
         ProgressSound(c)', CheckSound(c)'
  PROVE  CommandsInv'
<1>1. calls'[c] = next
  BY DEF Change, CommandsInv, CommandsTypeOK
<1>2. CallSound(c)
  BY DEF CommandsInv
<1>3. HostSound(c)'
  BY <1>1, <1>2, SameWorld
     DEF CallSound, HostSound, Own, Overrides, Items
<1>4. AddedSound(c)'
  BY <1>1, <1>2, SameWorld DEF CallSound, AddedSound
<1>. QED
  BY <1>3, <1>4, CallChanges DEF CallSound

(* A call ends, and its report is true of what it wrote.                   *)
LEMMA Step_Told ==
  ASSUME CommandsInv, NEW c \in Calls,
         NEW told \in {"done", "failed", "nothing", None},
         Told(c, told), UNCHANGED <<registry, servers, memory, managers>>,
         calls[c].pc # "unissued",
         told = "done" /\ Heard(calls[c]) => calls[c].writes = 1,
         told = "nothing" => calls[c].writes = 0,
         told = "failed" /\ calls[c].writes = 1 =>
           \/ AnswerLost(calls[c])
           \/ calls[c].request.tool = "add" /\ Deleted(c)
  PROVE  CommandsInv'
<1> DEFINE next == [calls[c] EXCEPT !.pc = "over", !.told = told]
<1>1. calls[c] \in CallRecords /\ CallSound(c)
  BY DEF CommandsInv, CommandsTypeOK
<1>2. /\ next \in CallRecords
      /\ next.pc = "over" /\ next.told = told
      /\ next.request = calls[c].request /\ next.port = calls[c].port
      /\ next.host = calls[c].host /\ next.source = calls[c].source
      /\ next.writes = calls[c].writes
  BY <1>1 DEF CallRecords
<1>3. Change(c, next)
  BY DEF Told
<1> HIDE DEF next
<1>4. calls'[c] = next
  BY <1>3 DEF Change, CommandsInv, CommandsTypeOK
<1>5. Heard(calls[c])' <=> Heard(calls[c])
  BY <1>2, <1>4 DEF Heard, Own
<1>6. AnswerLost(calls[c])' <=> AnswerLost(calls[c])
  BY <1>2, <1>4 DEF AnswerLost, Own
<1>7. ReportSound(c)'
  BY <1>2, <1>4, <1>5, <1>6, SameWorld DEF ReportSound
<1>8. ProgressSound(c)'
  BY <1>1, <1>2, <1>4, <1>7 DEF CallSound, ProgressSound, WritesSound, ToolSound
<1>9. CheckSound(c)'
  BY <1>2, <1>4 DEF CheckSound
<1>. QED
  BY <1>2, <1>3, <1>8, <1>9, PlaceChanges

(* A tool ends with an outcome that is true of what it wrote.              *)
LEMMA Step_Finish ==
  ASSUME CommandsInv, NEW c \in Calls,
         NEW outcome \in {"done", "failed", "nothing"},
         Finish(c, outcome), UNCHANGED <<registry, servers, memory, managers>>,
         calls[c].pc \notin {"unissued", "over"},
         outcome = "done" => calls[c].writes = 1,
         outcome = "nothing" => calls[c].writes = 0,
         outcome = "failed" /\ calls[c].writes = 1 =>
           calls[c].request.tool = "add" /\ Deleted(c)
  PROVE  CommandsInv'
<1> DEFINE next == [calls[c] EXCEPT !.pc = "answering", !.outcome = outcome]
<1>1. calls[c] \in CallRecords /\ CallSound(c)
  BY DEF CommandsInv, CommandsTypeOK
<1>2. /\ next \in CallRecords
      /\ next.pc = "answering" /\ next.outcome = outcome
      /\ next.request = calls[c].request /\ next.port = calls[c].port
      /\ next.host = calls[c].host /\ next.source = calls[c].source
      /\ next.writes = calls[c].writes /\ next.told = calls[c].told
  BY <1>1 DEF CallRecords
<1>3. Change(c, next)
  BY DEF Finish
<1> HIDE DEF next
<1>4. calls'[c] = next
  BY <1>3 DEF Change, CommandsInv, CommandsTypeOK
<1>5. OutcomeSound(c)'
  BY <1>2, <1>4, SameWorld, NoneApart DEF OutcomeSound
<1>6. ProgressSound(c)'
  BY <1>1, <1>2, <1>4, <1>5 DEF CallSound, ProgressSound, WritesSound, ToolSound
<1>7. CheckSound(c)'
  BY <1>2, <1>4 DEF CheckSound
<1>. QED
  BY <1>2, <1>3, <1>6, <1>7, PlaceChanges

(* A call begins where it has found its store: with nothing written, and   *)
(* with the fact it is about still to be looked at.                        *)
LEMMA BegunFields ==
  ASSUME NEW call \in CallRecords, NEW host \in Nat \cup {None},
         NEW source \in SourceIds \cup {None}, call.request \in Requests
  PROVE  /\ Begun(call, host, source) \in CallRecords
         /\ Begun(call, host, source).request = call.request
         /\ Begun(call, host, source).port = call.port
         /\ Begun(call, host, source).host = host
         /\ Begun(call, host, source).source = source
         /\ Begun(call, host, source).writes = call.writes
         /\ Begun(call, host, source).told = call.told
         /\ Begun(call, host, source).pc = FirstPlace(call.request, host)
         /\ Begun(call, host, source).todo
              = LookedUp(call.request, host, source)
<1> DEFINE request == call.request
           ids == FactIds \cup {None}
           todo == LookedUp(request, host, source)
<1>1. request.fact \in ids /\ request.other \in ids
  BY CommandsAssumption DEF RequestRecords
<1> HIDE DEF ids
<1>2. /\ <<>> \in Seq(ids)
      /\ <<request.fact>> \in Seq(ids)
      /\ <<request.fact, request.other>> \in Seq(ids)
  BY <1>1
<1>3. \/ todo = <<>>
      \/ todo = <<request.fact>>
      \/ todo = <<request.fact, request.other>>
  BY DEF LookedUp
<1>4. todo \in Seq(ids)
  BY <1>2, <1>3
<1>5. FirstPlace(request, host) \in {"adding", "checking both", "checking"}
  BY DEF FirstPlace
<1>. QED
  BY <1>4, <1>5 DEF Begun, CallRecords, ids

(* The host of a call has what was asked for, as far as one can tell, and  *)
(* makes a bound caller stay in its source.                                *)
Hosted(request, port, host, source) ==
  host # None =>
    /\ host \in Pids
    /\ servers[host].port = port
    /\ servers[host].bound # None =>
         /\ source = servers[host].bound
         /\ ~Overrides(request, servers[host].bound)
    /\ request.via # "mcp" => Registered(port, request.store)

(* The call is at its store now.                                           *)
LEMMA Step_Begun ==
  ASSUME CommandsInv, NEW c \in Calls, NEW call \in CallRecords,
         NEW host \in Nat \cup {None}, NEW source \in SourceIds \cup {None},
         Change(c, Begun(call, host, source)),
         UNCHANGED <<registry, servers, memory, managers>>,
         call.request \in Requests, call.writes = 0, call.told = None,
         calls[c].writes = 0,
         Hosted(call.request, call.port, host, source)
  PROVE  CommandsInv'
<1> DEFINE next == Begun(call, host, source)
<1>0. next = Begun(call, host, source)
  OBVIOUS
<1> HIDE DEF next
<1>1. /\ next \in CallRecords
      /\ next.request = call.request /\ next.port = call.port
      /\ next.host = host /\ next.source = source
      /\ next.writes = call.writes /\ next.told = call.told
      /\ next.pc = FirstPlace(call.request, host)
      /\ next.todo = LookedUp(call.request, host, source)
  BY <1>0, BegunFields
<1>2. Change(c, next)
  BY <1>0
<1>3. calls'[c] = next
  BY <1>2 DEF Change, CommandsInv, CommandsTypeOK
<1>4. next.pc \in {"adding", "checking both", "checking"}
  BY <1>1 DEF FirstPlace
<1>5. /\ next.pc = "adding" => call.request.tool = "add"
      /\ next.pc \in {"checking both", "checking"} => call.request.tool # "add"
  BY <1>1 DEF FirstPlace
<1>6. ProgressSound(c)'
  <2>1. WritesSound(c)'
    BY <1>1, <1>3, <1>4 DEF WritesSound
  <2>2. ToolSound(c)'
    BY <1>1, <1>3, <1>4, <1>5 DEF ToolSound
  <2>. QED
    BY <1>3, <1>4, <2>1, <2>2 DEF ProgressSound
<1>7. HostSound(c)'
  BY <1>1, <1>3, <1>4, SameWorld
     DEF Hosted, HostSound, Own, Overrides, Items
<1>8. CheckSound(c)'
  <2>1. SUFFICES ASSUME source # None
                 PROVE  /\ next.pc = "checking" =>
                             next.todo # <<>>
                             /\ Head(next.todo) = call.request.fact
                        /\ next.pc = "checking both" =>
                             \E i \in DOMAIN next.todo :
                               next.todo[i] = call.request.fact
    BY <1>1, <1>3, <1>4 DEF CheckSound
  <2>2. CASE next.pc = "checking"
    <3>1. \/ next.todo = <<call.request.fact>>
          \/ next.todo = <<call.request.fact, call.request.other>>
      BY <1>1, <1>5, <2>1, <2>2 DEF LookedUp
    <3>. QED
      BY <2>2, <3>1
  <2>3. CASE next.pc = "checking both"
    <3>1. next.todo = <<call.request.fact, call.request.other>>
      BY <1>1, <2>3 DEF LookedUp, FirstPlace
    <3>2. 1 \in DOMAIN next.todo /\ next.todo[1] = call.request.fact
      BY <3>1
    <3>. QED
      BY <2>3, <3>2
  <2>. QED
    BY <1>4, <2>2, <2>3
<1>9. AddedSound(c)'
  <2>1. AddedBy(c) = {}
    BY DEF CommandsInv, CallSound, AddedSound
  <2>. QED
    BY <1>1, <1>3, <2>1, SameWorld DEF AddedSound
<1>. QED
  BY <1>1, <1>2, <1>6, <1>7, <1>8, <1>9, CallChanges DEF CallSound

(* A call that has just begun to look or to send has a port, and for a     *)
(* command it is one that was registered.                                  *)
LEMMA Step_Route ==
  ASSUME CommandsInv, NEW c \in Calls, NEW next \in CallRecords,
         Change(c, next), UNCHANGED <<registry, servers, memory, managers>>,
         next.pc \in {"looking", "probing", "sending"},
         next.request \in Requests, next.writes = 0, next.told = None,
         next.host = None, calls[c].writes = 0,
         next.pc \in {"probing", "sending"} /\ next.request.via # "mcp" =>
           Registered(next.port, next.request.store)
  PROVE  CommandsInv'
<1>1. calls'[c] = next
  BY DEF Change, CommandsInv, CommandsTypeOK
<1>2. ProgressSound(c)'
  BY <1>1 DEF ProgressSound, WritesSound, ToolSound
<1>3. HostSound(c)'
  BY <1>1, SameWorld DEF HostSound, Own
<1>4. CheckSound(c)'
  BY <1>1 DEF CheckSound
<1>5. AddedSound(c)'
  <2>1. AddedBy(c) = {}
    BY DEF CommandsInv, CallSound, AddedSound
  <2>. QED
    BY <1>1, <2>1, SameWorld DEF AddedSound
<1>. QED
  BY <1>2, <1>3, <1>4, <1>5, CallChanges DEF CallSound

(* Nobody has called yet.                                                  *)
LEMMA UnissuedFields ==
  /\ Unissued \in [pc : {"unissued"}, request : {None}, port : {None},
                   host : {None}, source : {None}, todo : {<<>>}, seen : {{}},
                   writes : {0}, outcome : {None}, told : {None}]
  /\ Unissued \in CallRecords
<1>1. <<>> \in Seq(FactIds \cup {None})
  OBVIOUS
<1>. QED
  BY <1>1 DEF Unissued, CallRecords

(* What every call brings along.                                           *)
LEMMA CallFacts ==
  ASSUME CommandsInv, NEW c \in Calls
  PROVE  /\ calls[c] \in CallRecords
         /\ CallSound(c)
         /\ WritesSound(c)
         /\ ToolSound(c)
BY DEF CommandsInv, CommandsTypeOK, CallSound, ProgressSound

(* A call is made.                                                         *)
LEMMA Step_Issue ==
  ASSUME CommandsInv, NEW c \in Calls, NEW request \in Requests,
         Issue(c, request)
  PROVE  CommandsInv'
<1> DEFINE asked(pc) ==
      [Unissued EXCEPT !.pc = pc, !.request = request,
                       !.source = request.source, !.port = request.port]
<1>1. /\ request.source \in SourceIds \cup {None}
      /\ request.port \in Ports \cup {None}
  BY CommandsAssumption DEF RequestRecords
<1>2. ASSUME NEW pc \in {"looking", "sending"}
      PROVE  /\ asked(pc) \in CallRecords
             /\ asked(pc).pc = pc /\ asked(pc).request = request
             /\ asked(pc).source = request.source
             /\ asked(pc).host = None /\ asked(pc).writes = 0
             /\ asked(pc).told = None
  BY <1>1, UnissuedFields DEF CallRecords
<1>3. /\ UNCHANGED <<registry, servers, memory, managers>>
      /\ calls[c].writes = 0
  BY CallFacts DEF Issue, WritesSound
<1>4. \/ Change(c, asked("sending")) /\ request.via = "mcp"
      \/ Change(c, asked("looking"))
      \/ Change(c, Begun(asked("looking"), None, request.source))
  BY DEF Issue
<1> HIDE DEF asked
<1>5. CASE Change(c, asked("sending")) /\ request.via = "mcp"
  BY <1>2, <1>3, <1>5, Step_Route
<1>6. CASE Change(c, asked("looking"))
  BY <1>2, <1>3, <1>6, Step_Route
<1>7. CASE Change(c, Begun(asked("looking"), None, request.source))
  <2>1. Hosted(request, asked("looking").port, None, request.source)
    BY DEF Hosted
  <2>. QED
    BY <1>1, <1>2, <1>3, <1>7, <2>1, Step_Begun
<1>. QED
  BY <1>4, <1>5, <1>6, <1>7

(* A command does the work itself.                                         *)
LEMMA Step_BeginOwn ==
  ASSUME CommandsInv, NEW c \in Calls, BeginOwn(c),
         calls[c].pc \in {"looking", "probing"},
         UNCHANGED <<registry, servers, memory, managers>>
  PROVE  CommandsInv'
<1>1. /\ calls[c] \in CallRecords /\ calls[c].request \in Requests
      /\ calls[c].writes = 0 /\ calls[c].told = None
      /\ calls[c].source \in SourceIds \cup {None}
  BY CallFacts DEF WritesSound, CallRecords
<1>2. Hosted(calls[c].request, calls[c].port, None, calls[c].source)
  BY DEF Hosted
<1>. QED
  BY <1>1, <1>2, Step_Begun DEF BeginOwn

(* A command finds a daemon registered for its store, or none.             *)
LEMMA Step_Look ==
  ASSUME CommandsInv, NEW c \in Calls, Look(c)
  PROVE  CommandsInv'
<1> DEFINE next == [calls[c] EXCEPT !.pc = "probing", !.port = registry.port]
<1>1. /\ calls[c] \in CallRecords /\ calls[c].request \in Requests
      /\ calls[c].writes = 0 /\ calls[c].told = None
      /\ calls[c].pc = "looking"
      /\ UNCHANGED <<registry, servers, memory, managers>>
  BY CallFacts DEF WritesSound, Look
<1>2. CASE BeginOwn(c)
  BY <1>1, <1>2, Step_BeginOwn
<1>3. CASE /\ registry # None /\ registry.store = calls[c].request.store
           /\ Change(c, next)
  <2>1. registry.port \in Ports
    BY <1>3 DEF CommandsInv, CommandsTypeOK, Registrations
  <2>2. /\ next \in CallRecords /\ next.pc = "probing"
        /\ next.port = registry.port /\ next.host = calls[c].host
        /\ next.request = calls[c].request /\ next.writes = 0
        /\ next.told = None
    BY <1>1, <2>1 DEF CallRecords
  <2>3. Registered(registry.port, calls[c].request.store)
    BY <1>3 DEF CommandsInv, RegistrySound, Registered
  <2>4. calls[c].host = None
    BY <1>1, CallFacts DEF WritesSound
  <2> HIDE DEF next
  <2>. QED
    BY <1>1, <1>3, <2>2, <2>3, <2>4, Step_Route
<1>. QED
  BY <1>2, <1>3 DEF Look

(* It answers, or the command goes on without it.                          *)
LEMMA Step_Probe ==
  ASSUME CommandsInv, NEW c \in Calls, Probe(c)
  PROVE  CommandsInv'
<1> DEFINE next == [calls[c] EXCEPT !.pc = "sending"]
<1>1. /\ calls[c] \in CallRecords /\ calls[c].request \in Requests
      /\ calls[c].writes = 0 /\ calls[c].told = None
      /\ calls[c].pc = "probing"
      /\ UNCHANGED <<registry, servers, memory, managers>>
  BY CallFacts DEF WritesSound, Probe
<1>2. CASE BeginOwn(c)
  BY <1>1, <1>2, Step_BeginOwn
<1>3. CASE Change(c, next)
  <2>1. /\ next \in CallRecords /\ next.pc = "sending"
        /\ next.port = calls[c].port /\ next.host = calls[c].host
        /\ next.request = calls[c].request /\ next.writes = 0
        /\ next.told = None
    BY <1>1 DEF CallRecords
  <2>2. calls[c].request.via # "mcp" =>
          Registered(calls[c].port, calls[c].request.store)
    BY <1>1, CallFacts DEF CallSound, HostSound
  <2>3. calls[c].host = None
    BY <1>1, CallFacts DEF WritesSound
  <2> HIDE DEF next
  <2>. QED
    BY <1>1, <1>3, <2>1, <2>2, <2>3, Step_Route
<1>. QED
  BY <1>2, <1>3 DEF Probe, Step

(* The request reaches a server that keeps it within the bound source.     *)
LEMMA Step_Post ==
  ASSUME CommandsInv, NEW c \in Calls, Post(c)
  PROVE  CommandsInv'
<1>1. /\ calls[c] \in CallRecords /\ calls[c].request \in Requests
      /\ calls[c].writes = 0 /\ calls[c].told = None
      /\ calls[c].pc = "sending"
      /\ calls[c].source \in SourceIds \cup {None}
      /\ UNCHANGED <<registry, servers, memory, managers>>
  BY CallFacts DEF WritesSound, Post, CallRecords
<1>2. CASE Told(c, "failed")
  BY <1>1, <1>2, NoneApart, Step_Told
<1>3. ASSUME NEW pid \in Serving(calls[c].port),
             NEW source \in SourceIds \cup {None},
             Change(c, Begun(calls[c], pid, source)),
             servers[pid].bound # None =>
               /\ source = servers[pid].bound
               /\ ~Overrides(calls[c].request, servers[pid].bound)
      PROVE  CommandsInv'
  <2>1. pid \in Pids /\ servers[pid].port = calls[c].port
    BY DEF Serving
  <2>2. pid \in Nat
    BY <2>1 DEF Pids, CommandsInv, CommandsTypeOK
  <2>3. calls[c].request.via # "mcp" =>
          Registered(calls[c].port, calls[c].request.store)
    BY <1>1, CallFacts DEF CallSound, HostSound
  <2>4. Hosted(calls[c].request, calls[c].port, pid, source)
    BY <1>3, <2>1, <2>3 DEF Hosted
  <2>. QED
    BY <1>1, <1>3, <2>2, <2>4, Step_Begun
<1>4. ASSUME NEW pid \in Serving(calls[c].port)
      PROVE  servers[pid].bound \in SourceIds \cup {None}
  <2>1. servers[pid] \in ServerRecords
    BY DEF Serving, Pids, CommandsInv, CommandsTypeOK
  <2>. QED
    BY <2>1 DEF ServerRecords
<1>5. CASE \E pid \in Serving(calls[c].port) :
             /\ servers[pid].bound = None
             /\ Change(c, Begun(calls[c], pid, calls[c].source))
  BY <1>1, <1>3, <1>5
<1>6. CASE \E pid \in Serving(calls[c].port) :
             /\ servers[pid].bound # None
             /\ ~Overrides(calls[c].request, servers[pid].bound)
             /\ Change(c, Begun(calls[c], pid, servers[pid].bound))
  BY <1>3, <1>4, <1>6
<1>7. \/ Told(c, "failed")
      \/ \E pid \in Serving(calls[c].port) :
           /\ servers[pid].bound = None
           /\ Change(c, Begun(calls[c], pid, calls[c].source))
      \/ \E pid \in Serving(calls[c].port) :
           /\ servers[pid].bound # None
           /\ ~Overrides(calls[c].request, servers[pid].bound)
           /\ Change(c, Begun(calls[c], pid, servers[pid].bound))
  BY DEF Post
<1>. QED
  BY <1>2, <1>5, <1>6, <1>7

(* A call that was looked at goes on to the next place of its work.        *)
LEMMA Step_Place ==
  ASSUME CommandsInv, NEW c \in Calls,
         NEW pc \in {"comparing", "finding", "writing"}, Step(c, pc),
         UNCHANGED <<registry, servers, memory, managers>>,
         calls[c].pc \in {"checking", "checking both", "comparing", "finding"},
         calls[c].source # None => Scoped(calls[c], calls[c].request.fact)
  PROVE  CommandsInv'
<1> DEFINE next == [calls[c] EXCEPT !.pc = pc]
<1>1. /\ calls[c] \in CallRecords /\ CallSound(c)
      /\ WritesSound(c) /\ ToolSound(c)
  BY CallFacts
<1>2. /\ next \in CallRecords /\ next.pc = pc
      /\ next.request = calls[c].request /\ next.port = calls[c].port
      /\ next.host = calls[c].host /\ next.source = calls[c].source
      /\ next.writes = calls[c].writes /\ next.told = calls[c].told
  BY <1>1 DEF CallRecords
<1>3. Change(c, next)
  BY DEF Step
<1> HIDE DEF next
<1>4. calls'[c] = next
  BY <1>3 DEF Change, CommandsInv, CommandsTypeOK
<1>5. ProgressSound(c)'
  <2>1. WritesSound(c)'
    BY <1>1, <1>2, <1>4 DEF WritesSound
  <2>2. ToolSound(c)'
    BY <1>1, <1>2, <1>4 DEF ToolSound
  <2>. QED
    BY <1>2, <1>4, <2>1, <2>2 DEF ProgressSound
<1>6. CheckSound(c)'
  BY <1>2, <1>4 DEF CheckSound, Scoped
<1>. QED
  BY <1>2, <1>3, <1>5, <1>6, PlaceChanges

(* While it works a call has written nothing, and may fail.                *)
LEMMA Step_Fails ==
  ASSUME CommandsInv, NEW c \in Calls, Finish(c, "failed"),
         UNCHANGED <<registry, servers, memory, managers>>,
         calls[c].pc \notin {"unissued", "confirming", "answering", "over"}
  PROVE  CommandsInv'
<1>1. calls[c].writes = 0
  BY CallFacts DEF WritesSound
<1>. QED
  BY <1>1, Step_Finish

(* A fact is looked up.                                                    *)
LEMMA Step_Check ==
  ASSUME CommandsInv, NEW c \in Calls, Check(c)
  PROVE  CommandsInv'
<1> DEFINE id == Head(calls[c].todo)
           next == [calls[c] EXCEPT !.todo = Tail(@), !.seen = memory[id].text]
<1>1. /\ calls[c] \in CallRecords /\ CallSound(c) /\ CheckSound(c)
      /\ WritesSound(c) /\ ToolSound(c)
      /\ calls[c].pc = "checking"
      /\ UNCHANGED <<registry, servers, memory, managers>>
  BY CallFacts DEF Check, Working, CallSound
<1>2. CASE /\ calls[c].todo = <<>>
           /\ \/ Step(c, "comparing")
              \/ Step(c, "writing")
  <2>1. calls[c].source # None => Scoped(calls[c], calls[c].request.fact)
    BY <1>1, <1>2 DEF CheckSound
  <2>. QED
    BY <1>1, <1>2, <2>1, Step_Place
<1>3. CASE Finish(c, "failed")
  BY <1>1, <1>3, Step_Fails
<1>4. CASE calls[c].todo # <<>> /\ Visible(calls[c], id) /\ Change(c, next)
  <2>1. /\ memory[id].text \in SUBSET Calls
        /\ Tail(calls[c].todo) \in Seq(FactIds \cup {None})
    <3>1. calls[c].todo \in Seq(FactIds \cup {None})
      BY <1>1 DEF CallRecords
    <3>2. memory[id] \in FactRecords
      BY <1>4 DEF Visible, Here, CommandsInv, CommandsTypeOK
    <3>. QED
      BY <1>4, <3>1, <3>2 DEF FactRecords
  <2>2. /\ next \in CallRecords /\ next.pc = "checking"
        /\ next.request = calls[c].request /\ next.port = calls[c].port
        /\ next.host = calls[c].host /\ next.source = calls[c].source
        /\ next.writes = calls[c].writes /\ next.told = calls[c].told
    BY <1>1, <2>1 DEF CallRecords
  <2>3. calls[c].source # None => Scoped(calls[c], calls[c].request.fact)
    BY <1>1, <1>4 DEF CheckSound, Scoped, Visible, Here
  <2> HIDE DEF next
  <2>4. calls'[c] = next
    BY <1>4 DEF Change, CommandsInv, CommandsTypeOK
  <2>5. ProgressSound(c)'
    <3>1. WritesSound(c)'
      BY <1>1, <2>2, <2>4 DEF WritesSound
    <3>2. ToolSound(c)'
      BY <1>1, <2>2, <2>4 DEF ToolSound
    <3>. QED
      BY <2>2, <2>4, <3>1, <3>2 DEF ProgressSound
  <2>6. CheckSound(c)'
    BY <1>1, <2>2, <2>3, <2>4 DEF CheckSound, Scoped
  <2>. QED
    BY <1>1, <1>4, <2>2, <2>5, <2>6, PlaceChanges
<1>. QED
  BY <1>2, <1>3, <1>4 DEF Check

(* The facts of a supersede are read and compared, or cannot be.           *)
LEMMA Step_Compare ==
  ASSUME CommandsInv, NEW c \in Calls,
         CheckBoth(c) \/ CompareOld(c) \/ FindNew(c) \/ StoreFails(c)
  PROVE  CommandsInv'
<1>1. CheckSound(c)
  BY CallFacts DEF CallSound
<1>2. CASE CheckBoth(c)
  <2>1. CASE Finish(c, "failed")
    BY <1>2, <2>1, Step_Fails DEF CheckBoth, Working
  <2>2. CASE /\ \A i \in DOMAIN calls[c].todo :
                  Visible(calls[c], calls[c].todo[i])
             /\ Step(c, "comparing")
    <3>1. calls[c].source # None => Scoped(calls[c], calls[c].request.fact)
      BY <1>1, <1>2, <2>2
         DEF CheckBoth, Working, CheckSound, Scoped, Visible, Here
    <3>. QED
      BY <1>2, <2>2, <3>1, Step_Place DEF CheckBoth, Working
  <2>. QED
    BY <1>2, <2>1, <2>2 DEF CheckBoth
<1>3. CASE CompareOld(c) \/ FindNew(c)
  <2>1. /\ calls[c].pc \in {"comparing", "finding"}
        /\ UNCHANGED <<registry, servers, memory, managers>>
        /\ \/ Finish(c, "failed")
           \/ Step(c, "finding")
           \/ Step(c, "writing")
    BY <1>3 DEF CompareOld, FindNew, Working
  <2>2. calls[c].source # None => Scoped(calls[c], calls[c].request.fact)
    BY <1>1, <2>1 DEF CheckSound
  <2>. QED
    BY <2>1, <2>2, Step_Fails, Step_Place
<1>4. CASE StoreFails(c)
  BY <1>4, Step_Fails DEF StoreFails, Working
<1>. QED
  BY <1>2, <1>3, <1>4

(* A fact that was deleted before it was read again counts as deleted.     *)
LEMMA Step_Confirm ==
  ASSUME CommandsInv, NEW c \in Calls, Confirm(c)
  PROVE  CommandsInv'
<1>1. /\ calls[c].pc = "confirming" /\ calls[c].request.tool = "add"
      /\ calls[c].writes = 1 /\ Len(calls[c].request.items) = 1
      /\ calls[c].request \in Requests
      /\ UNCHANGED <<registry, servers, memory, managers>>
  BY CallFacts DEF Confirm, Working, WritesSound, ToolSound
<1>2. DOMAIN calls[c].request.items = {1}
  <2>1. calls[c].request.items \in Seq([source : SourceIds \cup {None}])
    BY <1>1, CommandsAssumption DEF RequestRecords
  <2>. QED
    BY <1>1, <2>1
<1>3. AddedBy(c) = {<<c, 1>>}
  <2>1. AddedBy(c) = {<<c, i>> : i \in DOMAIN calls[c].request.items}
    BY <1>1, CallFacts DEF CallSound, AddedSound
  <2>. QED
    BY <1>2, <2>1
<1>4. CASE Finish(c, "done")
  BY <1>1, <1>4, Step_Finish
<1>5. CASE memory[<<c, 1>>].tier = "gone" /\ Finish(c, "failed")
  <2>1. Deleted(c)
    BY <1>3, <1>5 DEF Deleted
  <2>. QED
    BY <1>1, <1>5, <2>1, Step_Finish
<1>. QED
  BY <1>4, <1>5 DEF Confirm

(* The server stops, or the process does, or the answer is given.          *)
LEMMA Step_Ends ==
  ASSUME CommandsInv, NEW c \in Calls, Lost(c) \/ Dies(c) \/ Answer(c)
  PROVE  CommandsInv'
<1>1. CASE Lost(c)
  <2>1. calls[c].pc # "unissued"
    BY <1>1, CallFacts DEF Lost, WritesSound, Own
  <2>. QED
    BY <1>1, <2>1, NoneApart, Step_Told DEF Lost, AnswerLost
<1>2. CASE Dies(c)
  BY <1>2, NoneApart, Step_Told DEF Dies
<1>3. CASE Answer(c)
  <2>1. /\ calls[c].pc = "answering"
        /\ UNCHANGED <<registry, servers, memory, managers>>
        /\ Told(c, Reported(calls[c]))
        /\ OutcomeSound(c) /\ calls[c] \in CallRecords
    BY <1>3, CallFacts DEF Answer, Working, CallSound, ProgressSound
  <2>2. CASE Heard(calls[c])
    <3>1. Reported(calls[c]) = calls[c].outcome
      BY <2>2 DEF Heard, Reported
    <3>2. calls[c].outcome \in {"done", "failed", "nothing", None}
      BY <2>1 DEF CallRecords
    <3>. QED
      BY <2>1, <3>1, <3>2, Step_Told DEF OutcomeSound
  <2>3. CASE ~Heard(calls[c])
    <3>1. Reported(calls[c]) = "done"
      BY <2>3 DEF Heard, Reported
    <3>. QED
      BY <2>1, <2>3, <3>1, Step_Told
  <2>. QED
    BY <2>2, <2>3
<1>. QED
  BY <1>1, <1>2, <1>3

(* Steps of servers and of managers, who change neither facts nor calls.   *)
LEMMA WorldChanges ==
  ASSUME CommandsInv, UNCHANGED <<memory, calls>>, ServersKeep,
         registry' \in Registrations \cup {None},
         servers' \in Seq(ServerRecords),
         managers' \in [Managers -> ManagerRecords],
         RegistrySound', \A m \in Managers : ManagerSound(m)'
  PROVE  CommandsInv'
<1>1. CommandsTypeOK'
  BY DEF CommandsInv, CommandsTypeOK
<1>2. SeedsSound'
  BY DEF CommandsInv, SeedsSound
<1>3. ASSUME NEW c \in Calls
      PROVE  CallSound(c)'
  <2>1. CallSound(c) /\ calls'[c] = calls[c]
    BY DEF CommandsInv
  <2>. QED
    BY <2>1, AddedStays, CallStays
<1>. QED
  BY <1>1, <1>2, <1>3 DEF CommandsInv

(* A registration survives what servers do.                                *)
LEMMA RegistryStays ==
  ASSUME RegistrySound, ServersKeep, UNCHANGED registry
  PROVE  RegistrySound'
BY DEF RegistrySound, ServersKeep

(* So does what a manager knows of the server it spawned.                  *)
LEMMA ManagerStays ==
  ASSUME NEW m \in Managers, ManagerSound(m), ServersKeep,
         managers'[m] = managers[m]
  PROVE  ManagerSound(m)'
BY DEF ManagerSound, ServersKeep

(* A server goes into another state, and does not come back.               *)
LEMMA StateChanges ==
  ASSUME CommandsInv, NEW pid, NEW state \in {"starting", "serving", "dead"},
         servers' = [servers EXCEPT ![pid].state = state],
         servers[pid].state = "dead" => state = "dead"
  PROVE  servers' \in Seq(ServerRecords) /\ ServersKeep
<1>1. servers \in Seq(ServerRecords)
  BY DEF CommandsInv, CommandsTypeOK
<1>2. /\ Len(servers) \in Nat /\ DOMAIN servers = 1 .. Len(servers)
      /\ \A n \in DOMAIN servers : servers[n] \in ServerRecords
  BY <1>1
<1>3. \A n \in DOMAIN servers :
        /\ servers'[n] \in ServerRecords
        /\ servers'[n].store = servers[n].store
        /\ servers'[n].port = servers[n].port
        /\ servers'[n].bound = servers[n].bound
        /\ servers[n].state = "dead" => servers'[n].state = "dead"
  <2>. TAKE n \in DOMAIN servers
  <2>1. CASE n = pid
    <3>1. servers'[n] = [servers[n] EXCEPT !.state = state]
      BY <2>1
    <3>. QED
      BY <1>2, <2>1, <3>1 DEF ServerRecords
  <2>2. CASE n # pid
    <3>1. servers'[n] = servers[n]
      BY <2>2
    <3>. QED
      BY <1>2, <3>1
  <2>. QED
    BY <2>1, <2>2
<1>4. servers' = [n \in DOMAIN servers |-> servers'[n]]
  OBVIOUS
<1>5. DOMAIN servers' = DOMAIN servers
  OBVIOUS
<1>6. servers' \in Seq(ServerRecords)
  <2>1. servers' \in [1 .. Len(servers) -> ServerRecords]
    BY <1>2, <1>3, <1>4
  <2>. QED
    BY <1>2, <2>1
<1>7. ServersKeep
  BY <1>3, <1>5 DEF ServersKeep, Pids
<1>. QED
  BY <1>6, <1>7

(* A server that is spawned is the last one, as it was ordered.            *)
LEMMA ServerSpawned ==
  ASSUME CommandsInv, NEW store \in Stores, NEW port \in Ports,
         NEW bound \in SourceIds \cup {None}, Spawned(store, port, bound)
  PROVE  /\ servers' \in Seq(ServerRecords)
         /\ ServersKeep
         /\ Len(servers) + 1 \in Pids'
         /\ servers'[Len(servers) + 1].store = store
         /\ servers'[Len(servers) + 1].port = port
<1> DEFINE server == [store |-> store, port |-> port, bound |-> bound,
                      state |-> "starting"]
<1>1. servers \in Seq(ServerRecords)
  BY DEF CommandsInv, CommandsTypeOK
<1>2. server \in ServerRecords /\ server.store = store /\ server.port = port
  BY DEF ServerRecords
<1>3. servers' = Append(servers, server)
  BY DEF Spawned
<1> HIDE DEF server
<1>4. /\ servers' \in Seq(ServerRecords)
      /\ Len(servers) \in Nat /\ DOMAIN servers = 1 .. Len(servers)
      /\ DOMAIN servers' = 1 .. (Len(servers) + 1)
      /\ \A n \in 1 .. Len(servers) : servers'[n] = servers[n]
      /\ servers'[Len(servers) + 1] = server
  BY <1>1, <1>2, <1>3
<1>5. ServersKeep
  BY <1>4 DEF ServersKeep, Pids
<1>. QED
  BY <1>2, <1>4, <1>5 DEF Pids

(* Servers start, listen and stop.                                         *)
LEMMA Step_Servers ==
  ASSUME CommandsInv,
         \/ \E pid \in Pids : Listen(pid) \/ Crash(pid)
         \/ \E server \in Foreign : RunServer(server)
  PROVE  CommandsInv'
<1>1. UNCHANGED <<registry, memory, calls, managers>>
  BY DEF Listen, Crash, RunServer
<1>2. servers' \in Seq(ServerRecords) /\ ServersKeep
  <2>1. ASSUME NEW pid \in Pids, Listen(pid) \/ Crash(pid)
        PROVE  servers' \in Seq(ServerRecords) /\ ServersKeep
    <3>1. /\ servers[pid].state # "dead"
          /\ \E state \in {"serving", "dead"} :
               servers' = [servers EXCEPT ![pid].state = state]
      BY <2>1 DEF Listen, Crash
    <3>. QED
      BY <3>1, StateChanges
  <2>2. ASSUME NEW server \in Foreign, RunServer(server)
        PROVE  servers' \in Seq(ServerRecords) /\ ServersKeep
    <3>1. /\ server.store \in Stores /\ server.port \in Ports
          /\ server.bound \in SourceIds \cup {None}
      BY CommandsAssumption DEF ServerOrders
    <3>. QED
      BY <2>2, <3>1, ServerSpawned DEF RunServer
  <2>. QED
    BY <2>1, <2>2
<1>3. RegistrySound'
  BY <1>1, <1>2, RegistryStays DEF CommandsInv
<1>4. \A m \in Managers : ManagerSound(m)'
  BY <1>1, <1>2, ManagerStays DEF CommandsInv
<1>5. /\ registry \in Registrations \cup {None}
      /\ managers \in [Managers -> ManagerRecords]
  BY DEF CommandsInv, CommandsTypeOK
<1>. QED
  BY <1>1, <1>2, <1>3, <1>4, <1>5, WorldChanges

(* A step of one manager.                                                  *)
LEMMA ManagerChanges ==
  ASSUME CommandsInv, NEW m \in Managers, NEW next \in ManagerRecords,
         managers' = [managers EXCEPT ![m] = next],
         UNCHANGED <<memory, calls>>, ServersKeep,
         registry' \in Registrations \cup {None},
         servers' \in Seq(ServerRecords),
         RegistrySound', ManagerSound(m)'
  PROVE  CommandsInv'
<1>1. managers \in [Managers -> ManagerRecords]
  BY DEF CommandsInv, CommandsTypeOK
<1>2. managers' \in [Managers -> ManagerRecords]
  BY <1>1
<1>3. ASSUME NEW n \in Managers, n # m
      PROVE  ManagerSound(n)'
  BY <1>1, <1>3, ManagerStays DEF CommandsInv
<1>. QED
  BY <1>2, <1>3, WorldChanges

(* Where no server changes they keep what they are.                        *)
LEMMA StillServers ==
  ASSUME CommandsInv, UNCHANGED servers
  PROVE  servers' \in Seq(ServerRecords) /\ ServersKeep
BY DEF CommandsInv, CommandsTypeOK, ServersKeep, Pids

(* A manager that does nothing.                                            *)
LEMMA IdleFields ==
  /\ IdleManager.store = None /\ IdleManager.port = None
  /\ IdleManager.bound = None /\ IdleManager.known = None
  /\ IdleManager \in ManagerRecords
BY DEF IdleManager, ManagerRecords

(* What every manager brings along.                                        *)
LEMMA ManagerFacts ==
  ASSUME CommandsInv, NEW m \in Managers
  PROVE  /\ managers[m] \in ManagerRecords
         /\ ManagerSound(m)
         /\ registry \in Registrations \cup {None}
         /\ RegistrySound
BY DEF CommandsInv, CommandsTypeOK

(* A manager that looks, or is done, and leaves the servers alone.         *)
LEMMA Step_Rests ==
  ASSUME CommandsInv, NEW m \in Managers, NEW next \in ManagerRecords,
         managers' = [managers EXCEPT ![m] = next],
         UNCHANGED <<servers, memory, calls>>,
         registry' \in {registry, None},
         next.pc # "waiting",
         next.pc \in {"spawning", "probing", "clearing"} =>
           next.store \in Stores
  PROVE  CommandsInv'
<1>1. managers'[m] = next
  BY DEF CommandsInv, CommandsTypeOK
<1>2. ManagerSound(m)'
  BY <1>1 DEF ManagerSound
<1>3. RegistrySound' /\ registry' \in Registrations \cup {None}
  BY ManagerFacts, StillServers, RegistryStays DEF RegistrySound
<1>. QED
  BY <1>2, <1>3, StillServers, ManagerChanges

(* A start reads the registration first.                                   *)
LEMMA Step_StartLook ==
  ASSUME CommandsInv, NEW m \in Managers, NEW order \in Orders, order.start,
         StartLook(m, order)
  PROVE  CommandsInv'
<1> DEFINE next(pc) == [IdleManager EXCEPT !.pc = pc, !.store = order.store,
                                  !.port = order.port, !.bound = order.bound,
                                  !.known = registry]
<1>1. /\ order.store \in Stores
      /\ order.port \in Ports \cup {None}
      /\ order.bound \in SourceIds \cup {None}
  BY CommandsAssumption
<1>2. ASSUME NEW pc \in {"spawning", "probing", "clearing"}
      PROVE  /\ next(pc) \in ManagerRecords
             /\ next(pc).pc = pc /\ next(pc).store = order.store
  BY <1>1, ManagerFacts DEF IdleManager, ManagerRecords
<1>3. \E pc \in {"spawning", "probing", "clearing"} :
        managers' = [managers EXCEPT ![m] = next(pc)]
  BY DEF StartLook
<1>4. UNCHANGED <<registry, servers, memory, calls>>
  BY DEF StartLook
<1> HIDE DEF next
<1>5. PICK pc \in {"spawning", "probing", "clearing"} :
        managers' = [managers EXCEPT ![m] = next(pc)]
  BY <1>3
<1>6. next(pc).pc # "waiting"
  BY <1>2
<1>. QED
  BY <1>1, <1>2, <1>4, <1>5, <1>6, Step_Rests

(* A manager goes on to where it touches no server.                        *)
LEMMA Step_GoOn ==
  ASSUME CommandsInv, NEW m \in Managers,
         NEW pc \in {"spawning", "clearing", "deleting", "over"},
         GoOn(m, pc), UNCHANGED <<servers, memory, calls>>,
         registry' \in {registry, None},
         pc \in {"spawning", "clearing"} =>
           managers[m].pc \in {"probing", "clearing"}
  PROVE  CommandsInv'
<1> DEFINE next == [managers[m] EXCEPT !.pc = pc]
<1>1. /\ next \in ManagerRecords
      /\ next.pc = pc /\ next.store = managers[m].store
  BY ManagerFacts DEF ManagerRecords
<1>2. managers' = [managers EXCEPT ![m] = next]
  BY DEF GoOn
<1>3. pc \in {"spawning", "clearing"} => managers[m].store \in Stores
  BY ManagerFacts DEF ManagerSound
<1> HIDE DEF next
<1>4. next.pc # "waiting" /\ next.pc # "probing"
  BY <1>1
<1>. QED
  BY <1>1, <1>2, <1>3, <1>4, Step_Rests

(* What is spawned is what registers later.                                *)
LEMMA Step_StartSpawn ==
  ASSUME CommandsInv, NEW m \in Managers, StartSpawn(m)
  PROVE  CommandsInv'
<1>1. PICK port \in Ports :
        /\ Spawned(managers[m].store, port, managers[m].bound)
        /\ managers' = [managers EXCEPT ![m] =
             [managers[m] EXCEPT !.pc = "waiting", !.port = port,
                                 !.pid = Len(servers) + 1]]
  BY DEF StartSpawn
<1> DEFINE number == Len(servers) + 1
           next == [managers[m] EXCEPT !.pc = "waiting", !.port = port,
                                       !.pid = number]
<1>2. managers[m].pc = "spawning" /\ UNCHANGED <<registry, memory, calls>>
  BY DEF StartSpawn
<1>3. /\ managers[m].store \in Stores
      /\ managers[m].bound \in SourceIds \cup {None}
  BY <1>2, ManagerFacts DEF ManagerSound, ManagerRecords
<1>4. number \in Nat
  BY DEF CommandsInv, CommandsTypeOK
<1> HIDE DEF number
<1>5. /\ next \in ManagerRecords
      /\ next.pc = "waiting" /\ next.port = port
      /\ next.store = managers[m].store /\ next.pid = number
  BY <1>4, ManagerFacts DEF ManagerRecords
<1>6. /\ servers' \in Seq(ServerRecords)
      /\ ServersKeep
      /\ number \in Pids'
      /\ servers'[number].store = managers[m].store
      /\ servers'[number].port = port
  BY <1>1, <1>3, ServerSpawned DEF number
<1>7. managers' = [managers EXCEPT ![m] = next]
  BY <1>1 DEF number
<1> HIDE DEF next
<1>8. managers'[m] = next
  BY <1>7 DEF CommandsInv, CommandsTypeOK
<1>9. ManagerSound(m)'
  BY <1>5, <1>6, <1>8 DEF ManagerSound
<1>10. RegistrySound' /\ registry' \in Registrations \cup {None}
  BY <1>2, <1>6, ManagerFacts, RegistryStays
<1>. QED
  BY <1>2, <1>5, <1>6, <1>7, <1>9, <1>10, ManagerChanges

(* The process that was spawned is registered.                             *)
LEMMA Step_StartRegister ==
  ASSUME CommandsInv, NEW m \in Managers, StartRegister(m)
  PROVE  CommandsInv'
<1> DEFINE next == [managers[m] EXCEPT !.pc = "over"]
           entry == [port |-> managers[m].port, pid |-> managers[m].pid,
                     store |-> managers[m].store]
<1>1. /\ managers[m].pc = "waiting"
      /\ managers' = [managers EXCEPT ![m] = next]
      /\ registry' \in {registry, entry}
      /\ UNCHANGED <<servers, memory, calls>>
  BY DEF StartRegister, GoOn
<1>2. /\ managers[m].pid \in Pids
      /\ servers[managers[m].pid].port = managers[m].port
      /\ servers[managers[m].pid].store = managers[m].store
  BY <1>1, ManagerFacts DEF ManagerSound
<1>3. managers[m].port \in Ports /\ managers[m].store \in Stores
  <2>1. servers[managers[m].pid] \in ServerRecords
    BY <1>2 DEF Pids, CommandsInv, CommandsTypeOK
  <2>. QED
    BY <1>2, <2>1 DEF ServerRecords
<1>4. next \in ManagerRecords /\ next.pc = "over"
  BY ManagerFacts DEF ManagerRecords
<1>5. /\ entry \in Registrations
      /\ entry.port = managers[m].port /\ entry.pid = managers[m].pid
      /\ entry.store = managers[m].store
  BY <1>3, ManagerFacts DEF Registrations, ManagerRecords
<1> HIDE DEF next, entry
<1>6. managers'[m] = next
  BY <1>1 DEF CommandsInv, CommandsTypeOK
<1>7. ManagerSound(m)'
  BY <1>4, <1>6 DEF ManagerSound
<1>8. RegistrySound' /\ registry' \in Registrations \cup {None}
  <2>1. CASE registry' = registry
    BY <1>1, <2>1, ManagerFacts, StillServers, RegistryStays
  <2>2. CASE registry' = entry
    BY <1>1, <1>2, <1>5, <2>2 DEF RegistrySound, Pids
  <2>. QED
    BY <1>1, <2>1, <2>2
<1>. QED
  BY <1>1, <1>4, <1>7, <1>8, StillServers, ManagerChanges

(* A stop reads the process id.                                            *)
LEMMA Step_StopLoad ==
  ASSUME CommandsInv, NEW m \in Managers, StopLoad(m)
  PROVE  CommandsInv'
<1> DEFINE next == [IdleManager EXCEPT !.pc = "killing", !.pid = registry.pid]
<1>1. /\ registry # None
      /\ managers' = [managers EXCEPT ![m] = next]
      /\ UNCHANGED <<registry, servers, memory, calls>>
  BY DEF StopLoad
<1>2. registry.pid \in Nat
  BY <1>1, ManagerFacts DEF Registrations
<1>3. next \in ManagerRecords /\ next.pc = "killing"
  BY <1>2 DEF IdleManager, ManagerRecords
<1> HIDE DEF next
<1>. QED
  BY <1>1, <1>3, Step_Rests

(* A stop kills whoever has that process id.                               *)
LEMMA Step_StopKill ==
  ASSUME CommandsInv, NEW m \in Managers, StopKill(m)
  PROVE  CommandsInv'
<1> DEFINE next == [managers[m] EXCEPT !.pc = "deleting"]
<1>1. /\ managers' = [managers EXCEPT ![m] = next]
      /\ UNCHANGED <<registry, memory, calls>>
      /\ servers' = [servers EXCEPT ![managers[m].pid].state = "dead"]
  BY DEF StopKill, GoOn
<1>2. servers' \in Seq(ServerRecords) /\ ServersKeep
  BY <1>1, StateChanges
<1>3. next \in ManagerRecords /\ next.pc = "deleting"
  BY ManagerFacts DEF ManagerRecords
<1> HIDE DEF next
<1>4. managers'[m] = next
  BY <1>1 DEF CommandsInv, CommandsTypeOK
<1>5. ManagerSound(m)'
  BY <1>3, <1>4 DEF ManagerSound
<1>6. RegistrySound' /\ registry' \in Registrations \cup {None}
  BY <1>1, <1>2, ManagerFacts, RegistryStays
<1>. QED
  BY <1>1, <1>2, <1>3, <1>5, <1>6, ManagerChanges

(* What a manager may do next.                                             *)
LEMMA Step_Managers ==
  ASSUME CommandsInv, NEW m \in Managers,
         \/ \E order \in Orders :
              \/ order.start /\ StartLook(m, order)
              \/ ~order.start /\ StopLoad(m)
         \/ StartProbe(m)
         \/ StartClear(m)
         \/ StartSpawn(m)
         \/ StartRegister(m)
         \/ StopKill(m)
         \/ StopDelete(m)
  PROVE  CommandsInv'
<1>1. CASE StartProbe(m)
  BY <1>1, Step_GoOn DEF StartProbe
<1>2. CASE StartClear(m)
  BY <1>2, Step_GoOn DEF StartClear
<1>3. CASE StopDelete(m)
  BY <1>3, Step_GoOn DEF StopDelete
<1>. QED
  BY <1>1, <1>2, <1>3, Step_StartLook, Step_StopLoad, Step_StartSpawn,
     Step_StartRegister, Step_StopKill

(* A tool that writes a fact leaves it where and whose it was.             *)
LEMMA WrittenFields ==
  ASSUME NEW c \in Calls, NEW id, memory[id] \in FactRecords,
         calls[c] \in CallRecords, calls[c].request \in Requests,
         calls[c].request.tool # "add"
  PROVE  /\ Written(c, id) \in FactRecords
         /\ Written(c, id).store = memory[id].store
         /\ Written(c, id).source = memory[id].source
         /\ Written(c, id).by = memory[id].by
<1>1. /\ calls[c].request.tool \in Tools \ {"add"}
      /\ calls[c].request.other \in FactIds \cup {None}
  BY CommandsAssumption DEF RequestRecords
<1>2. calls[c].seen \cup {c} \in SUBSET Calls
  BY DEF CallRecords
<1>3. CASE calls[c].request.tool = "supersede"
  BY <1>1, <1>3 DEF Written, FactRecords
<1>4. CASE calls[c].request.tool = "edit"
  BY <1>2, <1>4 DEF Written, FactRecords
<1>5. CASE calls[c].request.tool = "pin"
  BY <1>5 DEF Written, FactRecords
<1>6. CASE calls[c].request.tool = "delete"
  BY <1>6 DEF Written, FactRecords
<1>7. CASE calls[c].request.tool = "archive"
  BY <1>7 DEF Written, FactRecords
<1>. QED
  BY <1>1, <1>3, <1>4, <1>5, <1>6, <1>7 DEF Tools

(* One fact is written over, and stays in its store and source.            *)
Overwrites(c) ==
  LET id == calls[c].request.fact
  IN  /\ id \in DOMAIN memory
      /\ memory[id].tier # "gone"
      /\ memory' = [memory EXCEPT ![id] = Written(c, id)]

(* So nothing moves, and nothing comes back.                               *)
LEMMA OverwriteKeeps ==
  ASSUME CommandsInv, NEW c \in Calls, Overwrites(c),
         calls[c].request \in Requests, calls[c].request.tool # "add"
  PROVE  /\ DOMAIN memory' = DOMAIN memory
         /\ memory' \in [DOMAIN memory -> FactRecords]
         /\ MemoryKeeps
         /\ \A d \in Calls : AddedBy(d)' = AddedBy(d)
<1> DEFINE id == calls[c].request.fact
<1>1. /\ id \in DOMAIN memory
      /\ memory[id].tier # "gone"
      /\ memory' = [memory EXCEPT ![id] = Written(c, id)]
  BY DEF Overwrites
<1>2. memory \in [DOMAIN memory -> FactRecords]
  BY DEF CommandsInv, CommandsTypeOK
<1>3. /\ Written(c, id) \in FactRecords
      /\ Written(c, id).store = memory[id].store
      /\ Written(c, id).source = memory[id].source
      /\ Written(c, id).by = memory[id].by
  BY <1>1, <1>2, CallFacts, WrittenFields
<1> HIDE DEF id
<1>4. /\ DOMAIN memory' = DOMAIN memory
      /\ memory' \in [DOMAIN memory -> FactRecords]
      /\ memory'[id] = Written(c, id)
      /\ \A other \in DOMAIN memory \ {id} : memory'[other] = memory[other]
  BY <1>1, <1>2, <1>3
<1>5. MemoryKeeps
  BY <1>1, <1>3, <1>4 DEF MemoryKeeps
<1>6. \A d \in Calls : AddedBy(d)' = AddedBy(d)
  BY <1>3, <1>4 DEF AddedBy
<1>. QED
  BY <1>4, <1>5, <1>6

(* A fact is written, or found to be gone or archived.                     *)
LEMMA Step_WriteFact ==
  ASSUME CommandsInv, NEW c \in Calls, WriteFact(c)
  PROVE  CommandsInv'
<1> DEFINE wrote == [calls[c] EXCEPT !.writes = @ + 1]
           next == [wrote EXCEPT !.pc = "answering", !.outcome = "done"]
<1>1. /\ calls[c] \in CallRecords /\ CallSound(c)
      /\ calls[c].pc = "writing" /\ calls[c].request.tool # "add"
      /\ calls[c].request \in Requests
      /\ calls[c].writes = 0 /\ calls[c].told = None
      /\ UNCHANGED <<registry, servers, managers>>
  BY CallFacts DEF WriteFact, Working, WritesSound, ToolSound
<1>2. CASE UNCHANGED memory /\ (Finish(c, "nothing") \/ Finish(c, "failed"))
  BY <1>1, <1>2, Step_Fails, Step_Finish
<1>3. CASE Overwrites(c) /\ Change(c, next)
  <2>0. wrote = [calls[c] EXCEPT !.writes = 1]
    BY <1>1
  <2> HIDE DEF wrote
  <2>1. /\ next \in CallRecords /\ next.pc = "answering"
        /\ next.outcome = "done" /\ next.writes = 1
        /\ next.request = calls[c].request /\ next.port = calls[c].port
        /\ next.host = calls[c].host /\ next.source = calls[c].source
        /\ next.told = None
    BY <1>1, <2>0 DEF CallRecords
  <2> HIDE DEF next
  <2>2. /\ DOMAIN memory' = DOMAIN memory
        /\ memory' \in [DOMAIN memory -> FactRecords]
        /\ MemoryKeeps
        /\ \A d \in Calls : AddedBy(d)' = AddedBy(d)
    BY <1>1, <1>3, OverwriteKeeps
  <2>3. /\ calls \in [Calls -> CallRecords]
        /\ calls' = [calls EXCEPT ![c] = next]
        /\ calls'[c] = next
    BY <1>3 DEF Change, CommandsInv, CommandsTypeOK
  <2>4. CommandsTypeOK'
    BY <1>1, <2>1, <2>2, <2>3 DEF CommandsInv, CommandsTypeOK
  <2>5. ServersKeep
    BY <1>1, StillServers
  <2>6. RegistrySound' /\ \A m \in Managers : ManagerSound(m)'
    BY <1>1, <2>5, RegistryStays, ManagerStays DEF CommandsInv
  <2>7. SeedsSound'
    BY <2>2 DEF CommandsInv, SeedsSound, MemoryKeeps
  <2>8. ASSUME NEW d \in Calls, d # c
        PROVE  CallSound(d)'
    <3>1. calls'[d] = calls[d] /\ CallSound(d)
      BY <2>3, <2>8 DEF CommandsInv
    <3>. QED
      BY <2>2, <2>5, <3>1, CallStays
  <2>9. CallSound(c)'
    <3>1. ProgressSound(c)'
      <4>1. OutcomeSound(c)'
        BY <2>1, <2>3, NoneApart DEF OutcomeSound
      <4>2. WritesSound(c)'
        BY <1>1, <2>1, <2>3 DEF WritesSound
      <4>3. ToolSound(c)'
        BY <2>1, <2>3 DEF ToolSound
      <4>. QED
        BY <2>1, <2>3, <4>1, <4>2, <4>3 DEF ProgressSound
    <3>2. HostSound(c)'
      <4>1. HostSound(c)
        BY <1>1 DEF CallSound
      <4>2. \A port, store :
              Registered(port, store)' <=> Registered(port, store)
        BY <1>1 DEF Registered, Pids
      <4>3. Pids' = Pids
        BY <1>1 DEF Pids
      <4>. QED
        BY <1>1, <2>1, <2>3, <4>1, <4>2, <4>3
           DEF HostSound, Own, Overrides, Items
    <3>3. CheckSound(c)'
      BY <2>1, <2>3 DEF CheckSound
    <3>4. AddedSound(c)'
      <4>1. AddedBy(c)' = {}
        BY <1>1, <2>2 DEF CallSound, AddedSound
      <4>. QED
        BY <1>1, <2>1, <2>3, <4>1 DEF AddedSound
    <3>. QED
      BY <3>1, <3>2, <3>3, <3>4 DEF CallSound
  <2>. QED
    BY <2>4, <2>6, <2>7, <2>8, <2>9 DEF CommandsInv
<1>4. \/ UNCHANGED memory /\ (Finish(c, "nothing") \/ Finish(c, "failed"))
      \/ Overwrites(c) /\ Change(c, next)
  BY DEF WriteFact, Overwrites, Hot, Here
<1>. QED
  BY <1>2, <1>3, <1>4

(* What a call adds, and whose each of its facts is.                       *)
NewIds(c) == {<<c, i>> : i \in DOMAIN calls[c].request.items}

ItemSource(c, id) ==
  LET own == calls[c].request.items[id[2]].source
  IN  IF own # None THEN own ELSE calls[c].source

NewFact(c, id) == Fact(Store(calls[c]), ItemSource(c, id), c)

Adds(c) ==
  memory' = [id \in DOMAIN memory \cup NewIds(c) |->
              IF id \in NewIds(c) THEN NewFact(c, id) ELSE memory[id]]

(* The new facts are in the store of the call, and have a source it named. *)
LEMMA NewFacts ==
  ASSUME CommandsInv, NEW c \in Calls,
         calls[c].pc = "adding", calls[c].request \in Requests
  PROVE  \A id \in NewIds(c) :
           /\ id \in Calls \X Nat
           /\ ItemSource(c, id) \in
                {calls[c].source} \cup
                ({item.source : item \in Items(calls[c].request)} \ {None})
           /\ NewFact(c, id) \in FactRecords
           /\ NewFact(c, id).store = Store(calls[c])
           /\ NewFact(c, id).source = ItemSource(c, id)
           /\ NewFact(c, id).by = c
<1> DEFINE items == calls[c].request.items
           store == Store(calls[c])
<1>1. items \in Seq([source : SourceIds \cup {None}])
      /\ calls[c].request.store \in Stores
  BY CommandsAssumption DEF RequestRecords
<1>2. store \in Stores
  <2>1. CASE Own(calls[c])
    BY <1>1, <2>1 DEF Store
  <2>2. CASE ~Own(calls[c])
    <3>1. calls[c].host \in Pids
      BY <2>2, CallFacts DEF CallSound, HostSound
    <3>2. servers[calls[c].host] \in ServerRecords
      BY <3>1 DEF Pids, CommandsInv, CommandsTypeOK
    <3>. QED
      BY <2>2, <3>2 DEF Store, ServerRecords
  <2>. QED
    BY <2>1, <2>2
<1>3. calls[c].source \in SourceIds \cup {None}
  BY CallFacts DEF CallRecords
<1> SUFFICES ASSUME NEW i \in DOMAIN items
             PROVE  /\ <<c, i>> \in Calls \X Nat
                    /\ ItemSource(c, <<c, i>>) \in
                         {calls[c].source} \cup
                         ({item.source : item \in Items(calls[c].request)}
                            \ {None})
                    /\ NewFact(c, <<c, i>>) \in FactRecords
                    /\ NewFact(c, <<c, i>>).store = store
                    /\ NewFact(c, <<c, i>>).source = ItemSource(c, <<c, i>>)
                    /\ NewFact(c, <<c, i>>).by = c
  BY DEF NewIds
<1>4. i \in Nat
  BY <1>1
<1>5. items[i].source \in SourceIds \cup {None}
  <2> DEFINE shape == [source : SourceIds \cup {None}]
  <2>1. items \in Seq(shape) /\ i \in DOMAIN items
    BY <1>1
  <2> HIDE DEF shape, items
  <2>2. items[i] \in shape
    BY <2>1
  <2>. QED
    BY <2>2 DEF shape
<1>6. items[i] \in Items(calls[c].request)
  BY DEF Items
<1> DEFINE source == ItemSource(c, <<c, i>>)
<1>7. source = IF items[i].source # None THEN items[i].source
               ELSE calls[c].source
  BY DEF ItemSource
<1>8. source \in SourceIds \cup {None}
  BY <1>3, <1>5, <1>7
<1>9. source \in {calls[c].source} \cup
        ({item.source : item \in Items(calls[c].request)} \ {None})
  BY <1>6, <1>7
<1> HIDE DEF source, store
<1>10. NewFact(c, <<c, i>>) = Fact(store, source, c)
  BY DEF NewFact, store, source
<1>11. /\ Fact(store, source, c) \in FactRecords
       /\ Fact(store, source, c).store = store
       /\ Fact(store, source, c).source = source
       /\ Fact(store, source, c).by = c
  BY <1>2, <1>8 DEF Fact, FactRecords
<1>. QED
  BY <1>4, <1>9, <1>10, <1>11 DEF source

(* Nobody else has these ids.                                              *)
LEMMA NewIdsAreNew ==
  ASSUME CommandsInv, NEW c \in Calls,
         calls[c].pc = "adding", calls[c].request \in Requests
  PROVE  NewIds(c) \cap DOMAIN memory = {}
<1> SUFFICES ASSUME NEW id \in NewIds(c), id \in DOMAIN memory
             PROVE  FALSE
  OBVIOUS
<1>1. PICK i \in DOMAIN calls[c].request.items : id = <<c, i>>
  BY DEF NewIds
<1>2. id \in Calls \X Nat
  BY NewFacts
<1>3. memory[id] \in FactRecords
  BY DEF CommandsInv, CommandsTypeOK
<1>4. memory[id].by # None
  BY <1>2, SeedsAssumption DEF CommandsInv, SeedsSound
<1>5. memory[id].by \in Calls
  BY <1>3, <1>4 DEF FactRecords
<1>6. PICK d \in Calls : id \in AddedBy(d)
  BY <1>5 DEF AddedBy
<1>7. /\ calls[d].writes = 1
      /\ \E j \in DOMAIN calls[d].request.items : id = <<d, j>>
  BY <1>6, CallFacts DEF CallSound, AddedSound
<1>8. d = c
  BY <1>1, <1>7
<1>9. calls[c].writes = 0
  BY CallFacts DEF WritesSound
<1>. QED
  BY <1>7, <1>8, <1>9

(* So what was there stays as it is, and the new facts are the call's.     *)
LEMMA AddKeeps ==
  ASSUME CommandsInv, NEW c \in Calls, Adds(c),
         calls[c].pc = "adding", calls[c].request \in Requests
  PROVE  /\ DOMAIN memory' \subseteq FactIds
         /\ memory' \in [DOMAIN memory' -> FactRecords]
         /\ MemoryKeeps
         /\ AddedBy(c)' = NewIds(c)
         /\ \A d \in Calls \ {c} : AddedBy(d)' = AddedBy(d)
         /\ \A id \in NewIds(c) : memory'[id] = NewFact(c, id)
         /\ SeedsSound'
<1>1. NewIds(c) \cap DOMAIN memory = {}
  BY NewIdsAreNew
<1>2. \A id \in NewIds(c) :
        /\ id \in Calls \X Nat
        /\ NewFact(c, id) \in FactRecords
        /\ NewFact(c, id).by = c
  BY NewFacts
<1>3. /\ DOMAIN memory \subseteq FactIds
      /\ memory \in [DOMAIN memory -> FactRecords]
  BY DEF CommandsInv, CommandsTypeOK
<1>4. DOMAIN memory' = DOMAIN memory \cup NewIds(c)
  BY DEF Adds
<1>5. \A id \in NewIds(c) : memory'[id] = NewFact(c, id)
  BY DEF Adds
<1>6. \A id \in DOMAIN memory : memory'[id] = memory[id]
  BY <1>1 DEF Adds
<1>7. memory' = [id \in DOMAIN memory' |-> memory'[id]]
  BY DEF Adds
<1>8. \A id \in DOMAIN memory' : memory'[id] \in FactRecords
  BY <1>2, <1>3, <1>4, <1>5, <1>6
<1>9. memory' \in [DOMAIN memory' -> FactRecords]
  BY <1>7, <1>8
<1>10. DOMAIN memory' \subseteq FactIds
  BY <1>2, <1>3, <1>4 DEF FactIds
<1>11. MemoryKeeps
  BY <1>4, <1>6 DEF MemoryKeeps
<1>12. calls[c].writes = 0
  BY CallFacts DEF WritesSound
<1>13. AddedBy(c) = {}
  BY <1>12, CallFacts DEF CallSound, AddedSound
<1>14. AddedBy(c)' = NewIds(c)
  BY <1>2, <1>4, <1>5, <1>6, <1>13 DEF AddedBy
<1>15. ASSUME NEW d \in Calls \ {c}
       PROVE  AddedBy(d)' = AddedBy(d)
  BY <1>2, <1>4, <1>5, <1>6, <1>15 DEF AddedBy
<1>16. SeedsSound'
  BY <1>2, <1>4, <1>5, <1>6, NoneApart DEF SeedsSound, CommandsInv
<1>. QED
  BY <1>5, <1>9, <1>10, <1>11, <1>14, <1>15, <1>16

(* All the items are added, or none is.                                    *)
LEMMA Step_Add ==
  ASSUME CommandsInv, NEW c \in Calls, Add(c)
  PROVE  CommandsInv'
<1> DEFINE wrote == [calls[c] EXCEPT !.writes = @ + 1]
           place == IF Len(calls[c].request.items) = 1 THEN "confirming"
                    ELSE "answering"
           next == [calls[c] EXCEPT !.writes = @ + 1, !.pc = place,
                                    !.outcome = "done"]
<1>1. /\ calls[c] \in CallRecords /\ CallSound(c)
      /\ calls[c].pc = "adding" /\ calls[c].request.tool = "add"
      /\ calls[c].request \in Requests
      /\ calls[c].writes = 0 /\ calls[c].told = None
      /\ UNCHANGED <<registry, servers, managers>>
  BY CallFacts DEF Add, Working, WritesSound, ToolSound
<1>2. CASE UNCHANGED memory /\ Finish(c, "failed")
  BY <1>1, <1>2, Step_Fails
<1>3. CASE Adds(c) /\ Change(c, next)
  <2>1. next = [calls[c] EXCEPT !.writes = 1, !.pc = place,
                                !.outcome = "done"]
    BY <1>1
  <2>2. /\ place \in {"confirming", "answering"}
        /\ place = "confirming" => Len(calls[c].request.items) = 1
    OBVIOUS
  <2> HIDE DEF place, next
  <2>3. /\ next \in CallRecords /\ next.pc = place
        /\ next.outcome = "done" /\ next.writes = 1
        /\ next.request = calls[c].request /\ next.port = calls[c].port
        /\ next.host = calls[c].host /\ next.source = calls[c].source
        /\ next.told = None
    BY <1>1, <2>1, <2>2 DEF CallRecords
  <2>4. /\ DOMAIN memory' \subseteq FactIds
        /\ memory' \in [DOMAIN memory' -> FactRecords]
        /\ MemoryKeeps
        /\ AddedBy(c)' = NewIds(c)
        /\ \A d \in Calls \ {c} : AddedBy(d)' = AddedBy(d)
        /\ \A id \in NewIds(c) : memory'[id] = NewFact(c, id)
        /\ SeedsSound'
    BY <1>1, <1>3, AddKeeps
  <2>5. /\ calls \in [Calls -> CallRecords]
        /\ calls' = [calls EXCEPT ![c] = next]
        /\ calls'[c] = next
    BY <1>3 DEF Change, CommandsInv, CommandsTypeOK
  <2>6. CommandsTypeOK'
    BY <1>1, <2>3, <2>4, <2>5 DEF CommandsInv, CommandsTypeOK
  <2>7. ServersKeep
    BY <1>1, StillServers
  <2>8. RegistrySound' /\ \A m \in Managers : ManagerSound(m)'
    BY <1>1, <2>7, RegistryStays, ManagerStays DEF CommandsInv
  <2>9. ASSUME NEW d \in Calls, d # c
        PROVE  CallSound(d)'
    <3>1. calls'[d] = calls[d] /\ CallSound(d)
      BY <2>5, <2>9 DEF CommandsInv
    <3>. QED
      BY <2>4, <2>7, <2>9, <3>1, CallStays
  <2>10. CallSound(c)'
    <3>1. ProgressSound(c)'
      <4>1. OutcomeSound(c)'
        BY <2>3, <2>5, NoneApart DEF OutcomeSound
      <4>2. WritesSound(c)'
        BY <1>1, <2>2, <2>3, <2>5 DEF WritesSound
      <4>3. ToolSound(c)'
        BY <1>1, <2>2, <2>3, <2>5 DEF ToolSound
      <4>. QED
        BY <2>2, <2>3, <2>5, <4>1, <4>2, <4>3 DEF ProgressSound
    <3>2. HostSound(c)
      BY <1>1 DEF CallSound
    <3>3. /\ \A port, store :
               Registered(port, store)' <=> Registered(port, store)
          /\ \A port : Contended(port)' <=> Contended(port)
          /\ Pids' = Pids
      BY <1>1 DEF Registered, Contended, Pids
    <3>4. HostSound(c)'
      BY <1>1, <2>2, <2>3, <2>5, <3>2, <3>3
         DEF HostSound, Own, Overrides, Items
    <3>5. CheckSound(c)'
      BY <2>2, <2>3, <2>5 DEF CheckSound
    <3>6. calls[c].request.via # "mcp" =>
            \/ Store(calls[c]) = calls[c].request.store
            \/ Contended(calls[c].port)
      BY <1>1, <3>2 DEF Store, HostSound, Registered, Contended
    <3>7. \A id \in NewIds(c) : memory'[id].store = Store(calls[c])
      BY <1>1, <2>4, NewFacts
    <3>8. AddedSound(c)'
      BY <1>1, <2>2, <2>3, <2>4, <2>5, <3>3, <3>6, <3>7
         DEF AddedSound, NewIds
    <3>. QED
      BY <3>1, <3>4, <3>5, <3>8 DEF CallSound
  <2>. QED
    BY <2>4, <2>6, <2>8, <2>9, <2>10 DEF CommandsInv
<1>4. \/ UNCHANGED memory /\ Finish(c, "failed")
      \/ Adds(c) /\ Change(c, next)
  BY DEF Add, Adds, NewIds, NewFact, ItemSource
<1>. QED
  BY <1>2, <1>3, <1>4

(* The invariant holds before anything was called.                         *)
LEMMA CommandsStart == CommandsInit => CommandsInv
<1> SUFFICES ASSUME CommandsInit PROVE CommandsInv
  OBVIOUS
<1>1. CommandsTypeOK
  <2>1. /\ memory \in [DOMAIN memory -> FactRecords]
        /\ DOMAIN memory \subseteq FactIds
    <3>1. ASSUME NEW id \in DOMAIN Seeds
          PROVE  Fact(Seeds[id].store, Seeds[id].source, None) \in FactRecords
      BY SeedsAssumption DEF Fact, FactRecords
    <3>2. memory = [id \in DOMAIN Seeds |->
                     Fact(Seeds[id].store, Seeds[id].source, None)]
      BY DEF CommandsInit
    <3>. QED
      BY <3>1, <3>2 DEF FactIds
  <2>2. servers \in Seq(ServerRecords)
    <3>1. <<>> \in Seq(ServerRecords)
      OBVIOUS
    <3>. QED
      BY <3>1 DEF CommandsInit
  <2>3. calls \in [Calls -> CallRecords]
    <3>1. Unissued \in CallRecords
      BY UnissuedFields
    <3>. QED
      BY <3>1 DEF CommandsInit
  <2>4. managers \in [Managers -> ManagerRecords]
    BY IdleFields DEF CommandsInit
  <2>. QED
    BY <2>1, <2>2, <2>3, <2>4 DEF CommandsInit, CommandsTypeOK
<1>2. RegistrySound
  BY DEF CommandsInit, RegistrySound
<1>3. ASSUME NEW m \in Managers
      PROVE  ManagerSound(m)
  BY DEF CommandsInit, ManagerSound, IdleManager
<1>4. /\ DOMAIN memory = DOMAIN Seeds
      /\ \A id \in DOMAIN memory : memory[id].by = None
  BY DEF CommandsInit, Fact
<1>5. ASSUME NEW c \in Calls
      PROVE  CallSound(c)
  <2>1. /\ calls[c] = Unissued
        /\ Unissued.pc = "unissued" /\ Unissued.host = None
        /\ Unissued.source = None /\ Unissued.writes = 0
        /\ Unissued.told = None
    BY DEF CommandsInit, Unissued
  <2>2. AddedBy(c) = {}
    BY <1>4, NoneApart DEF AddedBy
  <2>3. ProgressSound(c)
    BY <2>1 DEF ProgressSound, WritesSound, ToolSound
  <2>4. HostSound(c) /\ CheckSound(c)
    BY <2>1 DEF HostSound, CheckSound, Own
  <2>5. AddedSound(c)
    BY <2>1, <2>2 DEF AddedSound
  <2>. QED
    BY <2>3, <2>4, <2>5 DEF CallSound
<1>. QED
  BY <1>1, <1>2, <1>3, <1>4, <1>5 DEF CommandsInv, SeedsSound

(* The invariant says nothing of what is outside of the variables.         *)
LEMMA CommandsStutter ==
  ASSUME CommandsInv, UNCHANGED commandVars
  PROVE  CommandsInv'
<1>1. UNCHANGED <<registry, servers, memory, calls, managers>>
  BY DEF commandVars
<1>2. RegistrySound'
  BY <1>1, StillServers, ManagerFacts, RegistryStays DEF CommandsInv
<1>3. \A m \in Managers : ManagerSound(m)'
  BY <1>1, StillServers, ManagerFacts, ManagerStays
<1>4. /\ registry \in Registrations \cup {None}
      /\ managers \in [Managers -> ManagerRecords]
  BY DEF CommandsInv, CommandsTypeOK
<1>. QED
  BY <1>1, <1>2, <1>3, <1>4, StillServers, WorldChanges

(* Every step keeps the invariant.                                         *)
LEMMA CommandsStep == CommandsInv /\ [CommandsNext]_commandVars => CommandsInv'
<1> SUFFICES ASSUME CommandsInv, CommandsNext \/ UNCHANGED commandVars
             PROVE  CommandsInv'
  OBVIOUS
<1>1. CASE UNCHANGED commandVars
  BY <1>1, CommandsStutter
<1>2. ASSUME NEW m \in Managers,
             \/ \E order \in Orders :
                  \/ order.start /\ StartLook(m, order)
                  \/ ~order.start /\ StopLoad(m)
             \/ StartProbe(m)
             \/ StartClear(m)
             \/ StartSpawn(m)
             \/ StartRegister(m)
             \/ StopKill(m)
             \/ StopDelete(m)
      PROVE  CommandsInv'
  BY <1>2, Step_Managers
<1>3. ASSUME NEW c \in Calls,
             \/ \E request \in Requests : Issue(c, request)
             \/ Look(c)
             \/ Probe(c)
             \/ Post(c)
             \/ Lost(c) \/ Dies(c) \/ Answer(c)
             \/ Check(c)
             \/ CheckBoth(c) \/ CompareOld(c) \/ FindNew(c) \/ StoreFails(c)
             \/ WriteFact(c)
             \/ Add(c)
             \/ Confirm(c)
      PROVE  CommandsInv'
  BY <1>3, Step_Issue, Step_Look, Step_Probe, Step_Post, Step_Ends, Step_Check,
     Step_Compare, Step_WriteFact, Step_Add, Step_Confirm
<1>. QED
  BY <1>1, <1>2, <1>3, Step_Servers DEF CommandsNext

(* The invariant holds in every state.                                     *)
THEOREM CommandsInvariance == CommandsSpec => []CommandsInv
<1>. QED
  BY CommandsStart, CommandsStep, PTL DEF CommandsSpec

(* As many facts as items.                                                 *)
LEMMA ItemCount ==
  ASSUME NEW c, NEW S, NEW items \in Seq(S)
  PROVE  Cardinality({<<c, i>> : i \in DOMAIN items}) = Len(items)
<1> DEFINE T == {<<c, i>> : i \in DOMAIN items}
           f == [i \in 1 .. Len(items) |-> <<c, i>>]
<1>1. Len(items) \in Nat /\ DOMAIN items = 1 .. Len(items)
  OBVIOUS
<1>2. /\ IsFiniteSet(1 .. Len(items))
      /\ Cardinality(1 .. Len(items)) = Len(items)
  BY <1>1, FS_Interval
<1>3. f \in Bijection(1 .. Len(items), T)
  <2>1. f \in [1 .. Len(items) -> T]
    BY <1>1
  <2>2. \A a, b \in 1 .. Len(items) : f[a] = f[b] => a = b
    OBVIOUS
  <2>3. \A t \in T : \E s \in 1 .. Len(items) : f[s] = t
    BY <1>1
  <2>. QED
    BY <2>1, <2>2, <2>3, Fun_IsBij
<1>4. ExistsBijection(1 .. Len(items), T)
  BY <1>3 DEF ExistsBijection
<1>. QED
  BY <1>2, <1>4, FS_Bijection

(* What daemon_tool_call and the commands report done was done once and in *)
(* the command's store; what they report failed was not done, unless the   *)
(* answer was lost or the fact deleted again; and tool_fact_add_many adds  *)
(* all of a list or nothing.                                               *)
THEOREM ReportsTell == CommandsSpec => []ReportsAreTrue
<1>1. ASSUME CommandsInv, NEW c \in Calls
      PROVE  /\ calls[c].writes <= 1
             /\ calls[c].told = "done" /\ Heard(calls[c]) =>
                  calls[c].writes = 1
             /\ calls[c].told = "nothing" => calls[c].writes = 0
             /\ calls[c].told = "failed" /\ calls[c].writes = 1 =>
                  \/ AnswerLost(calls[c])
                  \/ calls[c].request.tool = "add" /\ Deleted(c)
  <2>1. WritesSound(c) /\ ProgressSound(c)
    BY <1>1, CallFacts DEF CallSound
  <2>2. calls[c].writes \in {0, 1} /\ calls[c].writes <= 1
    BY <2>1 DEF WritesSound
  <2>3. calls[c].told # None => ReportSound(c)
    BY <2>1 DEF WritesSound, ProgressSound
  <2>. QED
    BY <2>2, <2>3, NoneApart DEF ReportSound
<1>2. ASSUME CommandsInv, NEW c \in Calls, calls[c].pc # "unissued",
             calls[c].request.tool = "add"
      PROVE  Cardinality(AddedBy(c))
               = calls[c].writes * Len(calls[c].request.items)
  <2>1. WritesSound(c) /\ AddedSound(c)
    BY <1>2, CallFacts DEF CallSound
  <2>2. calls[c].request.items \in Seq([source : SourceIds \cup {None}])
    BY <1>2, <2>1, CommandsAssumption DEF WritesSound, RequestRecords
  <2>3. CASE calls[c].writes = 1
    <3>1. Cardinality(AddedBy(c)) = Len(calls[c].request.items)
      BY <1>2, <2>1, <2>2, <2>3, ItemCount DEF AddedSound
    <3>. QED
      BY <2>2, <2>3, <3>1
  <2>4. CASE calls[c].writes = 0
    <3>1. AddedBy(c) = {}
      BY <2>1, <2>4 DEF AddedSound
    <3>. QED
      BY <2>2, <2>4, <3>1, FS_EmptySet
  <2>. QED
    BY <2>1, <2>3, <2>4 DEF WritesSound
<1>3. ASSUME CommandsInv, NEW c \in Calls, calls[c].pc # "unissued",
             calls[c].request.via # "mcp"
      PROVE  \A id \in AddedBy(c) :
               \/ memory[id].store = calls[c].request.store
               \/ Contended(calls[c].port)
  BY <1>3, CallFacts DEF CallSound, AddedSound
<1>4. CommandsInv => ReportsAreTrue
  BY <1>1, <1>2, <1>3 DEF ReportsAreTrue, Deleted
<1>. QED
  BY <1>4, CommandsInvariance, PTL

(* Two steps change facts: the one that writes one and the one that adds.  *)
LEMMA FactSteps ==
  ASSUME CommandsNext, memory' # memory
  PROVE  \E d \in Calls :
           /\ \E next : Change(d, next)
           /\ \/ calls[d].pc = "writing" /\ Overwrites(d)
              \/ calls[d].pc = "adding" /\ Adds(d)
<1>1. PICK d \in Calls : WriteFact(d) \/ Add(d)
  BY DEF CommandsNext, Listen, Crash, RunServer, StartLook, StopLoad,
     StartProbe, StartClear, StartSpawn, StartRegister, StopKill, StopDelete,
     Issue, Look, Probe, Post, Lost, Dies, Check, CheckBoth, StoreFails,
     CompareOld, FindNew, Confirm, Answer
<1>2. CASE WriteFact(d)
  <2>1. calls[d].pc = "writing" /\ Overwrites(d)
    BY <1>2 DEF WriteFact, Working, Overwrites, Hot, Here
  <2>2. \E next : Change(d, next)
    BY <1>2 DEF WriteFact, Finish
  <2>. QED
    BY <2>1, <2>2
<1>3. CASE Add(d)
  <2>1. calls[d].pc = "adding" /\ Adds(d)
    BY <1>3 DEF Add, Working, Adds, NewIds, NewFact, ItemSource
  <2>2. \E next : Change(d, next)
    BY <1>3 DEF Add, Finish
  <2>. QED
    BY <2>1, <2>2
<1>. QED
  BY <1>1, <1>2, <1>3

(* What a bound call changes is in its source, as it was when it looked.   *)
LEMMA BoundStep ==
  ASSUME CommandsInv, CommandsNext, NEW c \in Calls,
         calls'[c] # calls[c], ~Own(calls[c]),
         servers[calls[c].host].bound # None, NEW id \in DOMAIN memory'
  PROVE  \/ id \in DOMAIN memory /\ memory'[id] = memory[id]
         \/ memory'[id].source = servers[calls[c].host].bound
<1> DEFINE bound == servers[calls[c].host].bound
<1>1. /\ calls[c].source = bound
      /\ ~Overrides(calls[c].request, bound)
      /\ bound # None
  BY CallFacts DEF CallSound, HostSound
<1>2. CASE memory' = memory
  BY <1>2
<1>3. CASE memory' # memory
  <2>1. PICK d \in Calls :
          /\ \E next : Change(d, next)
          /\ \/ calls[d].pc = "writing" /\ Overwrites(d)
             \/ calls[d].pc = "adding" /\ Adds(d)
    BY <1>3, FactSteps
  <2>2. d = c
    BY <2>1 DEF Change, CommandsInv, CommandsTypeOK
  <2>3. calls[c].request \in Requests
    BY <2>1, <2>2, CallFacts DEF WritesSound
  <2>4. CASE calls[c].pc = "writing" /\ Overwrites(c)
    <3>1. calls[c].request.tool # "add"
      BY <2>4, CallFacts DEF ToolSound
    <3>2. memory[calls[c].request.fact].source = bound
      BY <1>1, <2>4, CallFacts DEF CallSound, CheckSound, Scoped
    <3>3. /\ DOMAIN memory' = DOMAIN memory
          /\ MemoryKeeps
      BY <2>3, <2>4, <3>1, OverwriteKeeps
    <3>4. id # calls[c].request.fact => memory'[id] = memory[id]
      BY <2>4, <3>3 DEF Overwrites
    <3>. QED
      BY <3>2, <3>3, <3>4 DEF MemoryKeeps
  <2>5. CASE calls[c].pc = "adding" /\ Adds(c)
    <3>1. CASE id \in NewIds(c)
      <4>1. memory'[id].source = ItemSource(c, id)
        BY <2>3, <2>5, <3>1, AddKeeps, NewFacts
      <4>2. \A item \in Items(calls[c].request) : item.source \in {None, bound}
        BY <1>1 DEF Overrides
      <4>3. ItemSource(c, id) = bound
        BY <1>1, <2>3, <2>5, <3>1, <4>2, NewFacts
      <4>. QED
        BY <4>1, <4>3
    <3>2. CASE id \notin NewIds(c)
      BY <2>5, <3>2 DEF Adds
    <3>. QED
      BY <3>1, <3>2
  <2>. QED
    BY <2>1, <2>2, <2>4, <2>5
<1>. QED
  BY <1>2, <1>3

(* A call that bind_request_identity bound to a source changes, and adds,  *)
(* facts of that source only.                                              *)
THEOREM BoundCallsAreConfined == CommandsSpec => BoundCallsStayInSource
<1>1. CommandsInv /\ [CommandsNext]_commandVars =>
        [\A c \in Calls :
           LET call == calls[c]
           IN  call' # call /\ ~Own(call) =>
                 LET bound == servers[call.host].bound
                 IN  bound # None =>
                       \A id \in DOMAIN memory' :
                         \/ id \in DOMAIN memory /\ memory'[id] = memory[id]
                         \/ memory'[id].source = bound]_commandVars
  BY BoundStep
<1>. QED
  BY <1>1, CommandsInvariance, PTL DEF CommandsSpec, BoundCallsStayInSource

(* Registry, servers, facts, calls and managers keep their types.          *)
THEOREM CommandsTypeCorrect == CommandsSpec => []CommandsTypeOK
<1>1. CommandsInv => CommandsTypeOK
  BY DEF CommandsInv
<1>. QED
  BY <1>1, CommandsInvariance, PTL
=============================================================================
