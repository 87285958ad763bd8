---------------------------- MODULE LedgerProofs ----------------------------
(***************************************************************************)
(* Proofs about the command ledger and its replicas.  First: the tables of *)
(* Ledger always describe one history, and the SQL transactions of         *)
(* LedgerTx implement it, for any number of connections and any set of     *)
(* commands.                                                               *)
(*                                                                         *)
(* Then, for every number of pulling processes, every batch size and every *)
(* set of commands: a replica's file is its actor's view of the history at *)
(* its cursor, and a pull that ends well has caught up.                    *)
(***************************************************************************)
EXTENDS LedgerTx, ReplicaRestore, WellFoundedInduction, TLAPS

LInv ==
  /\ TypeOK
  /\ FeedDense
  /\ ReceiptsMatchFeed
  /\ HeadsMatchFeed

(* The entry and the receipt a commit of c writes.                         *)
EntryOf(c) ==
  [id |-> c.id, actor |-> c.actor, resource |-> c.resource,
   seq |-> next_seq + 1, revision |-> revision[c.resource] + 1,
   document |-> c.document]

ReceiptOf(c) ==
  [actor |-> c.actor, fingerprint |-> c.fingerprint,
   resource |-> c.resource, seq |-> next_seq + 1,
   revision |-> revision[c.resource] + 1]

LEMMA CommandFields ==
  ASSUME NEW c \in Commands
  PROVE  /\ c.id \in CommandIds /\ c.actor \in Actors
         /\ c.fingerprint \in Fingerprints /\ c.resource \in Resources
         /\ c.expected \in Nat /\ c.document \in Documents \cup {Nil}
  BY CommandsAssumption

(* A commit appends one entry, and every earlier entry stays in place.     *)
LEMMA CommitAppends ==
  ASSUME TypeOK, NEW c \in Commands, Commit(c)
  PROVE  /\ EntryOf(c) \in Changes
         /\ ReceiptOf(c) \in Receipts
         /\ changes' = Append(changes, EntryOf(c))
         /\ changes' \in Seq(Changes)
         /\ Len(changes') = Len(changes) + 1
         /\ Len(changes) \in Nat
         /\ \A i \in 1..Len(changes) : changes'[i] = changes[i]
         /\ changes'[Len(changes) + 1] = EntryOf(c)
         /\ receipts' = [receipts EXCEPT ![c.id] = ReceiptOf(c)]
<1>1. EntryOf(c) \in Changes /\ ReceiptOf(c) \in Receipts
  BY CommandFields DEF TypeOK, EntryOf, ReceiptOf, Changes, Receipts
<1>2. changes' = Append(changes, EntryOf(c))
  BY DEF Commit, WriteRows, EntryOf
<1>3. receipts' = [receipts EXCEPT ![c.id] = ReceiptOf(c)]
  BY DEF Commit, WriteRows, ReceiptOf
<1>4. QED
  BY <1>1, <1>2, <1>3 DEF TypeOK

LEMMA CommitTypeOK ==
  ASSUME TypeOK, NEW c \in Commands, Commit(c)
  PROVE  TypeOK'
<1>1. next_seq' \in Nat /\ revision' \in [Resources -> Nat]
  BY CommandFields DEF TypeOK, Commit, WriteRows
<1>2. document' \in [Resources -> Documents \cup {Nil}]
  BY CommandFields DEF TypeOK, Commit, WriteRows
<1>3. receipts' \in [CommandIds -> Receipts \cup {Nil}]
  BY CommitAppends, CommandFields DEF TypeOK
<1>4. QED
  BY <1>1, <1>2, <1>3, CommitAppends DEF TypeOK

LEMMA CommitFeedDense ==
  ASSUME TypeOK, FeedDense, NEW c \in Commands, Commit(c)
  PROVE  FeedDense'
<1>1. next_seq' = next_seq + 1
  BY DEF Commit, WriteRows
<1>2. EntryOf(c).seq = next_seq + 1
  BY DEF EntryOf
<1>3. QED
  BY <1>1, <1>2, CommitAppends DEF FeedDense

LEMMA CommitReceipts ==
  ASSUME TypeOK, FeedDense, ReceiptsMatchFeed, NEW c \in Commands, Commit(c)
  PROVE  ReceiptsMatchFeed'
<1> DEFINE n == Len(changes)
<1>1. /\ n \in Nat /\ Len(changes') = n + 1
      /\ \A i \in 1..n : changes'[i] = changes[i]
      /\ changes'[n + 1] = EntryOf(c)
      /\ receipts' = [receipts EXCEPT ![c.id] = ReceiptOf(c)]
      /\ ReceiptOf(c) \in Receipts
  BY CommitAppends
<1>2. next_seq = n /\ c.id \in CommandIds /\ receipts[c.id] = Nil
  BY CommandFields DEF FeedDense, Commit, Remembered
<1>3. /\ receipts'[c.id] = ReceiptOf(c)
      /\ \A id \in CommandIds : id # c.id => receipts'[id] = receipts[id]
  BY <1>1, <1>2 DEF TypeOK
<1>4. \A id \in CommandIds : receipts'[id] # Nil =>
        /\ receipts'[id].seq \in 1..Len(changes')
        /\ changes'[receipts'[id].seq].id = id
  <2> SUFFICES ASSUME NEW id \in CommandIds, receipts'[id] # Nil
               PROVE  /\ receipts'[id].seq \in 1..(n + 1)
                      /\ changes'[receipts'[id].seq].id = id
    BY <1>1
  <2>1. CASE id = c.id
    BY <1>1, <1>2, <1>3, <2>1 DEF ReceiptOf, EntryOf
  <2>2. CASE id # c.id
    BY <1>1, <1>3, <2>2 DEF ReceiptsMatchFeed
  <2>3. QED
    BY <2>1, <2>2
<1>5. ASSUME NEW i \in 1..Len(changes')
      PROVE  LET receipt == receipts'[changes'[i].id]
             IN  /\ receipt # Nil
                 /\ receipt.seq = i
                 /\ receipt.actor = changes'[i].actor
                 /\ receipt.resource = changes'[i].resource
                 /\ receipt.revision = changes'[i].revision
  <2>1. CASE i = n + 1
    BY <1>1, <1>2, <1>3, <2>1, NilIsNoReceipt DEF ReceiptOf, EntryOf
  <2>2. CASE i # n + 1
    <3>1. i \in 1..n /\ changes'[i] = changes[i]
      BY <1>1, <2>2
    <3>2. changes[i] \in Changes
      BY <3>1 DEF TypeOK
    <3>3. changes[i].id \in CommandIds /\ receipts[changes[i].id] # Nil
      BY <3>1, <3>2 DEF ReceiptsMatchFeed, Changes
    <3>4. receipts'[changes[i].id] = receipts[changes[i].id]
      BY <1>2, <1>3, <3>3
    <3>5. QED
      BY <3>1, <3>4 DEF ReceiptsMatchFeed
  <2>3. QED
    BY <2>1, <2>2
<1>6. QED
  BY <1>4, <1>5 DEF ReceiptsMatchFeed

LEMMA CommitHeads ==
  ASSUME TypeOK, FeedDense, HeadsMatchFeed, NEW c \in Commands, Commit(c)
  PROVE  HeadsMatchFeed'
<1> DEFINE e == EntryOf(c)
<1>0. PICK n \in Nat : n = Len(changes)
  BY CommitAppends
<1>1. /\ Len(changes) = n /\ Len(changes') = n + 1
      /\ \A i \in 1..n : changes'[i] = changes[i]
      /\ changes'[n + 1] = e
  BY <1>0, CommitAppends
<1>2. /\ c.resource \in Resources
      /\ e.resource = c.resource /\ e.document = c.document
      /\ e.revision = revision[c.resource] + 1
  BY CommandFields DEF EntryOf
<1>3. /\ revision'[c.resource] = revision[c.resource] + 1
      /\ document'[c.resource] = c.document
      /\ \A r \in Resources : r # c.resource =>
           revision'[r] = revision[r] /\ document'[r] = document[r]
  BY <1>2 DEF Commit, WriteRows, TypeOK
<1>4. ASSUME NEW r \in Resources
      PROVE  \/ /\ revision'[r] = 0
                /\ document'[r] = Nil
                /\ \A i \in 1..(n + 1) : changes'[i].resource # r
             \/ \E i \in 1..(n + 1) :
                  /\ LastOf(r, i)'
                  /\ changes'[i].revision = revision'[r]
                  /\ changes'[i].document = document'[r]
  <2>1. CASE r = c.resource
    <3>1. LastOf(r, n + 1)'
      BY <1>1, <1>2, <2>1 DEF LastOf
    <3>2. QED
      BY <1>1, <1>2, <1>3, <2>1, <3>1
  <2>2. CASE r # c.resource /\ \A i \in 1..n : changes[i].resource # r
    <3>1. \A i \in 1..n : ~LastOf(r, i)
      BY <2>2 DEF LastOf
    <3>2. revision[r] = 0 /\ document[r] = Nil
      BY <1>1, <3>1 DEF HeadsMatchFeed
    <3>3. QED
      BY <1>1, <1>2, <1>3, <2>2, <3>2
  <2>3. CASE r # c.resource /\ \E i \in 1..n : changes[i].resource = r
    <3>1. PICK i \in 1..n : /\ LastOf(r, i)
                            /\ changes[i].revision = revision[r]
                            /\ changes[i].document = document[r]
      BY <1>1, <2>3 DEF HeadsMatchFeed
    <3>2. LastOf(r, i)'
      BY <1>1, <1>2, <2>3, <3>1 DEF LastOf
    <3>3. QED
      BY <1>1, <1>3, <2>3, <3>1, <3>2
  <2>4. QED
    BY <2>1, <2>2, <2>3
<1>5. ASSUME NEW i \in 1..(n + 1)
      PROVE  \/ /\ changes'[i].revision = 1
                /\ \A j \in 1..(i - 1) :
                     changes'[j].resource # changes'[i].resource
             \/ \E j \in 1..(i - 1) :
                  /\ changes'[j].resource = changes'[i].resource
                  /\ changes'[i].revision = changes'[j].revision + 1
                  /\ \A k \in (j + 1)..(i - 1) :
                       changes'[k].resource # changes'[i].resource
  <2>1. CASE i # n + 1
    <3>1. i \in 1..n /\ \A j \in 1..i : changes'[j] = changes[j]
      BY <1>1, <2>1
    <3>2. i \in 1..Len(changes)
      BY <1>1, <3>1
    <3>3. CASE /\ changes[i].revision = 1
               /\ \A j \in 1..(i - 1) :
                    changes[j].resource # changes[i].resource
      BY <3>1, <3>3
    <3>4. CASE \E j \in 1..(i - 1) :
                 /\ changes[j].resource = changes[i].resource
                 /\ changes[i].revision = changes[j].revision + 1
                 /\ \A k \in (j + 1)..(i - 1) :
                      changes[k].resource # changes[i].resource
      BY <3>1, <3>4
    <3>5. QED
      BY <3>2, <3>3, <3>4 DEF HeadsMatchFeed
  <2>2. CASE /\ i = n + 1
             /\ \A j \in 1..n : changes[j].resource # c.resource
    <3>1. \A j \in 1..n : ~LastOf(c.resource, j)
      BY <2>2 DEF LastOf
    <3>2. revision[c.resource] = 0
      BY <1>1, <1>2, <3>1 DEF HeadsMatchFeed
    <3>3. QED
      BY <1>1, <1>2, <2>2, <3>2
  <2>3. CASE /\ i = n + 1
             /\ \E j \in 1..n : changes[j].resource = c.resource
    <3>1. PICK j \in 1..n : /\ LastOf(c.resource, j)
                            /\ changes[j].revision = revision[c.resource]
      BY <1>1, <1>2, <2>3 DEF HeadsMatchFeed
    <3>2. QED
      BY <1>1, <1>2, <2>3, <3>1 DEF LastOf
  <2>4. QED
    BY <2>1, <2>2, <2>3
<1>6. QED
  BY <1>1, <1>4, <1>5 DEF HeadsMatchFeed

LEMMA LedgerInductive == LInv /\ [Next]_vars => LInv'
<1> SUFFICES ASSUME LInv, [Next]_vars PROVE LInv'
  OBVIOUS
<1>1. ASSUME NEW c \in Commands, Commit(c) PROVE LInv'
  BY <1>1, CommitTypeOK, CommitFeedDense, CommitReceipts, CommitHeads DEF LInv
<1>2. CASE UNCHANGED vars
  BY <1>2
  DEF vars, LInv, TypeOK, FeedDense, ReceiptsMatchFeed, HeadsMatchFeed, LastOf
<1>3. QED
  BY <1>1, <1>2 DEF Next

LEMMA LedgerInitial == Init => LInv
<1> SUFFICES ASSUME Init PROVE LInv
  OBVIOUS
<1>1. TypeOK
  BY DEF Init, TypeOK
<1>2. Len(changes) = 0
  BY DEF Init
<1>3. FeedDense
  BY <1>2 DEF Init, FeedDense
<1>4. ReceiptsMatchFeed /\ HeadsMatchFeed
  BY <1>2 DEF Init, ReceiptsMatchFeed, HeadsMatchFeed
<1>5. QED
  BY <1>1, <1>3, <1>4 DEF LInv

(* The tables are always one history: dense feed, one receipt per entry,   *)
(* heads rebuilt by replay.                                                *)
THEOREM LedgerConsistent == Spec => [](TypeOK /\ TablesAgree)
<1>1. LInv => TypeOK /\ TablesAgree
  BY DEF LInv, TablesAgree
<1>2. QED
  BY <1>1, LedgerInitial, LedgerInductive, PTL DEF Spec

(* The feed is append-only and receipts are permanent.                     *)
THEOREM LedgerHistoryStable == Spec => HistoryIsStable
<1>1. LInv /\ [Next]_vars =>
        [/\ Len(changes') >= Len(changes)
         /\ \A i \in 1..Len(changes) : changes'[i] = changes[i]
         /\ \A id \in CommandIds : receipts[id] # Nil =>
              receipts'[id] = receipts[id]]_vars
  <2> SUFFICES ASSUME LInv, NEW c \in Commands, Commit(c)
               PROVE  /\ Len(changes') >= Len(changes)
                      /\ \A i \in 1..Len(changes) : changes'[i] = changes[i]
                      /\ \A id \in CommandIds : receipts[id] # Nil =>
                           receipts'[id] = receipts[id]
    BY DEF Next
  <2>1. \A id \in CommandIds : receipts[id] # Nil =>
          receipts'[id] = receipts[id]
    BY DEF LInv, TypeOK, Commit, WriteRows, Remembered
  <2>2. QED
    BY <2>1, CommitAppends DEF LInv
<1>2. QED
  BY <1>1, LedgerInitial, LedgerInductive, PTL DEF Spec, HistoryIsStable

-----------------------------------------------------------------------------
(* What a connection knows while it holds the project row: the sequence,   *)
(* the missing receipt and the revision it read are still current.         *)
Holding == {"locked", "unseen", "ready"}

LockInv ==
  \A t \in Conns :
    /\ tx[t].pc # "idle" => tx[t].cmd \in Commands
    /\ tx[t].pc \in Holding <=> lock = t
    /\ tx[t].pc \in Holding => tx[t].seq = next_seq
    /\ tx[t].pc \in {"unseen", "ready"} => ~Remembered(tx[t].cmd)
    /\ tx[t].pc = "ready" =>
         /\ RevisionMatches(tx[t].cmd)
         /\ tx[t].base = revision[tx[t].cmd.resource]

TxInv ==
  /\ TxTypeOK
  /\ LockInv
  /\ NoStorageConflict

LEMMA TxInitial == TxInit => TxInv
<1> SUFFICES ASSUME TxInit PROVE TxInv
  OBVIOUS
<1>1. TypeOK
  BY LedgerInitial DEF TxInit, LInv
<1>2. QED
  BY <1>1, NilAssumption
  DEF TxInit, TxInv, TxTypeOK, LockInv, NoStorageConflict, Idle, Holding,
      Endings

(* Every transaction step is a commit of its command or leaves the tables  *)
(* alone.                                                                  *)
LEMMA StepCommitsOrStutters ==
  ASSUME TxInv, NEW t \in Conns, Step(t)
  PROVE  \/ UNCHANGED vars
         \/ /\ tx[t].pc = "ready"
            /\ tx[t].cmd \in Commands
            /\ Commit(tx[t].cmd)
<1>1. CASE \E c \in Commands : Begin(t, c)
  BY <1>1 DEF Begin, vars
<1>2. CASE LockProject(t) \/ ReadReceipt(t) \/ ReadRevision(t) \/ Abort(t)
  BY <1>2 DEF LockProject, ReadReceipt, ReadRevision, Abort, vars
<1>3. CASE WriteAndCommit(t)
  <2>1. /\ tx[t].seq = next_seq /\ ~Remembered(tx[t].cmd)
        /\ RevisionMatches(tx[t].cmd) /\ tx[t].cmd \in Commands
        /\ tx[t].base = revision[tx[t].cmd.resource]
        /\ tx[t].pc = "ready"
    BY <1>3 DEF WriteAndCommit, TxInv, LockInv, Holding
  <2>2. WriteRows(tx[t].cmd, next_seq, revision[tx[t].cmd.resource])
    BY <1>3, <2>1 DEF WriteAndCommit, WritesFit
  <2>3. QED
    BY <2>1, <2>2 DEF Commit
<1>4. QED
  BY <1>1, <1>2, <1>3 DEF Step

LEMMA StepTypes ==
  ASSUME TxInv, NEW t \in Conns, Step(t)
  PROVE  TxTypeOK'
<1> DEFINE TxStates ==
             [pc : {"idle", "begun", "locked", "unseen", "ready"},
              cmd : Commands \cup {Nil}, seq : Nat, base : Nat,
              outcome : Endings \cup {Nil}]
<1>1. TypeOK'
  <2>1. CASE UNCHANGED vars
    BY <2>1 DEF TxInv, TxTypeOK, TypeOK, vars
  <2>2. CASE tx[t].cmd \in Commands /\ Commit(tx[t].cmd)
    BY <2>2, CommitTypeOK DEF TxInv, TxTypeOK
  <2>3. QED
    BY <2>1, <2>2, StepCommitsOrStutters
<1>2. tx \in [Conns -> TxStates] /\ tx[t] \in TxStates
  BY DEF TxInv, TxTypeOK
<1>3. tx' \in [Conns -> TxStates]
  <2>1. ASSUME NEW o \in Endings \cup {Nil},
               tx' = [tx EXCEPT ![t] = Idle(o)]
        PROVE  tx' \in [Conns -> TxStates]
    BY <1>2, <2>1 DEF Idle
  <2>2. CASE \E c \in Commands : Begin(t, c)
    <3>1. PICK c \in Commands :
            tx' = [tx EXCEPT ![t] = [Idle(Nil) EXCEPT !.pc = "begun", !.cmd = c]]
      BY <2>2 DEF Begin
    <3>2. [Idle(Nil) EXCEPT !.pc = "begun", !.cmd = c] \in TxStates
      BY DEF Idle
    <3>3. QED
      BY <1>2, <3>1, <3>2
  <2>3. CASE LockProject(t)
    <3>1. next_seq \in Nat
      BY DEF TxInv, TxTypeOK, TypeOK
    <3>2. tx' = [tx EXCEPT ![t] = [@ EXCEPT !.pc = "locked", !.seq = next_seq]]
      BY <1>2, <2>3 DEF LockProject
    <3>3. [tx[t] EXCEPT !.pc = "locked", !.seq = next_seq] \in TxStates
      BY <1>2, <3>1
    <3>4. QED
      BY <1>2, <3>2, <3>3
  <2>4. CASE ReadReceipt(t)
    BY <1>2, <2>1, <2>4 DEF ReadReceipt, Finish, Endings
  <2>5. CASE ReadRevision(t)
    <3>1. tx[t].cmd \in Commands
      BY <2>5 DEF ReadRevision, TxInv, LockInv
    <3>2. revision[tx[t].cmd.resource] \in Nat
      BY <3>1, CommandFields DEF TxInv, TxTypeOK, TypeOK
    <3>3. QED
      BY <1>2, <2>1, <2>5, <3>2 DEF ReadRevision, Finish, Endings
  <2>6. CASE WriteAndCommit(t) \/ Abort(t)
    BY <1>2, <2>1, <2>6 DEF WriteAndCommit, Abort, Finish, Endings
  <2>7. QED
    BY <2>2, <2>3, <2>4, <2>5, <2>6 DEF Step
<1>4. lock' \in Conns \cup {Nil}
  BY DEF TxInv, TxTypeOK, Step, Begin, LockProject, ReadReceipt,
         ReadRevision, WriteAndCommit, Abort, Finish
<1>5. QED
  BY <1>1, <1>3, <1>4 DEF TxTypeOK

(* The lock-step invariant survives a step of t: a holder's facts can only *)
(* be disturbed by another commit, and only the holder commits.            *)
LEMMA StepLockInv ==
  ASSUME TxInv, NEW t \in Conns, Step(t)
  PROVE  LockInv' /\ NoStorageConflict'
<1>1. /\ t # Nil
      /\ tx \in [Conns -> [pc : {"idle", "begun", "locked", "unseen", "ready"},
                           cmd : Commands \cup {Nil}, seq : Nat, base : Nat,
                           outcome : Endings \cup {Nil}]]
      /\ lock \in Conns \cup {Nil}
  BY NilAssumption DEF TxInv, TxTypeOK
<1>2. ASSUME NEW o \in (Endings \cup {Nil}) \ {"storage_conflict"},
             Finish(t, o), UNCHANGED vars
      PROVE  LockInv' /\ NoStorageConflict'
  <2>1. /\ tx'[t] = Idle(o)
        /\ \A u \in Conns : u # t => tx'[u] = tx[u]
        /\ tx'[t].pc = "idle" /\ tx'[t].outcome = o
    BY <1>1, <1>2 DEF Finish, Idle
  <2>2. /\ lock' # t
        /\ \A u \in Conns : u # t => (lock' = u <=> lock = u)
    BY <1>1, <1>2, NilAssumption DEF Finish
  <2>3. \A c : /\ Remembered(c)' <=> Remembered(c)
               /\ RevisionMatches(c)' <=> RevisionMatches(c)
    BY <1>2 DEF vars, Remembered, RevisionMatches
  <2>4. revision' = revision /\ next_seq' = next_seq
    BY <1>2 DEF vars
  <2>5. LockInv'
    BY <2>1, <2>2, <2>3, <2>4
    DEF TxInv, LockInv, Holding, Remembered, RevisionMatches
  <2>6. NoStorageConflict'
    BY <1>2, <2>1 DEF TxInv, NoStorageConflict
  <2>7. QED
    BY <2>5, <2>6
<1>3. CASE \E c \in Commands : Begin(t, c)
  <2>1. PICK c \in Commands : Begin(t, c)
    BY <1>3
  <2>2. /\ tx'[t].pc = "begun" /\ tx'[t].cmd = c /\ tx'[t].outcome = Nil
        /\ \A u \in Conns : u # t => tx'[u] = tx[u]
        /\ tx[t].pc = "idle"
    BY <1>1, <2>1 DEF Begin, Idle
  <2>3. UNCHANGED <<vars, lock>>
    BY <2>1 DEF Begin
  <2>4. LockInv'
    BY <2>2, <2>3
    DEF TxInv, LockInv, Holding, vars, Remembered, RevisionMatches
  <2>5. QED
    BY <2>2, <2>4, NilAssumption DEF TxInv, NoStorageConflict, Endings
<1>4. CASE LockProject(t)
  <2>1. /\ tx'[t].pc = "locked" /\ tx'[t].cmd = tx[t].cmd
        /\ tx'[t].seq = next_seq /\ tx'[t].outcome = tx[t].outcome
        /\ \A u \in Conns : u # t => tx'[u] = tx[u]
        /\ tx[t].pc = "begun" /\ lock = Nil /\ lock' = t
    BY <1>1, <1>4 DEF LockProject
  <2>2. UNCHANGED vars
    BY <1>4 DEF LockProject
  <2>3. LockInv'
    BY <1>1, <2>1, <2>2, NilAssumption
    DEF TxInv, LockInv, Holding, vars, Remembered, RevisionMatches
  <2>4. QED
    BY <2>1, <2>3 DEF TxInv, NoStorageConflict
<1>5. CASE ReadReceipt(t)
  <2>1. CASE /\ ~Remembered(tx[t].cmd)
             /\ tx' = [tx EXCEPT ![t].pc = "unseen"]
             /\ UNCHANGED <<lock, vars>>
    <3>1. /\ tx'[t].pc = "unseen" /\ tx'[t].cmd = tx[t].cmd
          /\ tx'[t].seq = tx[t].seq /\ tx'[t].outcome = tx[t].outcome
          /\ \A u \in Conns : u # t => tx'[u] = tx[u]
          /\ tx[t].pc = "locked"
      BY <1>1, <1>5, <2>1 DEF ReadReceipt
    <3>2. LockInv'
      BY <2>1, <3>1
      DEF TxInv, LockInv, Holding, vars, Remembered, RevisionMatches
    <3>3. QED
      BY <3>1, <3>2 DEF TxInv, NoStorageConflict
  <2>2. CASE \E o \in {"replayed", "conflict"} : Finish(t, o)
    BY <1>2, <1>5, <2>2, NilAssumption DEF ReadReceipt, Endings
  <2>3. QED
    BY <1>5, <2>1, <2>2 DEF ReadReceipt
<1>6. CASE ReadRevision(t)
  <2>1. CASE /\ RevisionMatches(tx[t].cmd)
             /\ tx' = [tx EXCEPT ![t].pc = "ready",
                                 ![t].base = revision[tx[t].cmd.resource]]
             /\ UNCHANGED <<lock, vars>>
    <3>1. /\ tx'[t].pc = "ready" /\ tx'[t].cmd = tx[t].cmd
          /\ tx'[t].seq = tx[t].seq /\ tx'[t].outcome = tx[t].outcome
          /\ tx'[t].base = revision[tx[t].cmd.resource]
          /\ \A u \in Conns : u # t => tx'[u] = tx[u]
          /\ tx[t].pc = "unseen"
      BY <1>1, <1>6, <2>1 DEF ReadRevision
    <3>2. \A c : /\ Remembered(c)' <=> Remembered(c)
                 /\ RevisionMatches(c)' <=> RevisionMatches(c)
      BY <2>1 DEF vars, Remembered, RevisionMatches
    <3>3. revision' = revision /\ next_seq' = next_seq /\ lock' = lock
      BY <2>1 DEF vars
    <3>4. LockInv'
      BY <2>1, <3>1, <3>2, <3>3 DEF TxInv, LockInv, Holding
    <3>5. QED
      BY <3>1, <3>4 DEF TxInv, NoStorageConflict
  <2>2. CASE Finish(t, "stale")
    BY <1>2, <1>6, <2>2, NilAssumption DEF ReadRevision, Endings
  <2>3. QED
    BY <1>6, <2>1, <2>2 DEF ReadRevision
<1>7. CASE WriteAndCommit(t)
  <2>1. tx[t].pc = "ready" /\ lock = t /\ WritesFit(t)
    BY <1>7 DEF WriteAndCommit, TxInv, LockInv, Holding, WritesFit
  <2>2. PICK o \in {"committed", "lost"} : Finish(t, o)
    BY <1>7, <2>1 DEF WriteAndCommit
  <2>3. /\ tx'[t].pc = "idle" /\ tx'[t].outcome = o
        /\ \A u \in Conns : u # t => tx'[u] = tx[u]
        /\ lock' = Nil
    BY <1>1, <2>1, <2>2 DEF Finish, Idle
  <2>4. \A u \in Conns : u # t => tx[u].pc \notin Holding
    BY <2>1 DEF TxInv, LockInv
  <2>5. LockInv'
    BY <2>3, <2>4, NilAssumption DEF TxInv, LockInv, Holding
  <2>6. QED
    BY <2>3, <2>5 DEF TxInv, NoStorageConflict
<1>8. CASE Abort(t)
  BY <1>2, <1>8, NilAssumption DEF Abort, Endings
<1>9. QED
  BY <1>3, <1>4, <1>5, <1>6, <1>7, <1>8 DEF Step

LEMMA TxInductive == TxInv /\ [TxNext]_txVars => TxInv'
<1> SUFFICES ASSUME TxInv, [TxNext]_txVars PROVE TxInv'
  OBVIOUS
<1>1. ASSUME NEW t \in Conns, Step(t) PROVE TxInv'
  BY <1>1, StepTypes, StepLockInv DEF TxInv
<1>2. CASE UNCHANGED txVars
  BY <1>2
  DEF txVars, TxInv, TxTypeOK, TypeOK, LockInv, NoStorageConflict, Holding,
      Remembered, RevisionMatches
<1>3. QED
  BY <1>1, <1>2 DEF TxNext

(* The adapters' transactions are typed, hold the project row one at a     *)
(* time and never meet a failed compare-and-swap.                          *)
THEOREM TransactionsSafe == TxSpec => [](TxTypeOK /\ NoStorageConflict)
<1>1. TxInv => TxTypeOK /\ NoStorageConflict
  BY DEF TxInv
<1>2. QED
  BY <1>1, TxInitial, TxInductive, PTL DEF TxSpec

(* The SQL transactions implement the indivisible ledger.                  *)
THEOREM TransactionsRefineLedger == TxSpec => ImplementsLedger
<1>1. TxInit => Init
  BY DEF TxInit
<1>2. TxInv /\ [TxNext]_txVars => [Next]_vars
  BY StepCommitsOrStutters DEF TxNext, Next, txVars, vars
<1>3. QED
  BY <1>1, <1>2, TxInitial, TxInductive, PTL
  DEF TxSpec, Spec, ImplementsLedger

(* Hence their tables always agree.                                        *)
THEOREM TransactionsKeepTables == TxSpec => []TablesAgree
<1>1. LInv => TablesAgree
  BY DEF LInv, TablesAgree
<1>2. QED
  BY <1>1, TransactionsRefineLedger, LedgerInitial, LedgerInductive, PTL
  DEF Spec, ImplementsLedger

(* While a transaction runs its connection shows no earlier ending.        *)
BusyIsOpen == \A t \in Conns : tx[t].pc # "idle" => tx[t].outcome = Nil

LEMMA StepKeepsBusyOpen ==
  ASSUME TxInv, BusyIsOpen, NEW t \in Conns, Step(t)
  PROVE  BusyIsOpen'
<1>1. tx \in [Conns -> [pc : {"idle", "begun", "locked", "unseen", "ready"},
                        cmd : Commands \cup {Nil}, seq : Nat, base : Nat,
                        outcome : Endings \cup {Nil}]]
  BY DEF TxInv, TxTypeOK
<1>2. ASSUME NEW o, tx' = [tx EXCEPT ![t] = Idle(o)]
      PROVE  BusyIsOpen'
  BY <1>1, <1>2 DEF BusyIsOpen, Idle
<1>3. ASSUME \A u \in Conns : u # t => tx'[u] = tx[u],
             tx[t].pc # "idle", tx'[t].outcome = tx[t].outcome
      PROVE  BusyIsOpen'
  BY <1>3 DEF BusyIsOpen
<1>4. CASE \E c \in Commands : Begin(t, c)
  <2>1. /\ \A u \in Conns : u # t => tx'[u] = tx[u]
        /\ tx'[t].outcome = Nil
    BY <1>1, <1>4 DEF Begin, Idle
  <2>2. QED
    BY <2>1 DEF BusyIsOpen
<1>5. CASE LockProject(t)
  BY <1>1, <1>3, <1>5 DEF LockProject
<1>6. CASE ReadReceipt(t)
  <2>1. CASE tx' = [tx EXCEPT ![t].pc = "unseen"]
    BY <1>1, <1>3, <1>6, <2>1 DEF ReadReceipt
  <2>2. QED
    BY <1>2, <1>6, <2>1 DEF ReadReceipt, Finish
<1>7. CASE ReadRevision(t)
  <2>1. CASE tx' = [tx EXCEPT ![t].pc = "ready",
                              ![t].base = revision[tx[t].cmd.resource]]
    BY <1>1, <1>3, <1>7, <2>1 DEF ReadRevision
  <2>2. QED
    BY <1>2, <1>7, <2>1 DEF ReadRevision, Finish
<1>8. CASE WriteAndCommit(t) \/ Abort(t)
  BY <1>2, <1>8 DEF WriteAndCommit, Abort, Finish
<1>9. QED
  BY <1>4, <1>5, <1>6, <1>7, <1>8 DEF Step

(* A refusal is the ending of the connection that steps, and it had looked *)
(* for the receipt while it held the project row: there was none to replay.*)
LEMMA RefusalsAreJust ==
  ASSUME TxInv, TxInv', BusyIsOpen, NEW s \in Conns, Step(s), NEW t \in Conns,
         tx[t].pc # "idle",
         tx'[t].outcome \in {"conflict", "stale", "storage_conflict"}
  PROVE  ~Replays(tx[t].cmd)
<1>1. tx \in [Conns -> [pc : {"idle", "begun", "locked", "unseen", "ready"},
                        cmd : Commands \cup {Nil}, seq : Nat, base : Nat,
                        outcome : Endings \cup {Nil}]]
  BY DEF TxInv, TxTypeOK
<1>2. tx'[t].outcome \in {"conflict", "stale"}
  BY DEF TxInv, NoStorageConflict
<1>3. /\ tx[t].outcome = Nil
      /\ Nil \notin {"conflict", "stale"}
  BY NilAssumption DEF BusyIsOpen, Endings
<1>4. ASSUME NEW o, tx' = [tx EXCEPT ![s] = Idle(o)]
      PROVE  s = t /\ o = tx'[t].outcome
  BY <1>1, <1>2, <1>3, <1>4 DEF Idle
<1>5. CASE ReadReceipt(s)
  <2>1. CASE tx' = [tx EXCEPT ![s].pc = "unseen"]
    BY <1>1, <1>2, <1>3, <2>1
  <2>2. CASE Finish(s, "replayed")
    <3>1. "replayed" = tx'[t].outcome
      BY <1>4, <2>2 DEF Finish
    <3>2. QED
      BY <1>2, <3>1
  <2>3. CASE ~Replays(tx[s].cmd) /\ Finish(s, "conflict")
    BY <1>4, <2>3 DEF Finish
  <2>4. QED
    BY <1>5, <2>1, <2>2, <2>3 DEF ReadReceipt
<1>6. CASE ReadRevision(s)
  <2>1. CASE tx' = [tx EXCEPT ![s].pc = "ready",
                              ![s].base = revision[tx[s].cmd.resource]]
    BY <1>1, <1>2, <1>3, <2>1
  <2>2. CASE Finish(s, "stale")
    <3>1. s = t /\ tx[t].pc = "unseen"
      BY <1>4, <1>6, <2>2 DEF Finish, ReadRevision
    <3>2. QED
      BY <3>1 DEF TxInv, LockInv, Replays
  <2>3. QED
    BY <1>6, <2>1, <2>2 DEF ReadRevision
<1>7. CASE \E c \in Commands : Begin(s, c)
  <2>1. tx'[t].outcome = Nil
    BY <1>1, <1>3, <1>7 DEF Begin, Idle
  <2>2. QED
    BY <1>2, <1>3, <2>1
<1>8. CASE LockProject(s)
  BY <1>1, <1>2, <1>3, <1>8 DEF LockProject
<1>9. CASE WriteAndCommit(s)
  <2>1. CASE Finish(s, "storage_conflict")
    <3>1. "storage_conflict" = tx'[t].outcome
      BY <1>4, <2>1 DEF Finish
    <3>2. QED
      BY <1>2, <3>1
  <2>2. CASE \E reply \in {"committed", "lost"} : Finish(s, reply)
    <3>1. PICK reply \in {"committed", "lost"} : Finish(s, reply)
      BY <2>2
    <3>2. reply = tx'[t].outcome
      BY <1>4, <3>1 DEF Finish
    <3>3. QED
      BY <1>2, <3>2
  <2>3. QED
    BY <1>9, <2>1, <2>2 DEF WriteAndCommit
<1>10. CASE Abort(s)
  <2>1. "lost" = tx'[t].outcome
    BY <1>4, <1>10 DEF Abort, Finish
  <2>2. QED
    BY <1>2, <2>1
<1>11. QED
  BY <1>5, <1>6, <1>7, <1>8, <1>9, <1>10 DEF Step

(* A command that has committed is answered with its receipt or with an    *)
(* infrastructure failure, however often and however late it comes again.  *)
THEOREM RetriesAreAnswered == TxSpec => CommittedIsNeverRefused
<1> DEFINE Just ==
      \A t \in Conns :
        /\ tx[t].pc # "idle"
        /\ tx'[t].outcome \in {"conflict", "stale", "storage_conflict"}
        => ~Replays(tx[t].cmd)
<1>1. TxInit => BusyIsOpen
  BY DEF TxInit, BusyIsOpen, Idle
<1>2. TxInv /\ BusyIsOpen /\ [TxNext]_txVars => BusyIsOpen'
  BY StepKeepsBusyOpen DEF TxNext, txVars, BusyIsOpen
<1>3. TxInv /\ TxInv' /\ BusyIsOpen /\ [TxNext]_txVars => [Just]_txVars
  BY RefusalsAreJust DEF TxNext
<1>4. QED
  BY <1>1, <1>2, <1>3, TxInitial, TxInductive, PTL
  DEF TxSpec, CommittedIsNeverRefused

-----------------------------------------------------------------------------

(* The processes pull under one profile.  With two, a batch that was       *)
(* fetched for one may reach a file that was reset under the other.        *)
OneProfile == \A a, b \in Profiles : a = b

(* Place i of a feed is the last one of resource r in its first n entries. *)
IsLast(feed, r, n, i) ==
  /\ i \in 1..n
  /\ feed[i].resource = r
  /\ \A j \in (i + 1)..n : feed[j].resource # r

RowOf(entry) == [revision |-> entry.revision, document |-> entry.document]

(* StateAt for any feed.                                                   *)
StateIn(feed, r, n) ==
  IF \A i \in 1..n : feed[i].resource # r THEN Nil
  ELSE LET i == CHOOSE i \in 1..n :
                  /\ feed[i].resource = r
                  /\ \A j \in (i + 1)..n : feed[j].resource # r
       IN  [revision |-> feed[i].revision, document |-> feed[i].document]

(* What an actor may see of a feed's first n entries.                      *)
View(feed, actor, n) ==
  [r \in Resources |-> IF Visible(actor, r) THEN StateIn(feed, r, n) ELSE Nil]

(* Revisions grow along a feed, and the heads are the last entries.        *)
History(feed, seq, rev, doc) ==
  /\ feed \in Seq(Changes)
  /\ seq = Len(feed)
  /\ rev \in [Resources -> Nat]
  /\ DOMAIN doc = Resources
  /\ \A i \in 1..Len(feed) :
       /\ feed[i].revision \in 1..rev[feed[i].resource]
       /\ \A j \in 1..(i - 1) :
            feed[j].resource = feed[i].resource
              => feed[j].revision < feed[i].revision
  /\ \A r \in Resources :
       IF rev[r] = 0
       THEN \A i \in 1..Len(feed) : feed[i].resource # r
       ELSE \E i \in 1..Len(feed) :
              /\ IsLast(feed, r, Len(feed), i)
              /\ RowOf(feed[i]) = [revision |-> rev[r], document |-> doc[r]]

Extends(longer, feed) ==
  /\ Len(longer) >= Len(feed)
  /\ \A i \in 1..Len(feed) : longer[i] = feed[i]

Recorded == History(changes, next_seq, revision, document)

(* A backup is of the present history, and until it is put back that only  *)
(* grows.                                                                  *)
DumpSound ==
  dump # Nil =>
    /\ dump.project_epoch = project_epoch
    /\ History(dump.changes, dump.next_seq, dump.revision, dump.document)
    /\ ~restored => Extends(changes, dump.changes)

FileShape ==
  meta # Nil =>
    /\ meta = [epoch |-> meta.epoch, actor |-> meta.actor,
               cursor |-> meta.cursor]
    /\ meta.epoch \in 0..project_epoch
    /\ meta.actor \in Profiles
    /\ meta.cursor \in Nat

(* Under one profile, a file of the present history is its actor's view.   *)
FileSound ==
  OneProfile /\ meta # Nil /\ meta.epoch = project_epoch =>
    /\ meta.cursor <= Len(changes)
    /\ \A r \in Resources : rows[r] = View(changes, meta.actor, meta.cursor)[r]

(* Whom a pull is for, and what it was answered, of a history that is not  *)
(* later than the present one.                                             *)
PullShape(pull) ==
  /\ pull = [pc |-> pull.pc, actor |-> pull.actor, epoch |-> pull.epoch,
             reply |-> pull.reply, head |-> pull.head]
  /\ pull.pc # "idle" =>
       /\ pull.actor \in Profiles
       /\ pull.epoch \in 0..project_epoch
       /\ pull.head \in Nat
  /\ pull.pc \in {"snapshot", "asking", "batch"} =>
       pull.reply.epoch \in 0..project_epoch
  /\ pull.pc = "snapshot" => pull.reply.at_seq \in Nat
  /\ pull.pc = "asking" => pull.reply.cursor \in Nat
  /\ pull.pc = "batch" =>
       /\ pull.reply.cursor \in Nat
       /\ pull.reply.next \in Nat
       /\ pull.reply.cursor <= pull.reply.next

(* An answer of the present history is true of it.                         *)
PullSound(pull) ==
  /\ pull.pc # "idle" /\ pull.epoch = project_epoch
       => pull.head <= Len(changes)
  /\ pull.pc = "snapshot" /\ pull.reply.epoch = project_epoch =>
       /\ pull.reply.at_seq <= Len(changes)
       /\ pull.reply.rows = View(changes, pull.actor, pull.reply.at_seq)
  /\ pull.pc = "batch" /\ pull.reply.epoch = project_epoch =>
       /\ pull.reply.next <= Len(changes)
       /\ pull.reply.entries =
            Shown(pull.actor, pull.reply.cursor, pull.reply.next)
  /\ pull.pc = "batch" /\ pull.reply.epoch = pull.epoch
                       /\ ~pull.reply.has_more
       => pull.reply.next >= pull.head

RInv ==
  /\ project_epoch \in Nat
  /\ Recorded
  /\ DumpSound
  /\ restored \in BOOLEAN /\ rewound \in BOOLEAN
  /\ rewound => restored
  /\ FileShape
  /\ DOMAIN pulls = Pullers
  /\ \A p \in Pullers : PullShape(pulls[p])
  /\ ~rewound => FileSound /\ \A p \in Pullers : PullSound(pulls[p])

-----------------------------------------------------------------------------

(* A bounded set of numbers has a greatest one.                            *)
LEMMA GreatestExists ==
  ASSUME NEW b \in Nat, NEW S \in SUBSET (0..b), S # {}
  PROVE  \E m \in S : \A x \in S : x <= m
<1>. DEFINE T == {b - x : x \in S}
            R == OpToRel(<, Nat)
<1>1. T \subseteq Nat /\ T # {}
  <2>1. \A x \in S : x \in 0..b
    OBVIOUS
  <2>2. \A x \in S : b - x \in Nat
    BY <2>1
  <2>. QED
    BY <2>2
<1>2. PICK y \in T : \A z \in T : ~(<<z, y>> \in R)
  BY <1>1, NatLessThanWellFounded, WFMin
<1>3. PICK m \in S : y = b - m
  OBVIOUS
<1>4. ASSUME NEW x \in S
      PROVE  x <= m
  <2>1. b - x \in T /\ b - x \in Nat /\ y \in Nat
    BY <1>1
  <2>2. ~(b - x < y)
    BY <1>2, <2>1 DEF OpToRel
  <2>. QED
    BY <1>3, <2>1, <2>2
<1>. QED
  BY <1>4

(* A resource with an entry has a last one.                                *)
LEMMA LastExists ==
  ASSUME NEW feed, NEW n \in Nat, NEW i \in 1..n, NEW r, feed[i].resource = r
  PROVE  \E m \in i..n : IsLast(feed, r, n, m)
<1>. DEFINE S == {j \in 1..n : feed[j].resource = r}
<1>1. S \in SUBSET (0..n) /\ S # {}
  OBVIOUS
<1>2. PICK m \in S : \A x \in S : x <= m
  BY <1>1, GreatestExists
<1>3. m \in i..n /\ IsLast(feed, r, n, m)
  BY <1>2 DEF IsLast
<1>. QED
  BY <1>3

(* The state of a resource is what its last entry says.                    *)
LEMMA LastIsState ==
  ASSUME NEW feed, NEW n \in Nat, NEW r, NEW m, IsLast(feed, r, n, m)
  PROVE  StateIn(feed, r, n) = RowOf(feed[m])
<1>. DEFINE i == CHOOSE i \in 1..n :
                   /\ feed[i].resource = r
                   /\ \A j \in (i + 1)..n : feed[j].resource # r
<1>1. m \in 1..n /\ feed[m].resource = r
      /\ \A j \in (m + 1)..n : feed[j].resource # r
  BY DEF IsLast
<1>2. i \in 1..n /\ feed[i].resource = r
      /\ \A j \in (i + 1)..n : feed[j].resource # r
  BY <1>1
<1>3. StateIn(feed, r, n) = RowOf(feed[i])
  BY <1>1 DEF StateIn, RowOf
<1>. HIDE DEF i
<1>4. i = m
  BY <1>1, <1>2
<1>. QED
  BY <1>3, <1>4

(* The state after n changes does not depend on later ones.                *)
LEMMA StateKept ==
  ASSUME NEW feed, NEW longer, Len(feed) \in Nat, Extends(longer, feed),
         NEW n \in 0..Len(feed), NEW r
  PROVE  StateIn(longer, r, n) = StateIn(feed, r, n)
<1>1. \A i \in 1..n : longer[i] = feed[i]
  BY DEF Extends
<1>2. CASE \A i \in 1..n : feed[i].resource # r
  BY <1>1, <1>2 DEF StateIn
<1>3. CASE \E i \in 1..n : feed[i].resource = r
  <2>1. PICK m \in 1..n : IsLast(feed, r, n, m)
    BY <1>3, LastExists
  <2>2. IsLast(longer, r, n, m)
    BY <1>1, <2>1 DEF IsLast
  <2>3. longer[m] = feed[m] /\ n \in Nat
    BY <1>1, <2>1
  <2>. QED
    BY <2>1, <2>2, <2>3, LastIsState DEF RowOf
<1>. QED
  BY <1>2, <1>3

(* Neither does what an actor may see of it.                               *)
LEMMA ViewKept ==
  ASSUME NEW feed, NEW longer, Len(feed) \in Nat, Extends(longer, feed),
         NEW n \in 0..Len(feed), NEW actor
  PROVE  View(longer, actor, n) = View(feed, actor, n)
  BY StateKept DEF View, Visible

(* A commit writes the next entry, of the next revision.                   *)
LEMMA HistoryGrows ==
  ASSUME Recorded, NEW c \in Commands, Commit(c)
  PROVE  Recorded' /\ Extends(changes', changes)
<1>. DEFINE n == Len(changes)
            entry == [id |-> c.id, actor |-> c.actor, resource |-> c.resource,
                      seq |-> next_seq + 1,
                      revision |-> revision[c.resource] + 1,
                      document |-> c.document]
<1>1. /\ c.id \in CommandIds /\ c.actor \in Actors /\ c.resource \in Resources
      /\ c.document \in Documents \cup {Nil}
  BY CommandsAssumption
<1>2. /\ changes \in Seq(Changes) /\ next_seq = n /\ n \in Nat
      /\ revision \in [Resources -> Nat] /\ DOMAIN document = Resources
  BY DEF Recorded, History
<1>3. entry \in Changes
  BY <1>1, <1>2 DEF Changes
<1>4. /\ changes' = Append(changes, entry) /\ next_seq' = n + 1
      /\ revision' = [revision EXCEPT ![c.resource] = @ + 1]
      /\ document' = [document EXCEPT ![c.resource] = c.document]
  BY <1>2 DEF Commit, WriteRows
<1>5. /\ changes' \in Seq(Changes) /\ Len(changes') = n + 1
      /\ \A i \in 1..n : changes'[i] = changes[i]
      /\ changes'[n + 1] = entry
  BY <1>2, <1>3, <1>4
<1>6. /\ entry.resource = c.resource
      /\ entry.revision = revision[c.resource] + 1
      /\ entry.document = c.document
  OBVIOUS
<1>. HIDE DEF entry
<1>7. /\ revision' \in [Resources -> Nat] /\ DOMAIN document' = Resources
      /\ revision'[c.resource] = revision[c.resource] + 1
      /\ document'[c.resource] = c.document
      /\ \A r \in Resources \ {c.resource} :
           revision'[r] = revision[r] /\ document'[r] = document[r]
  BY <1>1, <1>2, <1>4
<1>8. \A i \in 1..n :
        /\ changes[i].resource \in Resources
        /\ changes[i].revision \in 1..revision[changes[i].resource]
  <2>. TAKE i \in 1..n
  <2>1. changes[i] \in Changes
    BY <1>2
  <2>2. changes[i].revision \in 1..revision[changes[i].resource]
    BY DEF Recorded, History
  <2>. QED
    BY <2>1, <2>2 DEF Changes
<1>9. ASSUME NEW i \in 1..(n + 1)
      PROVE  /\ changes'[i].revision \in 1..revision'[changes'[i].resource]
             /\ \A j \in 1..(i - 1) :
                  changes'[j].resource = changes'[i].resource
                    => changes'[j].revision < changes'[i].revision
  <2>1. CASE i = n + 1
    <3>1. changes'[i] = entry
      BY <1>5, <2>1
    <3>2. revision[c.resource] \in Nat
      BY <1>1, <1>2
    <3>3. \A j \in 1..(i - 1) :
            /\ changes'[j] = changes[j]
            /\ changes[j].revision \in 1..revision[changes[j].resource]
      BY <1>2, <1>5, <1>8, <2>1
    <3>. QED
      BY <1>6, <1>7, <3>1, <3>2, <3>3
  <2>2. CASE i \in 1..n
    <3>1. /\ changes'[i] = changes[i]
          /\ \A j \in 1..(i - 1) : changes'[j] = changes[j]
      BY <1>2, <1>5, <2>2
    <3>2. changes[i].revision \in 1..revision'[changes[i].resource]
      <4>. DEFINE s == changes[i].resource
      <4>1. s \in Resources /\ changes[i].revision \in 1..revision[s]
        BY <1>8, <2>2
      <4>2. revision[s] \in Nat
            /\ (revision'[s] = revision[s] \/ revision'[s] = revision[s] + 1)
        BY <1>2, <1>7, <4>1
      <4>. HIDE DEF s
      <4>3. changes[i].revision \in 1..revision'[s]
        BY <4>1, <4>2
      <4>. QED
        BY <4>3 DEF s
    <3>3. \A j \in 1..(i - 1) : changes[j].resource = changes[i].resource
                                => changes[j].revision < changes[i].revision
      BY <2>2 DEF Recorded, History
    <3>. QED
      BY <2>2, <3>1, <3>2, <3>3
  <2>. QED
    BY <1>2, <2>1, <2>2
<1>10. ASSUME NEW r \in Resources
       PROVE  IF revision'[r] = 0
              THEN \A i \in 1..(n + 1) : changes'[i].resource # r
              ELSE \E i \in 1..(n + 1) :
                     /\ IsLast(changes', r, n + 1, i)
                     /\ RowOf(changes'[i]) =
                          [revision |-> revision'[r], document |-> document'[r]]
  <2>1. CASE r = c.resource
    <3>1. IsLast(changes', r, n + 1, n + 1)
      BY <1>2, <1>5, <1>6, <2>1 DEF IsLast
    <3>2. RowOf(changes'[n + 1]) =
            [revision |-> revision'[r], document |-> document'[r]]
      BY <1>5, <1>6, <1>7, <2>1 DEF RowOf
    <3>3. revision'[r] # 0 /\ n + 1 \in 1..(n + 1)
      BY <1>2, <1>7, <2>1
    <3>. QED
      BY <3>1, <3>2, <3>3
  <2>2. CASE r # c.resource /\ revision[r] = 0
    <3>1. \A i \in 1..n : changes[i].resource # r
      BY <2>2 DEF Recorded, History
    <3>2. \A i \in 1..(n + 1) : i \in 1..n \/ i = n + 1
      BY <1>2
    <3>. QED
      BY <1>5, <1>6, <1>7, <2>2, <3>1, <3>2
  <2>3. CASE r # c.resource /\ revision[r] # 0
    <3>1. PICK i \in 1..n :
            /\ IsLast(changes, r, n, i)
            /\ RowOf(changes[i]) =
                 [revision |-> revision[r], document |-> document[r]]
      BY <2>3 DEF Recorded, History
    <3>2. IsLast(changes', r, n + 1, i)
      <4>1. /\ i \in 1..n /\ changes[i].resource = r
            /\ \A j \in (i + 1)..n : changes[j].resource # r
        BY <3>1 DEF IsLast
      <4>2. i \in 1..(n + 1) /\ changes'[i] = changes[i]
        BY <1>2, <1>5, <4>1
      <4>3. ASSUME NEW j \in (i + 1)..(n + 1)
            PROVE  changes'[j].resource # r
        <5>1. CASE j = n + 1
          BY <1>5, <1>6, <2>3, <5>1
        <5>2. CASE j # n + 1
          <6>1. j \in (i + 1)..n /\ j \in 1..n
            BY <1>2, <4>1, <5>2
          <6>. QED
            BY <1>5, <4>1, <6>1
        <5>. QED
          BY <5>1, <5>2
      <4>. QED
        BY <4>1, <4>2, <4>3 DEF IsLast
    <3>3. i \in 1..(n + 1) /\ changes'[i] = changes[i]
      BY <1>2, <1>5, <3>1
    <3>4. revision'[r] = revision[r] /\ document'[r] = document[r]
      BY <1>7, <2>3
    <3>5. RowOf(changes'[i]) =
            [revision |-> revision'[r], document |-> document'[r]]
      BY <3>1, <3>3, <3>4
    <3>. HIDE DEF n
    <3>. QED
      BY <2>3, <3>2, <3>3, <3>4, <3>5
  <2>. QED
    BY <2>1, <2>2, <2>3
<1>11. Recorded'
  <2>1. History(changes', next_seq', revision', document')
    BY <1>4, <1>5, <1>7, <1>9, <1>10 DEF History
  <2>. QED
    BY <2>1 DEF Recorded
<1>. QED
  BY <1>2, <1>5, <1>11 DEF Extends

(* The snapshot is the actor's view of the present.                        *)
LEMMA SnapshotIsView ==
  ASSUME Recorded, NEW actor
  PROVE  Snapshot(actor).rows = View(changes, actor, next_seq)
<1>. DEFINE n == Len(changes)
<1>1. n \in Nat /\ next_seq = n
  BY DEF Recorded, History
<1>2. ASSUME NEW r \in Resources
      PROVE  (IF Visible(actor, r) /\ revision[r] # 0
              THEN [revision |-> revision[r], document |-> document[r]]
              ELSE Nil) = View(changes, actor, next_seq)[r]
  <2>1. CASE revision[r] = 0
    <3>1. \A i \in 1..n : changes[i].resource # r
      BY <2>1 DEF Recorded, History
    <3>. QED
      BY <1>1, <2>1, <3>1 DEF View, StateIn
  <2>2. CASE revision[r] # 0
    <3>1. PICK i \in 1..n :
            /\ IsLast(changes, r, n, i)
            /\ RowOf(changes[i]) =
                 [revision |-> revision[r], document |-> document[r]]
      BY <2>2 DEF Recorded, History
    <3>2. StateIn(changes, r, n) = RowOf(changes[i])
      BY <1>1, <3>1, LastIsState
    <3>. QED
      BY <1>1, <2>2, <3>1, <3>2 DEF View
  <2>. QED
    BY <2>1, <2>2
<1>. QED
  BY <1>2 DEF Snapshot, View

(* A range of the feed never changes.                                      *)
LEMMA ShownKept ==
  ASSUME Len(changes) \in Nat, Extends(changes', changes), NEW actor,
         NEW cursor \in Nat, NEW upto \in 0..Len(changes)
  PROVE  Shown(actor, cursor, upto)' = Shown(actor, cursor, upto)
<1>1. \A i \in (cursor + 1)..upto : changes'[i] = changes[i]
  BY DEF Extends
<1>. QED
  BY <1>1 DEF Shown, Visible

(* Applying a range of the feed to the view at its start leaves the view   *)
(* at its end: the newest revision of a resource is its last entry.        *)
LEMMA ApplyIsView ==
  ASSUME Recorded, NEW actor, NEW cursor \in Nat, NEW next \in Nat,
         cursor <= next, next <= Len(changes),
         \A r \in Resources : rows[r] = View(changes, actor, cursor)[r],
         NEW r \in Resources
  PROVE  Applied(Shown(actor, cursor, next))[r] = View(changes, actor, next)[r]
<1>. DEFINE entries == Shown(actor, cursor, next)
            newer == Newer(entries, r)
<1>1. Len(changes) \in Nat
      /\ \A i \in 1..Len(changes) :
           changes[i].revision \in Nat /\ changes[i].revision >= 1
  <2>1. changes \in Seq(Changes)
    BY DEF Recorded, History
  <2>2. ASSUME NEW i \in 1..Len(changes)
        PROVE  changes[i].revision \in Nat /\ changes[i].revision >= 1
    <3>1. changes[i] \in Changes
      BY <2>1
    <3>2. changes[i].revision \in Nat
      BY <3>1 DEF Changes
    <3>3. changes[i].revision \in 1..revision[changes[i].resource]
      BY DEF Recorded, History
    <3>. QED
      BY <3>2, <3>3
  <2>. QED
    BY <2>1, <2>2
<1>2. \A i, j \in 1..Len(changes) :
        j < i /\ changes[j].resource = changes[i].resource
          => changes[j].revision < changes[i].revision
  BY <1>1 DEF Recorded, History
<1>3. \A e : e \in newer <=>
               \E i \in (cursor + 1)..next :
                 /\ e = changes[i]
                 /\ Visible(actor, changes[i].resource)
                 /\ changes[i].resource = r
                 /\ changes[i].revision > Held(r)
  BY DEF Newer, Shown
<1>4. Applied(entries)[r] =
        IF newer = {} THEN rows[r]
        ELSE RowOf(CHOOSE e \in newer :
                     \A f \in newer : f.revision <= e.revision)
  BY DEF Applied, RowOf
<1>5. rows[r] = IF Visible(actor, r) THEN StateIn(changes, r, cursor) ELSE Nil
  BY DEF View
<1>6. CASE ~Visible(actor, r)
  <2>1. newer = {}
    BY <1>3, <1>6
  <2>. QED
    BY <1>4, <1>5, <1>6, <2>1 DEF View
<1>7. CASE /\ Visible(actor, r)
           /\ \A i \in (cursor + 1)..next : changes[i].resource # r
  <2>1. newer = {}
    BY <1>3, <1>7
  <2>2. StateIn(changes, r, next) = StateIn(changes, r, cursor)
    <3>1. CASE \A i \in 1..cursor : changes[i].resource # r
      <4>1. \A i \in 1..next : i \in 1..cursor \/ i \in (cursor + 1)..next
        OBVIOUS
      <4>2. \A i \in 1..next : changes[i].resource # r
        BY <1>7, <3>1, <4>1
      <4>. QED
        BY <3>1, <4>2 DEF StateIn
    <3>2. CASE \E i \in 1..cursor : changes[i].resource = r
      <4>1. PICK m \in 1..cursor : IsLast(changes, r, cursor, m)
        BY <3>2, LastExists
      <4>2. \A i \in (m + 1)..next :
              i \in (m + 1)..cursor \/ i \in (cursor + 1)..next
        OBVIOUS
      <4>3. IsLast(changes, r, next, m)
        BY <1>7, <4>1, <4>2 DEF IsLast
      <4>. QED
        BY <4>1, <4>3, LastIsState
    <3>. QED
      BY <3>1, <3>2
  <2>. QED
    BY <1>4, <1>5, <1>7, <2>1, <2>2 DEF View
<1>8. CASE /\ Visible(actor, r)
           /\ \E i \in (cursor + 1)..next : changes[i].resource = r
  <2>1. PICK i \in (cursor + 1)..next : changes[i].resource = r
    BY <1>8
  <2>2. PICK m \in i..next : IsLast(changes, r, next, m)
    <3>1. i \in 1..next
      BY <2>1
    <3>. QED
      BY <2>1, <3>1, LastExists
  <2>3. /\ m \in (cursor + 1)..next /\ m \in 1..Len(changes)
        /\ changes[m].resource = r
        /\ \A j \in (m + 1)..next : changes[j].resource # r
    BY <1>1, <2>1, <2>2 DEF IsLast
  <2>4. changes[m].revision > Held(r)
    <3>1. CASE \A j \in 1..cursor : changes[j].resource # r
      <4>1. rows[r] = Nil
        <5>1. StateIn(changes, r, cursor) = Nil
          BY <3>1 DEF StateIn
        <5>. QED
          BY <1>5, <1>8, <5>1
      <4>. QED
        BY <1>1, <2>3, <4>1 DEF Held
    <3>2. CASE \E j \in 1..cursor : changes[j].resource = r
      <4>1. PICK l \in 1..cursor : IsLast(changes, r, cursor, l)
        <5>1. PICK j \in 1..cursor : changes[j].resource = r
          BY <3>2
        <5>2. \E l \in j..cursor : IsLast(changes, r, cursor, l)
          BY <5>1, LastExists
        <5>. QED
          BY <5>2
      <4>2. rows[r] = RowOf(changes[l])
        <5>1. StateIn(changes, r, cursor) = RowOf(changes[l])
          BY <4>1, LastIsState
        <5>. QED
          BY <1>5, <1>8, <5>1
      <4>3. rows[r].revision = changes[l].revision
        BY <4>2 DEF RowOf
      <4>4. l \in 1..Len(changes) /\ l < m /\ changes[l].resource = r
        BY <1>1, <2>3, <4>1 DEF IsLast
      <4>. QED
        BY <1>1, <1>2, <2>3, <4>3, <4>4 DEF Held
    <3>. QED
      BY <3>1, <3>2
  <2>5. changes[m] \in newer
    BY <1>3, <1>8, <2>3, <2>4
  <2>6. ASSUME NEW f \in newer
        PROVE  /\ f.revision \in Nat /\ f.revision <= changes[m].revision
               /\ f.revision >= changes[m].revision => f = changes[m]
    <3>1. PICK j \in (cursor + 1)..next :
            f = changes[j] /\ changes[j].resource = r
      BY <1>3, <2>6
    <3>2. j \in 1..Len(changes) /\ (j = m \/ j < m)
      BY <1>1, <2>3, <3>1
    <3>. QED
      BY <1>1, <1>2, <2>3, <3>1, <3>2
  <2>. DEFINE best == CHOOSE e \in newer :
                        \A f \in newer : f.revision <= e.revision
  <2>7. best = changes[m]
    <3>1. changes[m] \in newer
          /\ \A f \in newer : f.revision <= changes[m].revision
      BY <2>5, <2>6
    <3>2. best \in newer /\ \A f \in newer : f.revision <= best.revision
      BY <3>1
    <3>. HIDE DEF best, newer
    <3>3. changes[m].revision <= best.revision
      BY <2>5, <3>2
    <3>. QED
      BY <1>1, <2>3, <2>6, <3>2, <3>3
  <2>8. newer # {}
    BY <2>5
  <2>9. StateIn(changes, r, next) = RowOf(changes[m])
    BY <2>2, LastIsState
  <2>. QED
    BY <1>4, <1>8, <2>7, <2>8, <2>9 DEF View
<1>. QED
  BY <1>6, <1>7, <1>8

-----------------------------------------------------------------------------

(* A growing history leaves the answers that were given of it true.        *)
LEMMA PullKept ==
  ASSUME NEW pull, PullShape(pull), PullSound(pull),
         project_epoch' = project_epoch, Extends(changes', changes),
         Len(changes) \in Nat, Len(changes') \in Nat
  PROVE  PullSound(pull)'
<1>1. Len(changes) <= Len(changes')
  BY DEF Extends
<1>2. pull.pc # "idle" /\ pull.epoch = project_epoch
        => pull.head <= Len(changes')
  BY <1>1 DEF PullShape, PullSound
<1>3. ASSUME pull.pc = "snapshot", pull.reply.epoch = project_epoch
      PROVE  /\ pull.reply.at_seq <= Len(changes')
             /\ pull.reply.rows = View(changes', pull.actor, pull.reply.at_seq)
  <2>1. /\ pull.reply.at_seq \in 0..Len(changes)
        /\ pull.reply.rows = View(changes, pull.actor, pull.reply.at_seq)
    BY <1>3 DEF PullShape, PullSound
  <2>2. View(changes', pull.actor, pull.reply.at_seq)
          = View(changes, pull.actor, pull.reply.at_seq)
    BY <2>1, ViewKept
  <2>. QED
    BY <1>1, <2>1, <2>2
<1>4. ASSUME pull.pc = "batch", pull.reply.epoch = project_epoch
      PROVE  /\ pull.reply.next <= Len(changes')
             /\ pull.reply.entries =
                  Shown(pull.actor, pull.reply.cursor, pull.reply.next)'
  <2>1. /\ pull.reply.next \in 0..Len(changes) /\ pull.reply.cursor \in Nat
        /\ pull.reply.entries =
             Shown(pull.actor, pull.reply.cursor, pull.reply.next)
    BY <1>4 DEF PullShape, PullSound
  <2>2. Shown(pull.actor, pull.reply.cursor, pull.reply.next)'
          = Shown(pull.actor, pull.reply.cursor, pull.reply.next)
    BY <2>1, ShownKept
  <2>. QED
    BY <1>1, <2>1, <2>2
<1>. QED
  BY <1>2, <1>3, <1>4 DEF PullSound

(* A growing history leaves the file what it was.                          *)
LEMMA FileKept ==
  ASSUME FileShape, FileSound, UNCHANGED <<meta, rows, project_epoch>>,
         Extends(changes', changes), Len(changes) \in Nat,
         Len(changes') \in Nat
  PROVE  FileSound'
<1>. SUFFICES ASSUME OneProfile, meta # Nil, meta.epoch = project_epoch
              PROVE  /\ meta.cursor <= Len(changes')
                     /\ \A r \in Resources :
                          rows[r] = View(changes', meta.actor, meta.cursor)[r]
  BY DEF FileSound
<1>1. /\ meta.cursor \in 0..Len(changes)
      /\ \A r \in Resources :
           rows[r] = View(changes, meta.actor, meta.cursor)[r]
  BY DEF FileShape, FileSound
<1>2. View(changes', meta.actor, meta.cursor)
        = View(changes, meta.actor, meta.cursor)
  BY <1>1, ViewKept
<1>. QED
  BY <1>1, <1>2 DEF Extends

(* A history that stays extends itself.                                    *)
LEMMA ExtendsItself ==
  ASSUME NEW feed, Len(feed) \in Nat
  PROVE  Extends(feed, feed)
  BY DEF Extends

(* A history that stays is still one.                                      *)
LEMMA RecordedKept ==
  ASSUME Recorded, UNCHANGED <<next_seq, revision, document, changes>>
  PROVE  Recorded'
<1>1. History(changes', next_seq', revision', document')
  BY DEF Recorded
<1>. QED
  BY <1>1 DEF Recorded

(* A growing history leaves the backup that was taken of it sound.         *)
LEMMA DumpKept ==
  ASSUME DumpSound, UNCHANGED <<project_epoch, dump, restored>>,
         Extends(changes', changes), Len(changes) \in Nat,
         Len(changes') \in Nat
  PROVE  DumpSound'
<1>1. ASSUME dump # Nil
      PROVE  /\ dump.project_epoch = project_epoch
             /\ History(dump'.changes, dump'.next_seq, dump'.revision,
                        dump'.document)
             /\ ~restored => Extends(changes', dump'.changes)
  <2>1. /\ dump.project_epoch = project_epoch
        /\ History(dump.changes, dump.next_seq, dump.revision, dump.document)
        /\ ~restored => Extends(changes, dump.changes)
    BY <1>1 DEF DumpSound
  <2>2. Len(dump.changes) \in Nat
    BY <2>1 DEF History
  <2>3. Extends(changes, dump.changes) => Extends(changes', dump.changes)
    BY <2>2 DEF Extends
  <2>. QED
    BY <2>1, <2>3
<1>. QED
  BY <1>1 DEF DumpSound

(* What a step of the service leaves of the mark that a restore set.       *)
Unmarks ==
  rewound' = (rewound /\ ~(/\ meta' = Nil
                           /\ \A p \in Pullers : pulls'[p].pc = "idle"))

(* A step of one pull, on the present history.                             *)
LEMMA OnePullMoves ==
  ASSUME RInv, NEW p \in Pullers, NEW pull, PullShape(pull), Unmarks,
         UNCHANGED <<vars, project_epoch, dump, restored>>,
         pulls' = [pulls EXCEPT ![p] = pull], FileShape',
         ~rewound => PullSound(pull) /\ FileSound'
  PROVE  RInv'
<1>1. UNCHANGED <<next_seq, revision, document, changes>>
  BY DEF vars
<1>2. Recorded' /\ Len(changes) \in Nat
  <2>1. Recorded
    BY DEF RInv
  <2>. QED
    BY <1>1, <2>1, RecordedKept DEF Recorded, History
<1>3. DumpSound'
  <2>1. Extends(changes', changes) /\ Len(changes') \in Nat
    BY <1>1, <1>2, ExtendsItself
  <2>. QED
    BY <1>2, <2>1, DumpKept DEF RInv
<1>4. restored' \in BOOLEAN /\ rewound' \in BOOLEAN /\ (rewound' => restored')
  BY DEF RInv, Unmarks
<1>5. DOMAIN pulls' = Pullers /\ pulls'[p] = pull
      /\ \A q \in Pullers \ {p} : pulls'[q] = pulls[q]
  BY DEF RInv
<1>6. ASSUME NEW q \in Pullers
      PROVE  PullShape(pulls[q])' /\ (~rewound => PullSound(pulls[q])')
  <2>1. PICK c : c = pulls'[q]
    OBVIOUS
  <2>2. PullShape(c) /\ (~rewound => PullSound(c))
    BY <1>5, <2>1 DEF RInv
  <2>3. PullShape(c)'
    BY <2>2 DEF PullShape
  <2>4. ~rewound => PullSound(c)'
    BY <1>1, <1>2, <2>2, PullKept, ExtendsItself
  <2>. QED
    BY <2>1, <2>3, <2>4
<1>7. ASSUME rewound, ~rewound'
      PROVE  FileSound' /\ \A q \in Pullers : PullSound(pulls[q])'
  BY <1>7 DEF Unmarks, FileSound, PullSound
<1>8. ~rewound' => FileSound' /\ \A q \in Pullers : PullSound(pulls[q])'
  BY <1>6, <1>7 DEF RInv
<1>. QED
  BY <1>2, <1>3, <1>4, <1>5, <1>6, <1>8 DEF RInv

-----------------------------------------------------------------------------

(* A pull whose progress and answer change keeps whom and what it is for.  *)
LEMMA TwoFields ==
  ASSUME NEW pull, PullShape(pull), NEW pc, NEW reply, NEW moved,
         moved = [pull EXCEPT !.pc = pc, !.reply = reply]
  PROVE  moved = [pc |-> pc, actor |-> pull.actor, epoch |-> pull.epoch,
                  reply |-> reply, head |-> pull.head]
<1>. DEFINE whole == [pc |-> pull.pc, actor |-> pull.actor,
                      epoch |-> pull.epoch, reply |-> pull.reply,
                      head |-> pull.head]
            first == [whole EXCEPT !.pc = pc]
            second == [first EXCEPT !.reply = reply]
<1>1. pull = whole
  BY DEF PullShape
<1>2. first = [pc |-> pc, actor |-> pull.actor, epoch |-> pull.epoch,
               reply |-> pull.reply, head |-> pull.head]
  OBVIOUS
<1>3. moved = second
  BY <1>1
<1>. HIDE DEF first
<1>4. second = [pc |-> pc, actor |-> pull.actor, epoch |-> pull.epoch,
                reply |-> reply, head |-> pull.head]
  BY <1>2
<1>. QED
  BY <1>3, <1>4

(* A pull at rest says nothing.                                            *)
LEMMA RestingIsSound == PullShape(Resting) /\ PullSound(Resting)
  BY DEF PullShape, PullSound, Resting

(* A step of one pull that leaves the file alone.                          *)
LEMMA OnePullOnly ==
  ASSUME RInv, NEW p \in Pullers, NEW pull, PullShape(pull), Unmarks,
         UNCHANGED <<vars, project_epoch, replica, dump, restored>>,
         pulls' = [pulls EXCEPT ![p] = pull],
         ~rewound => PullSound(pull)
  PROVE  RInv'
<1>1. UNCHANGED <<meta, rows, changes, project_epoch>>
  BY DEF replica, vars
<1>2. FileShape /\ FileShape'
  BY <1>1 DEF RInv, FileShape
<1>3. Len(changes) \in Nat /\ Len(changes') \in Nat
  BY <1>1 DEF RInv, Recorded, History
<1>4. Extends(changes', changes)
  BY <1>1, <1>3, ExtendsItself
<1>5. ~rewound => FileSound'
  BY <1>1, <1>2, <1>3, <1>4, FileKept DEF RInv
<1>. QED
  BY <1>2, <1>5, OnePullMoves

(* A pull that ends leaves nothing to be wrong about.                      *)
LEMMA GivesUp ==
  ASSUME RInv, NEW p \in Pullers, GiveUp(p), Unmarks,
         UNCHANGED <<vars, project_epoch, replica, dump, restored>>
  PROVE  RInv'
<1>1. pulls' = [pulls EXCEPT ![p] = Resting]
  BY DEF GiveUp
<1>. QED
  BY <1>1, RestingIsSound, OnePullOnly

(* A pull begins at the present epoch and head.                            *)
LEMMA Step_StartPull ==
  ASSUME RInv, NEW p \in Pullers, NEW actor \in Profiles,
         StartPull(p, actor), Unmarks, UNCHANGED <<dump, restored>>
  PROVE  RInv'
<1>. DEFINE pull == [pc |-> "identified", actor |-> actor,
                     epoch |-> project_epoch, reply |-> Nil,
                     head |-> next_seq]
            one == [Resting EXCEPT !.pc = "identified"]
            two == [one EXCEPT !.actor = actor]
            three == [two EXCEPT !.epoch = project_epoch]
            four == [three EXCEPT !.head = next_seq]
<1>1. one = [pc |-> "identified", actor |-> Nil, epoch |-> 0, reply |-> Nil,
             head |-> 0]
  BY DEF Resting
<1>2. [Resting EXCEPT !.pc = "identified", !.actor = actor,
                      !.epoch = project_epoch, !.head = next_seq] = four
  OBVIOUS
<1>. HIDE DEF one
<1>3. two = [pc |-> "identified", actor |-> actor, epoch |-> 0,
             reply |-> Nil, head |-> 0]
  BY <1>1
<1>. HIDE DEF two
<1>4. three = [pc |-> "identified", actor |-> actor, epoch |-> project_epoch,
               reply |-> Nil, head |-> 0]
  BY <1>3
<1>. HIDE DEF three
<1>5. four = pull
  BY <1>4
<1>6. pulls' = [pulls EXCEPT ![p] = pull]
  BY <1>2, <1>5 DEF StartPull
<1>7. project_epoch \in Nat /\ next_seq = Len(changes) /\ next_seq \in Nat
  BY DEF RInv, Recorded, History
<1>8. PullShape(pull) /\ PullSound(pull)
  BY <1>7 DEF PullShape, PullSound
<1>9. UNCHANGED <<vars, project_epoch, replica>>
  BY DEF StartPull
<1>. HIDE DEF pull
<1>. QED
  BY <1>6, <1>8, <1>9, OnePullOnly

(* The look at the file moves a pull on or ends it.                        *)
LEMMA Step_VerifyIdentity ==
  ASSUME RInv, NEW p \in Pullers, VerifyIdentity(p), Unmarks,
         UNCHANGED <<dump, restored>>
  PROVE  RInv'
<1>1. UNCHANGED <<vars, project_epoch, replica, dump, restored>>
  BY DEF VerifyIdentity
<1>2. CASE GiveUp(p)
  BY <1>1, <1>2, GivesUp
<1>3. ASSUME NEW pc \in {"empty", "ready"},
             pulls' = [pulls EXCEPT ![p].pc = pc]
      PROVE  RInv'
  <2>1. PICK old : old = pulls[p]
    OBVIOUS
  <2>2. PullShape(old) /\ (~rewound => PullSound(old)) /\ old.pc = "identified"
    BY <2>1 DEF RInv, VerifyIdentity
  <2>. DEFINE pull == [old EXCEPT !.pc = pc]
  <2>3. pull = [pc |-> pc, actor |-> old.actor, epoch |-> old.epoch,
                reply |-> old.reply, head |-> old.head]
    BY <2>2 DEF PullShape
  <2>4. pulls' = [pulls EXCEPT ![p] = pull]
    BY <1>3, <2>1
  <2>. HIDE DEF pull
  <2>5. PullShape(pull) /\ (~rewound => PullSound(pull))
    BY <2>2, <2>3 DEF PullShape, PullSound
  <2>. QED
    BY <1>1, <2>4, <2>5, OnePullOnly
<1>. QED
  BY <1>2, <1>3 DEF VerifyIdentity

(* A snapshot that is fetched is a view of the present head.               *)
LEMMA Step_FetchSnapshot ==
  ASSUME RInv, NEW p \in Pullers, FetchSnapshot(p), Unmarks,
         UNCHANGED <<dump, restored>>
  PROVE  RInv'
<1>1. UNCHANGED <<vars, project_epoch, replica, dump, restored>>
  BY DEF FetchSnapshot
<1>2. CASE GiveUp(p)
  BY <1>1, <1>2, GivesUp
<1>3. CASE pulls' = [pulls EXCEPT ![p] =
             [@ EXCEPT !.pc = "snapshot", !.reply = Snapshot(pulls[p].actor)]]
  <2>1. PICK old : old = pulls[p]
    OBVIOUS
  <2>2. PullShape(old) /\ (~rewound => PullSound(old)) /\ old.pc = "empty"
    BY <2>1 DEF RInv, FetchSnapshot
  <2>3. PICK snapshot : snapshot = Snapshot(old.actor)
    OBVIOUS
  <2>4. /\ snapshot.epoch = project_epoch /\ snapshot.at_seq = next_seq
        /\ snapshot.rows = View(changes, old.actor, next_seq)
    <3>1. snapshot.rows = View(changes, old.actor, next_seq)
      BY <2>3, SnapshotIsView DEF RInv
    <3>. QED
      BY <2>3, <3>1 DEF Snapshot
  <2>5. PICK pull : pull = [old EXCEPT !.pc = "snapshot", !.reply = snapshot]
    OBVIOUS
  <2>6. pull = [pc |-> "snapshot", actor |-> old.actor, epoch |-> old.epoch,
                reply |-> snapshot, head |-> old.head]
    BY <2>2, <2>5, TwoFields
  <2>7. pulls' = [pulls EXCEPT ![p] = pull]
    BY <1>3, <2>1, <2>3, <2>5
  <2>8. project_epoch \in Nat /\ next_seq = Len(changes) /\ next_seq \in Nat
    BY DEF RInv, Recorded, History
  <2>9. PullShape(pull) /\ (~rewound => PullSound(pull))
    BY <2>2, <2>4, <2>6, <2>8 DEF PullShape, PullSound
  <2>. QED
    BY <1>1, <2>7, <2>9, OnePullOnly
<1>. QED
  BY <1>2, <1>3 DEF FetchSnapshot

(* The position that is asked about is that of a written file.             *)
LEMMA Step_ReadCursor ==
  ASSUME RInv, NEW p \in Pullers, ReadCursor(p), Unmarks,
         UNCHANGED <<dump, restored>>
  PROVE  RInv'
<1>1. UNCHANGED <<vars, project_epoch, replica, dump, restored>>
  BY DEF ReadCursor
<1>2. CASE GiveUp(p)
  BY <1>1, <1>2, GivesUp
<1>3. ASSUME meta # Nil,
             pulls' = [pulls EXCEPT ![p] =
               [@ EXCEPT !.pc = "asking",
                         !.reply = [epoch |-> meta.epoch,
                                    cursor |-> meta.cursor]]]
      PROVE  RInv'
  <2>1. PICK old : old = pulls[p]
    OBVIOUS
  <2>2. PullShape(old) /\ (~rewound => PullSound(old)) /\ old.pc = "ready"
    BY <2>1 DEF RInv, ReadCursor
  <2>3. PICK at : at = [epoch |-> meta.epoch, cursor |-> meta.cursor]
    OBVIOUS
  <2>4. at.epoch \in 0..project_epoch /\ at.cursor \in Nat
    BY <1>3, <2>3 DEF RInv, FileShape
  <2>5. PICK pull : pull = [old EXCEPT !.pc = "asking", !.reply = at]
    OBVIOUS
  <2>6. pull = [pc |-> "asking", actor |-> old.actor, epoch |-> old.epoch,
                reply |-> at, head |-> old.head]
    BY <2>2, <2>5, TwoFields
  <2>7. pulls' = [pulls EXCEPT ![p] = pull]
    BY <1>3, <2>1, <2>3, <2>5
  <2>8. PullShape(pull) /\ (~rewound => PullSound(pull))
    BY <2>2, <2>4, <2>6 DEF PullShape, PullSound
  <2>. QED
    BY <1>1, <2>7, <2>8, OnePullOnly
<1>. QED
  BY <1>2, <1>3 DEF ReadCursor

(* A batch ends at the head unless it says that there is more.             *)
LEMMA Step_FetchBatch ==
  ASSUME RInv, NEW p \in Pullers, FetchBatch(p), Unmarks,
         UNCHANGED <<dump, restored>>
  PROVE  RInv'
<1>1. UNCHANGED <<vars, project_epoch, replica, dump, restored>>
  BY DEF FetchBatch
<1>2. CASE GiveUp(p)
  BY <1>1, <1>2, GivesUp
<1>3. ASSUME pulls[p].reply.cursor <= next_seq,
             pulls' = [pulls EXCEPT ![p] =
               [@ EXCEPT !.pc = "batch",
                  !.reply = Batch(pulls[p].actor, pulls[p].reply.cursor)]]
      PROVE  RInv'
  <2>1. PICK old : old = pulls[p]
    OBVIOUS
  <2>2. PullShape(old) /\ (~rewound => PullSound(old)) /\ old.pc = "asking"
    BY <2>1 DEF RInv, FetchBatch
  <2>3. PICK batch : batch = Batch(old.actor, old.reply.cursor)
    OBVIOUS
  <2>4. /\ project_epoch \in Nat /\ next_seq = Len(changes)
        /\ Len(changes) \in Nat /\ old.reply.cursor \in Nat
        /\ old.reply.cursor <= Len(changes) /\ Limit \in Nat
    BY <1>3, <2>1, <2>2, ReplicaAssumption
       DEF RInv, Recorded, History, PullShape
  <2>. DEFINE upto == Low(old.reply.cursor + Limit, Len(changes))
  <2>5. upto \in Nat /\ old.reply.cursor <= upto /\ upto <= Len(changes)
    BY <2>4 DEF Low
  <2>. HIDE DEF upto
  <2>6. /\ batch.epoch = project_epoch /\ batch.cursor = old.reply.cursor
        /\ batch.next = upto
        /\ batch.entries = Shown(old.actor, old.reply.cursor, upto)
        /\ batch.has_more <=> Len(changes) > upto
    BY <2>3 DEF Batch, upto
  <2>7. PICK pull : pull = [old EXCEPT !.pc = "batch", !.reply = batch]
    OBVIOUS
  <2>8. pull = [pc |-> "batch", actor |-> old.actor, epoch |-> old.epoch,
                reply |-> batch, head |-> old.head]
    BY <2>2, <2>7, TwoFields
  <2>9. pulls' = [pulls EXCEPT ![p] = pull]
    BY <1>3, <2>1, <2>3, <2>7
  <2>10. PullShape(pull)
    BY <2>2, <2>4, <2>5, <2>6, <2>8 DEF PullShape
  <2>11. ASSUME ~rewound
         PROVE  PullSound(pull)
    <3>1. old.epoch = project_epoch => old.head <= Len(changes)
      BY <2>2, <2>11 DEF PullSound
    <3>2. ~batch.has_more => upto = Len(changes)
      BY <2>4, <2>5, <2>6
    <3>3. old.head \in Nat
      BY <2>2 DEF PullShape
    <3>. QED
      BY <2>4, <2>5, <2>6, <2>8, <3>1, <3>2, <3>3 DEF PullSound
  <2>. QED
    BY <1>1, <2>9, <2>10, <2>11, OnePullOnly
<1>. QED
  BY <1>2, <1>3 DEF FetchBatch

(* What makes a file that is written sound.                                *)
LEMMA FileWritten ==
  ASSUME UNCHANGED <<changes, project_epoch>>, NEW actor, NEW cursor,
         meta'.actor = actor, meta'.cursor = cursor,
         OneProfile /\ meta'.epoch = project_epoch =>
           /\ cursor <= Len(changes)
           /\ \A r \in Resources :
                rows'[r] = View(changes, actor, cursor)[r]
  PROVE  FileSound'
<1>1. View(changes', meta'.actor, meta'.cursor) = View(changes, actor, cursor)
  OBVIOUS
<1>. QED
  BY <1>1 DEF FileSound

(* An empty file becomes the view that the snapshot is.                    *)
LEMMA Step_ApplySnapshot ==
  ASSUME RInv, NEW p \in Pullers, ApplySnapshot(p), Unmarks,
         UNCHANGED <<dump, restored>>
  PROVE  RInv'
<1>1. UNCHANGED <<vars, project_epoch, dump, restored>>
  BY DEF ApplySnapshot
<1>2. CASE GiveUp(p) /\ UNCHANGED replica
  BY <1>1, <1>2, GivesUp
<1>3. ASSUME meta = Nil,
             meta' = [epoch |-> pulls[p].reply.epoch, actor |-> pulls[p].actor,
                      cursor |-> pulls[p].reply.at_seq],
             rows' = pulls[p].reply.rows,
             pulls' = [pulls EXCEPT ![p] =
               [@ EXCEPT !.pc = "ready", !.reply = Nil]]
      PROVE  RInv'
  <2>1. PICK old : old = pulls[p]
    OBVIOUS
  <2>2. /\ PullShape(old) /\ (~rewound => PullSound(old))
        /\ old.pc = "snapshot"
    BY <2>1 DEF RInv, ApplySnapshot
  <2>3. PICK pull : pull = [old EXCEPT !.pc = "ready", !.reply = Nil]
    OBVIOUS
  <2>4. pull = [pc |-> "ready", actor |-> old.actor, epoch |-> old.epoch,
                reply |-> Nil, head |-> old.head]
    BY <2>2, <2>3, TwoFields
  <2>5. pulls' = [pulls EXCEPT ![p] = pull]
    BY <1>3, <2>1, <2>3
  <2>6. PullShape(pull) /\ (~rewound => PullSound(pull))
    BY <2>2, <2>4 DEF PullShape, PullSound
  <2>7. /\ meta' = [epoch |-> old.reply.epoch, actor |-> old.actor,
                    cursor |-> old.reply.at_seq]
        /\ rows' = old.reply.rows
    BY <1>3, <2>1
  <2>8. /\ meta'.epoch = old.reply.epoch /\ meta'.actor = old.actor
        /\ meta'.cursor = old.reply.at_seq
    BY <2>7
  <2>9. UNCHANGED <<changes, project_epoch>>
    BY <1>1 DEF vars
  <2>10. /\ old.reply.epoch \in 0..project_epoch /\ old.actor \in Profiles
         /\ old.reply.at_seq \in Nat
    BY <2>2 DEF PullShape
  <2>11. FileShape'
    BY <2>7, <2>8, <2>9, <2>10 DEF FileShape
  <2>12. ASSUME ~rewound
         PROVE  FileSound'
    <3>1. SUFFICES ASSUME old.reply.epoch = project_epoch
                   PROVE  /\ old.reply.at_seq <= Len(changes)
                          /\ \A r \in Resources : rows'[r] =
                               View(changes, old.actor, old.reply.at_seq)[r]
      BY <2>8, <2>9, FileWritten
    <3>. QED
      BY <2>2, <2>7, <2>12, <3>1 DEF PullSound
  <2>. QED
    BY <1>1, <2>5, <2>6, <2>11, <2>12, OnePullMoves
<1>. QED
  BY <1>2, <1>3 DEF ApplySnapshot

(* A file at the start of a batch becomes the view at its end.             *)
LEMMA Step_ApplyBatch ==
  ASSUME RInv, NEW p \in Pullers, ApplyBatch(p), Unmarks,
         UNCHANGED <<dump, restored>>
  PROVE  RInv'
<1>1. UNCHANGED <<vars, project_epoch, dump, restored>>
  BY DEF ApplyBatch
<1>2. CASE GiveUp(p) /\ UNCHANGED replica
  BY <1>1, <1>2, GivesUp
<1>3. ASSUME BatchFits(pulls[p].reply),
             rows' = Applied(pulls[p].reply.entries),
             meta' = [meta EXCEPT !.cursor = pulls[p].reply.next],
             NEW pull, pulls' = [pulls EXCEPT ![p] = pull],
             PullShape(pull), ~rewound => PullSound(pull)
      PROVE  RInv'
  <2>1. PICK old : old = pulls[p]
    OBVIOUS
  <2>2. PullShape(old) /\ (~rewound => PullSound(old)) /\ old.pc = "batch"
    BY <2>1 DEF RInv, ApplyBatch
  <2>3. PICK batch : batch = old.reply
    OBVIOUS
  <2>4. /\ meta # Nil /\ meta.epoch = batch.epoch
        /\ meta.cursor = batch.cursor
        /\ rows' = Applied(batch.entries)
        /\ meta' = [meta EXCEPT !.cursor = batch.next]
    BY <1>3, <2>1, <2>3 DEF BatchFits
  <2>5. /\ batch.epoch \in 0..project_epoch /\ batch.cursor \in Nat
        /\ batch.next \in Nat /\ batch.cursor <= batch.next
        /\ old.actor \in Profiles
    BY <2>2, <2>3 DEF PullShape
  <2>6. PICK actor \in Profiles : meta.actor = actor
    BY <2>4 DEF RInv, FileShape
  <2>7. meta' = [epoch |-> batch.epoch, actor |-> actor,
                 cursor |-> batch.next]
    <3>1. PICK file : file = [epoch |-> batch.epoch, actor |-> actor,
                              cursor |-> batch.cursor]
      OBVIOUS
    <3>2. meta = file
      BY <2>4, <2>6, <3>1 DEF RInv, FileShape
    <3>. QED
      BY <2>4, <3>1, <3>2
  <2>8. /\ meta'.epoch = batch.epoch /\ meta'.actor = actor
        /\ meta'.cursor = batch.next
    BY <2>7
  <2>9. UNCHANGED <<changes, project_epoch>>
    BY <1>1 DEF vars
  <2>10. FileShape'
    BY <2>5, <2>7, <2>8, <2>9 DEF FileShape
  <2>11. ASSUME ~rewound
         PROVE  FileSound'
    <3>1. SUFFICES ASSUME OneProfile, batch.epoch = project_epoch
                   PROVE  /\ batch.next <= Len(changes)
                          /\ \A r \in Resources : rows'[r] =
                               View(changes, actor, batch.next)[r]
      BY <2>8, <2>9, FileWritten
    <3>. actor = old.actor
      BY <2>5, <3>1 DEF OneProfile
    <3>2. /\ batch.next <= Len(changes)
          /\ batch.entries = Shown(old.actor, batch.cursor, batch.next)
      BY <2>2, <2>3, <2>11, <3>1 DEF PullSound
    <3>3. \A r \in Resources :
            rows[r] = View(changes, old.actor, batch.cursor)[r]
      BY <2>4, <2>6, <2>11, <3>1 DEF RInv, FileSound
    <3>4. Recorded
      BY DEF RInv
    <3>5. \A r \in Resources :
            Applied(Shown(old.actor, batch.cursor, batch.next))[r]
              = View(changes, old.actor, batch.next)[r]
      BY <2>5, <3>2, <3>3, <3>4, ApplyIsView
    <3>. QED
      BY <2>4, <3>2, <3>5
  <2>. QED
    BY <1>1, <1>3, <2>10, <2>11, OnePullMoves
<1>4. PICK old : old = pulls[p]
  OBVIOUS
<1>5. PullShape(old) /\ (~rewound => PullSound(old)) /\ old.pc = "batch"
  BY <1>4 DEF RInv, ApplyBatch
<1>6. PICK ready : ready = [old EXCEPT !.pc = "ready", !.reply = Nil]
  OBVIOUS
<1>7. ready = [pc |-> "ready", actor |-> old.actor, epoch |-> old.epoch,
               reply |-> Nil, head |-> old.head]
  BY <1>5, <1>6, TwoFields
<1>8. PullShape(ready) /\ (~rewound => PullSound(ready))
  BY <1>5, <1>7 DEF PullShape, PullSound
<1>9. PullShape(Resting) /\ PullSound(Resting)
  BY RestingIsSound
<1>10. ASSUME ~(GiveUp(p) /\ UNCHANGED replica)
       PROVE  /\ BatchFits(pulls[p].reply)
              /\ rows' = Applied(pulls[p].reply.entries)
              /\ meta' = [meta EXCEPT !.cursor = pulls[p].reply.next]
              /\ \/ pulls' = [pulls EXCEPT ![p] = ready]
                 \/ pulls' = [pulls EXCEPT ![p] = Resting]
  BY <1>4, <1>6, <1>10 DEF ApplyBatch, GiveUp
<1>. QED
  BY <1>2, <1>3, <1>8, <1>9, <1>10

(* Where a restore undid what was seen, a reset with nobody pulling        *)
(* leaves nothing to be wrong.                                             *)
LEMMA UnmarkedIsSound ==
  ASSUME rewound, ~rewound', Unmarks
  PROVE  FileSound' /\ \A q \in Pullers : PullSound(pulls[q])'
  BY DEF Unmarks, FileSound, PullSound

(* A commit leaves file, backup and answers true of a longer history.      *)
LEMMA Step_Mutate ==
  ASSUME RInv, Mutate, Unmarks, UNCHANGED <<dump, restored>>
  PROVE  RInv'
<1>1. UNCHANGED <<project_epoch, meta, rows, pulls, dump, restored>>
  BY DEF Mutate, replica
<1>2. PICK c \in Commands : Commit(c)
  BY DEF Mutate, Next
<1>3. Recorded /\ Recorded' /\ Extends(changes', changes)
  BY <1>2, HistoryGrows DEF RInv
<1>4. Len(changes) \in Nat /\ Len(changes') \in Nat
  BY <1>3 DEF Recorded, History
<1>5. DumpSound'
  BY <1>1, <1>3, <1>4, DumpKept DEF RInv
<1>6. FileShape /\ FileShape'
  BY <1>1 DEF RInv, FileShape
<1>7. ASSUME NEW q \in Pullers
      PROVE  PullShape(pulls[q])' /\ (~rewound => PullSound(pulls[q])')
  <2>1. PICK c1 : c1 = pulls[q] /\ c1 = pulls'[q]
    BY <1>1
  <2>2. PullShape(c1) /\ (~rewound => PullSound(c1))
    BY <2>1 DEF RInv
  <2>3. PullShape(c1)'
    BY <1>1, <2>2 DEF PullShape
  <2>4. ~rewound => PullSound(c1)'
    BY <1>1, <1>3, <1>4, <2>2, PullKept
  <2>. QED
    BY <2>1, <2>3, <2>4
<1>8. ~rewound => FileSound'
  BY <1>1, <1>3, <1>4, <1>6, FileKept DEF RInv
<1>9. ~rewound' => FileSound' /\ \A q \in Pullers : PullSound(pulls[q])'
  BY <1>7, <1>8, UnmarkedIsSound
<1>10. restored' \in BOOLEAN /\ rewound' \in BOOLEAN /\ (rewound' => restored')
  BY <1>1 DEF RInv, Unmarks
<1>11. project_epoch' \in Nat /\ DOMAIN pulls' = Pullers
  BY <1>1 DEF RInv
<1>. QED
  BY <1>3, <1>5, <1>6, <1>7, <1>9, <1>10, <1>11 DEF RInv

(* A project begins with an empty history.                                 *)
LEMMA EmptyHistory ==
  History(<< >>, 0, [r \in Resources |-> 0], [r \in Resources |-> Nil])
  BY DEF History

(* A new epoch makes every file and answer one of an earlier history.      *)
LEMMA Step_Recreate ==
  ASSUME RInv, Recreate, Unmarks, UNCHANGED <<dump, restored>>,
         dump # Nil => project_epoch' = project_epoch
  PROVE  RInv'
<1>1. /\ project_epoch \in Nat /\ project_epoch' = project_epoch + 1
      /\ UNCHANGED <<meta, rows, pulls, dump, restored>>
  BY DEF RInv, Recreate, replica
<1>2. Recorded'
  BY EmptyHistory DEF Recreate, Recorded
<1>3. DumpSound'
  BY <1>1 DEF DumpSound
<1>4. FileShape'
  BY <1>1 DEF RInv, FileShape
<1>5. ASSUME NEW q \in Pullers
      PROVE  PullShape(pulls[q])' /\ (~rewound => PullSound(pulls[q])')
  <2>1. PICK c1 : c1 = pulls[q] /\ c1 = pulls'[q]
    BY <1>1
  <2>2. PullShape(c1) /\ (~rewound => PullSound(c1))
    BY <2>1 DEF RInv
  <2>3. PullShape(c1)'
    BY <1>1, <2>2 DEF PullShape
  <2>4. ~rewound => PullSound(c1)'
    BY <1>1, <2>2 DEF PullShape, PullSound
  <2>. QED
    BY <2>1, <2>3, <2>4
<1>6. FileSound'
  BY <1>1 DEF RInv, FileShape, FileSound
<1>7. ~rewound' => FileSound' /\ \A q \in Pullers : PullSound(pulls[q])'
  BY <1>5, <1>6, UnmarkedIsSound
<1>8. restored' \in BOOLEAN /\ rewound' \in BOOLEAN /\ (rewound' => restored')
  BY <1>1 DEF RInv, Unmarks
<1>9. project_epoch' \in Nat /\ DOMAIN pulls' = Pullers
  BY <1>1 DEF RInv
<1>. QED
  BY <1>2, <1>3, <1>4, <1>5, <1>7, <1>8, <1>9 DEF RInv

(* A file that was reset claims nothing.                                   *)
LEMMA Step_Reset ==
  ASSUME RInv, Reset, Unmarks, UNCHANGED <<dump, restored>>
  PROVE  RInv'
<1>1. UNCHANGED <<next_seq, revision, document, changes, project_epoch, pulls,
                  dump, restored>>
  BY DEF Reset, vars
<1>2. meta' = Nil
  BY DEF Reset
<1>3. Recorded'
  BY <1>1, RecordedKept DEF RInv
<1>4. DumpSound'
  <2>1. Len(changes) \in Nat /\ Len(changes') \in Nat
    BY <1>1 DEF RInv, Recorded, History
  <2>2. Extends(changes', changes)
    BY <1>1, <2>1, ExtendsItself
  <2>. QED
    BY <1>1, <2>1, <2>2, DumpKept DEF RInv
<1>5. FileShape' /\ FileSound'
  BY <1>2 DEF FileShape, FileSound
<1>6. ASSUME NEW q \in Pullers
      PROVE  PullShape(pulls[q])' /\ (~rewound => PullSound(pulls[q])')
  <2>1. PullShape(pulls[q]) /\ (~rewound => PullSound(pulls[q]))
    BY DEF RInv
  <2>. QED
    BY <1>1, <2>1
       DEF PullShape, PullSound, Shown
<1>7. ~rewound' => FileSound' /\ \A q \in Pullers : PullSound(pulls[q])'
  BY <1>5, <1>6, UnmarkedIsSound
<1>8. restored' \in BOOLEAN /\ rewound' \in BOOLEAN /\ (rewound' => restored')
  BY <1>1 DEF RInv, Unmarks
<1>9. project_epoch' \in Nat /\ DOMAIN pulls' = Pullers
  BY <1>1 DEF RInv
<1>. QED
  BY <1>3, <1>4, <1>5, <1>6, <1>7, <1>8, <1>9 DEF RInv

(* A backup is of the history it is taken of.                              *)
LEMMA Step_Backup ==
  ASSUME RInv, Backup
  PROVE  RInv'
<1>1. UNCHANGED <<next_seq, revision, document, changes, project_epoch, meta,
                  rows, pulls, restored, rewound>>
  BY DEF Backup, repVars, vars, replica
<1>2. /\ dump'.project_epoch = project_epoch /\ dump'.next_seq = next_seq
      /\ dump'.revision = revision /\ dump'.document = document
      /\ dump'.changes = changes
  BY DEF Backup
<1>3. Recorded /\ Recorded'
  BY <1>1, RecordedKept DEF RInv
<1>4. Extends(changes, changes)
  BY <1>3, ExtendsItself DEF Recorded, History
<1>5. DumpSound'
  <2>1. History(dump'.changes, dump'.next_seq, dump'.revision, dump'.document)
    BY <1>2, <1>3 DEF Recorded
  <2>2. Extends(changes', dump'.changes)
    BY <1>1, <1>2, <1>4
  <2>. QED
    BY <1>1, <1>2, <2>1, <2>2 DEF DumpSound
<1>6. FileShape' /\ (~rewound' => FileSound')
  <2>1. FileShape /\ FileShape'
    BY <1>1 DEF RInv, FileShape
  <2>2. /\ Len(changes) \in Nat /\ Len(changes') \in Nat
        /\ Extends(changes', changes)
    BY <1>1, <1>3, <1>4 DEF Recorded, History
  <2>. QED
    BY <1>1, <2>1, <2>2, FileKept DEF RInv
<1>7. ASSUME NEW q \in Pullers
      PROVE  PullShape(pulls[q])' /\ (~rewound' => PullSound(pulls[q])')
  <2>1. PullShape(pulls[q]) /\ (~rewound => PullSound(pulls[q]))
    BY DEF RInv
  <2>. QED
    BY <1>1, <2>1
       DEF PullShape, PullSound, Shown
<1>. QED
  BY <1>1, <1>3, <1>5, <1>6, <1>7 DEF RInv

(* A restore that undoes nothing the file or a pull has seen leaves the    *)
(* file a view of what the two histories share.                            *)
LEMMA Step_Restore ==
  ASSUME RInv, Restore
  PROVE  RInv'
<1>1. /\ dump # Nil /\ ~restored /\ restored' = TRUE
      /\ UNCHANGED <<meta, rows, pulls, dump>>
  BY DEF Restore, replica
<1>2. /\ dump.project_epoch = project_epoch
      /\ History(dump.changes, dump.next_seq, dump.revision, dump.document)
      /\ Extends(changes, dump.changes)
  BY <1>1 DEF RInv, DumpSound
<1>3. /\ project_epoch' = project_epoch /\ changes' = dump.changes
      /\ next_seq' = dump.next_seq /\ revision' = dump.revision
      /\ document' = dump.document
  BY <1>2 DEF Restore
<1>4. Recorded'
  BY <1>2, <1>3 DEF Recorded
<1>5. DumpSound'
  <2>1. History(dump'.changes, dump'.next_seq, dump'.revision, dump'.document)
    BY <1>1, <1>2
  <2>. QED
    BY <1>1, <1>2, <1>3, <2>1 DEF DumpSound
<1>6. rewound' = Ahead /\ rewound' \in BOOLEAN
  <2>1. rewound' = Ahead
    BY DEF Restore
  <2>2. Ahead \in BOOLEAN
    BY DEF Ahead
  <2>. QED
    BY <2>1, <2>2
<1>7. FileShape /\ FileShape'
  BY <1>1, <1>3 DEF RInv, FileShape
<1>8. ASSUME NEW q \in Pullers
      PROVE  PullShape(pulls[q])'
  BY <1>1, <1>3 DEF RInv, PullShape
<1>9. ASSUME ~Ahead
      PROVE  FileSound' /\ \A q \in Pullers : PullSound(pulls[q])'
  <2>1. \A q \in Pullers : pulls'[q].pc = "idle"
    BY <1>1, <1>9 DEF Ahead
  <2>2. \A q \in Pullers : PullSound(pulls[q])'
    BY <2>1 DEF PullSound
  <2>3. ASSUME OneProfile, meta # Nil, meta.epoch = project_epoch
        PROVE  /\ meta.cursor <= Len(changes')
               /\ \A r \in Resources :
                    rows'[r] = View(changes', meta.actor, meta.cursor)[r]
    <3>1. FileSound
      BY <1>1 DEF RInv
    <3>2. \A r \in Resources :
            rows[r] = View(changes, meta.actor, meta.cursor)[r]
      BY <2>3, <3>1 DEF FileSound
    <3>3. /\ meta.cursor \in Nat /\ Len(dump.changes) \in Nat
          /\ dump.next_seq = Len(dump.changes)
      BY <1>2, <1>7, <2>3 DEF FileShape, History
    <3>4. meta.cursor \in 0..Len(dump.changes)
      BY <1>2, <1>9, <2>3, <3>3 DEF Ahead
    <3>5. View(changes, meta.actor, meta.cursor)
            = View(dump.changes, meta.actor, meta.cursor)
      BY <1>2, <3>3, <3>4, ViewKept
    <3>. QED
      BY <1>1, <1>3, <3>2, <3>4, <3>5
  <2>4. FileSound'
    BY <1>1, <1>3, <2>3 DEF FileSound
  <2>. QED
    BY <2>2, <2>4
<1>10. restored' \in BOOLEAN /\ project_epoch' \in Nat
       /\ DOMAIN pulls' = Pullers
  BY <1>1, <1>3 DEF RInv
<1>. QED
  BY <1>1, <1>4, <1>5, <1>6, <1>7, <1>8, <1>9, <1>10 DEF RInv

(* The steps that need no backup, one by one.                              *)
LEMMA Step_Served ==
  ASSUME RInv, Served
  PROVE  RInv'
<1>1. Unmarks /\ UNCHANGED <<dump, restored>>
  BY DEF Served, Unmarks
<1>2. CASE Mutate
  BY <1>1, <1>2, Step_Mutate
<1>3. CASE Recreate
  BY <1>1, <1>3, Step_Recreate DEF Served
<1>4. CASE Reset
  BY <1>1, <1>4, Step_Reset
<1>5. ASSUME NEW p \in Pullers,
             \/ \E actor \in Profiles : StartPull(p, actor)
             \/ PullStep(p)
             \/ Abandon(p)
      PROVE  RInv'
  <2>1. CASE \E actor \in Profiles : StartPull(p, actor)
    BY <1>1, <2>1, Step_StartPull
  <2>2. CASE VerifyIdentity(p)
    BY <1>1, <2>2, Step_VerifyIdentity
  <2>3. CASE FetchSnapshot(p)
    BY <1>1, <2>3, Step_FetchSnapshot
  <2>4. CASE ApplySnapshot(p)
    BY <1>1, <2>4, Step_ApplySnapshot
  <2>5. CASE ReadCursor(p)
    BY <1>1, <2>5, Step_ReadCursor
  <2>6. CASE FetchBatch(p)
    BY <1>1, <2>6, Step_FetchBatch
  <2>7. CASE ApplyBatch(p)
    BY <1>1, <2>7, Step_ApplyBatch
  <2>8. CASE Abandon(p)
    BY <1>1, <2>8, GivesUp DEF Abandon
  <2>. QED
    BY <1>5, <2>1, <2>2, <2>3, <2>4, <2>5, <2>6, <2>7, <2>8 DEF PullStep
<1>. QED
  BY <1>2, <1>3, <1>4, <1>5 DEF Served, RepNext

(* Nothing changes where nothing moves.                                    *)
LEMMA Step_Stutter ==
  ASSUME RInv, UNCHANGED resVars
  PROVE  RInv'
<1>1. UNCHANGED <<next_seq, revision, document, changes, project_epoch, meta,
                  rows, pulls, dump, restored, rewound>>
  BY DEF resVars, repVars, vars, replica
<1>2. Recorded'
  BY <1>1, RecordedKept DEF RInv
<1>3. /\ Len(changes) \in Nat /\ Len(changes') \in Nat
      /\ Extends(changes', changes)
  <2>1. Len(changes) \in Nat /\ Len(changes') \in Nat
    BY <1>1 DEF RInv, Recorded, History
  <2>. QED
    BY <1>1, <2>1, ExtendsItself
<1>4. DumpSound'
  BY <1>1, <1>3, DumpKept DEF RInv
<1>5. FileShape' /\ (~rewound' => FileSound')
  <2>1. FileShape /\ FileShape'
    BY <1>1 DEF RInv, FileShape
  <2>. QED
    BY <1>1, <1>3, <2>1, FileKept DEF RInv
<1>6. ASSUME NEW q \in Pullers
      PROVE  PullShape(pulls[q])' /\ (~rewound' => PullSound(pulls[q])')
  <2>1. PullShape(pulls[q]) /\ (~rewound => PullSound(pulls[q]))
    BY DEF RInv
  <2>. QED
    BY <1>1, <2>1
       DEF PullShape, PullSound, Shown
<1>. QED
  BY <1>1, <1>2, <1>3, <1>4, <1>5, <1>6 DEF RInv

(* At first there is no file, backup or pull.                              *)
LEMMA InitRInv == ResInit => RInv
<1>. SUFFICES ASSUME ResInit
              PROVE  RInv
  OBVIOUS
<1>1. Recorded
  BY EmptyHistory DEF ResInit, RepInit, Init, Recorded
<1>2. DumpSound /\ FileShape /\ FileSound
  BY DEF ResInit, RepInit, DumpSound, FileShape, FileSound
<1>3. ASSUME NEW q \in Pullers
      PROVE  PullShape(pulls[q]) /\ PullSound(pulls[q])
  <2>1. pulls[q] = Resting
    BY DEF ResInit, RepInit
  <2>. QED
    BY <2>1, RestingIsSound
<1>. QED
  BY <1>1, <1>2, <1>3 DEF ResInit, RepInit, RInv

(* The invariant is inductive.                                             *)
LEMMA NextRInv == RInv /\ [ResNext]_resVars => RInv'
<1>. SUFFICES ASSUME RInv, [ResNext]_resVars
              PROVE  RInv'
  OBVIOUS
<1>. QED
  BY Step_Served, Step_Backup, Step_Restore, Step_Stutter DEF ResNext

(* Whatever is pulled, reset, recreated, backed up or restored, what the   *)
(* service, the file and the pulls hold stays consistent.                  *)
THEOREM ReplicaInvariant == ResSpec => []RInv
BY InitRInv, NextRInv, PTL DEF ResSpec

(* The replica's file is exactly what its actor may see of the project's   *)
(* history at the file's durable cursor, unless a restore undid what the   *)
(* file or a pull in progress had already seen.                            *)
THEOREM FileIsProjection ==
  ASSUME OneProfile
  PROVE  ResSpec => []RestoredIsProjection
<1>1. RInv => RestoredIsProjection
  <2>. SUFFICES ASSUME RInv, ~rewound, meta # Nil, meta.epoch = project_epoch
                PROVE  /\ meta.cursor <= Len(changes)
                       /\ \A r \in Resources :
                            rows[r] = IF Visible(meta.actor, r)
                                      THEN StateAt(r, meta.cursor) ELSE Nil
    BY DEF RestoredIsProjection, ReplicaIsProjection
  <2>1. /\ meta.cursor <= Len(changes)
        /\ \A r \in Resources :
             rows[r] = View(changes, meta.actor, meta.cursor)[r]
    BY DEF RInv, FileSound
  <2>2. ASSUME NEW r \in Resources
        PROVE  StateAt(r, meta.cursor) = StateIn(changes, r, meta.cursor)
    BY DEF StateAt, StateIn
  <2>. QED
    BY <2>1, <2>2 DEF View
<1>. QED
  BY <1>1, ReplicaInvariant, PTL

(* A pull that ends well has caught up with everything that was committed  *)
(* when it began, unless the history it asked about is gone.               *)
THEOREM PullsCover == ResSpec => RestoredPullCovers
<1>1. ASSUME RInv, [ResNext]_resVars, NEW p \in Pullers,
             pulls[p].pc = "batch", BatchFits(pulls[p].reply),
             pulls'[p].pc = "idle", meta' # meta,
             meta.epoch = pulls[p].epoch, ~rewound
      PROVE  meta'.cursor >= pulls[p].head
  <2>1. PICK batch : batch = pulls[p].reply
    OBVIOUS
  <2>2. /\ meta # Nil /\ meta.epoch = batch.epoch
        /\ meta.epoch = pulls[p].epoch
    BY <1>1, <2>1 DEF BatchFits
  <2>3. ~batch.has_more => batch.next >= pulls[p].head
    BY <1>1, <2>1, <2>2 DEF RInv, PullSound
  <2>4. ASSUME NEW q \in Pullers, PullStep(q) \/ Abandon(q)
        PROVE  ApplyBatch(p)
    <3>1. UNCHANGED meta => FALSE
      BY <1>1
    <3>2. pulls'[p] # pulls[p]
      BY <1>1
    <3>. QED
      BY <1>1, <2>4, <3>1, <3>2
         DEF PullStep, Abandon, VerifyIdentity, FetchSnapshot, ApplySnapshot,
             ReadCursor, FetchBatch, ApplyBatch, GiveUp, replica, RInv
  <2>5. ApplyBatch(p)
    BY <1>1, <2>4
       DEF ResNext, Served, RepNext, Mutate, Recreate, Reset, StartPull,
           Backup, Restore, replica, repVars, resVars
  <2>6. ~batch.has_more /\ meta' = [meta EXCEPT !.cursor = batch.next]
    <3>1. PICK old : old = pulls[p]
      OBVIOUS
    <3>2. DOMAIN pulls = Pullers /\ PullShape(old)
      BY <1>1, <3>1 DEF RInv
    <3>3. PICK ready : ready = [old EXCEPT !.pc = "ready", !.reply = Nil]
      OBVIOUS
    <3>4. ready.pc = "ready"
      <4>1. ready = [pc |-> "ready", actor |-> old.actor, epoch |-> old.epoch,
                     reply |-> Nil, head |-> old.head]
        BY <3>2, <3>3, TwoFields
      <4>. QED
        BY <4>1
    <3>5. pulls'[p] # ready
      BY <1>1, <3>4
    <3>6. /\ meta' = [meta EXCEPT !.cursor = batch.next]
          /\ batch.has_more => pulls' = [pulls EXCEPT ![p] = ready]
      BY <1>1, <2>1, <2>5, <3>1, <3>3 DEF ApplyBatch
    <3>. QED
      BY <3>2, <3>5, <3>6
  <2>7. meta'.cursor = batch.next
    <3>1. meta = [epoch |-> meta.epoch, actor |-> meta.actor,
                  cursor |-> meta.cursor]
      BY <1>1, <2>2 DEF RInv, FileShape
    <3>. QED
      BY <2>6, <3>1
  <2>. QED
    BY <2>3, <2>6, <2>7
<1>2. RInv /\ [ResNext]_resVars =>
        [\A p \in Pullers :
           /\ pulls[p].pc = "batch" /\ BatchFits(pulls[p].reply)
           /\ pulls'[p].pc = "idle" /\ meta' # meta
           /\ meta.epoch = pulls[p].epoch
           => rewound \/ meta'.cursor >= pulls[p].head]_resVars
  BY <1>1
<1>. QED
  BY <1>2, ReplicaInvariant, PTL DEF ResSpec, RestoredPullCovers
=============================================================================
