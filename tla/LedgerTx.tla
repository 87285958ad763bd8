------------------------------ MODULE LedgerTx ------------------------------
(***************************************************************************)
(* The SQL transactions behind Ledger.  Both adapters run the same         *)
(* sequence of statements on each connection: take the project's write     *)
(* lock (SELECT ... FOR UPDATE in PostgreSQL, BEGIN IMMEDIATE in SQLite)   *)
(* and read the project sequence, look up the receipt, read the resource   *)
(* revision, write every row, and commit.  Other connections see the rows  *)
(* of a transaction only after its commit (READ COMMITTED).  A connection  *)
(* may be lost, or a statement time out, between any two statements, and   *)
(* the reply of a commit that took effect may be lost as well.             *)
(***************************************************************************)
EXTENDS Ledger

CONSTANT Conns   \* open database connections

(* How the last transaction of a connection ended, as its caller knows it. *)
Endings == {"committed", "replayed", "conflict", "stale", "lost",
            "storage_conflict"}

ASSUME NilAssumption == Nil \notin Conns \cup Endings

VARIABLES
  lock,          \* connection holding the project row, or Nil
  tx             \* what each connection is doing

txVars == <<next_seq, revision, document, receipts, changes, lock, tx>>

Idle(outcome) ==
  [pc |-> "idle", cmd |-> Nil, seq |-> 0, base |-> 0, outcome |-> outcome]

TxInit ==
  /\ Init
  /\ lock = Nil
  /\ tx = [t \in Conns |-> Idle(Nil)]

(* Fault: the connection goes back with its transaction open.              *)
FinishKeepingLock(t, outcome) ==
  /\ tx' = [tx EXCEPT ![t] = Idle(outcome)]
  /\ UNCHANGED lock

(* Dropping or committing a transaction releases its lock.                 *)
Finish(t, outcome) ==
  /\ tx' = [tx EXCEPT ![t] = Idle(outcome)]
  /\ lock' = IF lock = t THEN Nil ELSE lock

Begin(t, c) ==
  /\ tx[t].pc = "idle"
  /\ tx' = [tx EXCEPT ![t] = [Idle(Nil) EXCEPT !.pc = "begun", !.cmd = c]]
  /\ UNCHANGED <<vars, lock>>

(* Fault: the project row is read without FOR UPDATE.                      *)
LockProjectUnlocked(t) ==
  /\ tx[t].pc = "begun"
  /\ UNCHANGED <<vars, lock>>
  /\ tx' = [tx EXCEPT ![t].pc = "locked", ![t].seq = next_seq]

LockProject(t) ==
  /\ tx[t].pc = "begun"
  /\ lock = Nil
  /\ lock' = t
  /\ tx' = [tx EXCEPT ![t].pc = "locked", ![t].seq = next_seq]
  /\ UNCHANGED vars

(* Fault: the receipt is only looked for after the revision was compared.  *)
ReadReceiptLater(t) ==
  /\ tx[t].pc = "locked"
  /\ tx' = [tx EXCEPT ![t].pc = "unseen"]
  /\ UNCHANGED <<vars, lock>>

ReadReceipt(t) ==
  /\ tx[t].pc = "locked"
  /\ \/ /\ ~Remembered(tx[t].cmd)
        /\ tx' = [tx EXCEPT ![t].pc = "unseen"]
        /\ UNCHANGED lock
     \/ /\ Replays(tx[t].cmd)
        /\ Finish(t, "replayed")
     \/ /\ Remembered(tx[t].cmd)
        /\ ~Replays(tx[t].cmd)
        /\ Finish(t, "conflict")
  /\ UNCHANGED vars

(* Fault: the expected revision is not compared.                           *)
ReadRevisionUnchecked(t) ==
  /\ tx[t].pc = "unseen"
  /\ tx' = [tx EXCEPT ![t].pc = "ready",
                      ![t].base = revision[tx[t].cmd.resource]]
  /\ UNCHANGED <<vars, lock>>

ReadRevision(t) ==
  /\ tx[t].pc = "unseen"
  /\ \/ /\ RevisionMatches(tx[t].cmd)
        /\ tx' = [tx EXCEPT ![t].pc = "ready",
                            ![t].base = revision[tx[t].cmd.resource]]
        /\ UNCHANGED lock
     \/ /\ ~RevisionMatches(tx[t].cmd)
        /\ Finish(t, "stale")
  /\ UNCHANGED vars

(* The compare-and-swap on next_seq and the primary key of the receipts.   *)
WritesFit(t) ==
  /\ next_seq = tx[t].seq
  /\ ~Remembered(tx[t].cmd)

WriteAndCommit(t) ==
  /\ tx[t].pc = "ready"
  /\ \/ /\ WritesFit(t)
        /\ WriteRows(tx[t].cmd, tx[t].seq, tx[t].base)
        /\ \E reply \in {"committed", "lost"} : Finish(t, reply)
     \/ /\ ~WritesFit(t)
        /\ Finish(t, "storage_conflict")
        /\ UNCHANGED vars

(* A lock or statement timeout, or a lost connection: roll back.           *)
Abort(t) ==
  /\ tx[t].pc # "idle"
  /\ Finish(t, "lost")
  /\ UNCHANGED vars

Step(t) ==
  \/ \E c \in Commands : Begin(t, c)
  \/ LockProject(t)
  \/ ReadReceipt(t)
  \/ ReadRevision(t)
  \/ WriteAndCommit(t)
  \/ Abort(t)

TxNext == \E t \in Conns : Step(t)

TxSpec == TxInit /\ [][TxNext]_txVars

(* The server bounds every statement and every wait for a row lock, so a   *)
(* transaction that has begun does not stay where it is for ever.          *)
TxFairness ==
  \A t \in Conns :
    /\ WF_txVars(ReadReceipt(t))
    /\ WF_txVars(ReadRevision(t))
    /\ WF_txVars(WriteAndCommit(t))
    /\ WF_txVars(tx[t].pc = "begun" /\ (LockProject(t) \/ Abort(t)))

-----------------------------------------------------------------------------

TxTypeOK ==
  /\ TypeOK
  /\ lock \in Conns \cup {Nil}
  /\ tx \in [Conns ->
       [pc : {"idle", "begun", "locked", "unseen", "ready"},
        cmd : Commands \cup {Nil}, seq : Nat, base : Nat,
        outcome : Endings \cup {Nil}]]

(* The three tables and the project row agree whenever no transaction is   *)
(* inside its commit: receipts, feed, heads and next_seq are one history.  *)
TablesAgree == FeedDense /\ ReceiptsMatchFeed /\ HeadsMatchFeed

(* Locking the project row first makes outcomes deterministic: no          *)
(* transaction ever reaches a failed compare-and-swap or a duplicate key,  *)
(* which would need a retry of the whole command.                          *)
NoStorageConflict == \A t \in Conns : tx[t].outcome # "storage_conflict"

(* A committed command is never refused: presented again by the same actor *)
(* with the same fingerprint it is answered with its receipt, or with an   *)
(* infrastructure failure, even if its expected revision is now stale.     *)
CommittedIsNeverRefused ==
  [][\A t \in Conns :
       /\ tx[t].pc # "idle"
       /\ tx'[t].outcome \in {"conflict", "stale", "storage_conflict"}
       => ~Replays(tx[t].cmd)]_txVars

(* The SQL transactions implement the indivisible ledger.                  *)
ImplementsLedger == Spec

(* No transaction keeps the project row for ever.                          *)
LockIsReleased == \A t \in Conns : (lock = t) ~> (lock # t)
=============================================================================
