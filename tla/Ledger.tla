------------------------------- MODULE Ledger -------------------------------
(***************************************************************************)
(* The canonical command ledger of one project, as the CommandStore port   *)
(* promises it: a command commits in one indivisible step that writes the  *)
(* resource head, the receipt, the ordered change entry (with its audit    *)
(* row) and the project sequence, or it leaves no trace.  LedgerTx models  *)
(* the SQL transactions of the two adapters and implements this.           *)
(*                                                                         *)
(* A revision of 0 stands for an absent row; no committed revision is 0.   *)
(***************************************************************************)
EXTENDS Naturals, Sequences

CONSTANTS
  CommandIds,   \* client-generated idempotency keys
  Actors,
  Fingerprints, \* digests of everything in a request but its command id
  Resources,
  Documents,    \* canonical bodies
  Commands,     \* the mutation commands the service may pass down
  Nil           \* a missing row, or the body of a deleted resource

(* A command carries an expected revision of 0 when it states none, and    *)
(* the document Nil when it deletes.                                       *)
ASSUME CommandsAssumption ==
  Commands \subseteq [id : CommandIds, actor : Actors,
                      fingerprint : Fingerprints, resource : Resources,
                      expected : Nat, document : Documents \cup {Nil}]

VARIABLES
  next_seq,     \* ssot_projects.next_seq, the last assigned sequence
  revision,     \* ssot_resources.revision, by resource
  document,     \* ssot_resources.body_json, by resource
  receipts,     \* ssot_receipts, by command id
  changes       \* ssot_changes and ssot_audit in sequence order

vars == <<next_seq, revision, document, receipts, changes>>

Receipts ==
  [actor : Actors, fingerprint : Fingerprints, resource : Resources,
   seq : Nat, revision : Nat]

Changes ==
  [id : CommandIds, actor : Actors, resource : Resources,
   seq : Nat, revision : Nat, document : Documents \cup {Nil}]

ASSUME NilIsNoReceipt == Nil \notin Receipts

-----------------------------------------------------------------------------

Init ==
  /\ next_seq = 0
  /\ revision = [r \in Resources |-> 0]
  /\ document = [r \in Resources |-> Nil]
  /\ receipts = [id \in CommandIds |-> Nil]
  /\ changes = << >>

Remembered(c) == receipts[c.id] # Nil

(* The stored receipt answers a command of the same actor and fingerprint. *)
Replays(c) ==
  /\ Remembered(c)
  /\ receipts[c.id].actor = c.actor
  /\ receipts[c.id].fingerprint = c.fingerprint

RevisionMatches(c) == c.expected = 0 \/ revision[c.resource] = c.expected

(* The rows one transaction writes, from the sequence and the revision it  *)
(* read under the project lock.                                            *)
WriteRows(c, seq, rev) ==
  /\ next_seq' = seq + 1
  /\ revision' = [revision EXCEPT ![c.resource] = rev + 1]
  /\ document' = [document EXCEPT ![c.resource] = c.document]
  /\ receipts' = [receipts EXCEPT ![c.id] =
       [actor |-> c.actor, fingerprint |-> c.fingerprint,
        resource |-> c.resource, seq |-> seq + 1, revision |-> rev + 1]]
  /\ changes' = Append(changes,
       [id |-> c.id, actor |-> c.actor, resource |-> c.resource,
        seq |-> seq + 1, revision |-> rev + 1, document |-> c.document])

Commit(c) ==
  /\ ~Remembered(c)
  /\ RevisionMatches(c)
  /\ WriteRows(c, next_seq, revision[c.resource])

Next == \E c \in Commands : Commit(c)

Spec == Init /\ [][Next]_vars

-----------------------------------------------------------------------------

TypeOK ==
  /\ next_seq \in Nat
  /\ revision \in [Resources -> Nat]
  /\ document \in [Resources -> Documents \cup {Nil}]
  /\ receipts \in [CommandIds -> Receipts \cup {Nil}]
  /\ changes \in Seq(Changes)

(* The feed has no hole and no duplicate: entry i carries sequence i and   *)
(* the project row names the last one.                                     *)
FeedDense ==
  /\ next_seq = Len(changes)
  /\ \A i \in 1..Len(changes) : changes[i].seq = i

(* Receipts and feed entries are the same commits: every receipt points at *)
(* the entry of its own command and every entry has that receipt, so no    *)
(* command id commits twice.                                               *)
ReceiptsMatchFeed ==
  /\ \A id \in CommandIds : receipts[id] # Nil =>
       /\ receipts[id].seq \in 1..Len(changes)
       /\ changes[receipts[id].seq].id = id
  /\ \A i \in 1..Len(changes) :
       LET receipt == receipts[changes[i].id]
       IN  /\ receipt # Nil
           /\ receipt.seq = i
           /\ receipt.actor = changes[i].actor
           /\ receipt.resource = changes[i].resource
           /\ receipt.revision = changes[i].revision

(* Replaying the feed rebuilds the resource table: the head of a resource  *)
(* is its last entry, and its entries carry the revisions 1, 2, 3, ...     *)
LastOf(r, i) ==
  /\ changes[i].resource = r
  /\ \A j \in (i + 1)..Len(changes) : changes[j].resource # r

HeadsMatchFeed ==
  /\ \A r \in Resources :
       \/ /\ revision[r] = 0
          /\ document[r] = Nil
          /\ \A i \in 1..Len(changes) : changes[i].resource # r
       \/ \E i \in 1..Len(changes) :
            /\ LastOf(r, i)
            /\ changes[i].revision = revision[r]
            /\ changes[i].document = document[r]
  /\ \A i \in 1..Len(changes) :
       \/ /\ changes[i].revision = 1
          /\ \A j \in 1..(i - 1) : changes[j].resource # changes[i].resource
       \/ \E j \in 1..(i - 1) :
            /\ changes[j].resource = changes[i].resource
            /\ changes[i].revision = changes[j].revision + 1
            /\ \A k \in (j + 1)..(i - 1) :
                 changes[k].resource # changes[i].resource

(* The feed is append-only and a receipt never changes.                    *)
HistoryIsStable ==
  [][/\ Len(changes') >= Len(changes)
     /\ \A i \in 1..Len(changes) : changes'[i] = changes[i]
     /\ \A id \in CommandIds : receipts[id] # Nil =>
          receipts'[id] = receipts[id]]_vars
=============================================================================
