------------------------------ MODULE Replica ------------------------------
(***************************************************************************)
(* The exact-read replica: the server's actor-scoped snapshot and change   *)
(* feed (aidememo-service) and the client that bootstraps and catches up a *)
(* local file (aidememo-client).  A pull is a sequence of HTTP requests    *)
(* and local transactions; between any two of them the project may change, *)
(* be deleted and bootstrapped again under a new epoch, the file may be    *)
(* reset, another process may pull into the same file, and the pull may    *)
(* end with an error or with its process.                                  *)
(***************************************************************************)
EXTENDS Ledger

CONSTANTS
  Pullers,    \* processes that pull into the one replica file
  Profiles,   \* the actors whose remote profiles those processes use
  Limit,      \* largest number of feed entries scanned for one batch
  MaxEpoch,   \* bound on the history generations
  Audience    \* the actors who may see a resource, by resource

ASSUME ReplicaAssumption ==
  /\ Profiles \subseteq Actors
  /\ Limit \in Nat \ {0}
  /\ MaxEpoch \in Nat
  /\ Audience \in [Resources -> SUBSET Actors]

(* resource_visible_to hides every tombstone of a participant-scoped kind; *)
(* no typed route deletes one.                                             *)
ASSUME ScopedNeverDeleted ==
  \A c \in Commands : c.document = Nil => Audience[c.resource] = Actors

VARIABLES
  project_epoch,  \* generation of the canonical history
  meta,           \* replica_meta: the file's epoch, actor and cursor, or Nil
  rows,           \* replica_resources, by resource
  pulls           \* what each puller is doing

replica == <<meta, rows>>

repVars == <<vars, project_epoch, replica, pulls>>

Rows == [revision : Nat, document : Documents \cup {Nil}]

Visible(actor, r) == actor \in Audience[r]

Low(a, b) == IF a <= b THEN a ELSE b

Resting == [pc |-> "idle", actor |-> Nil, epoch |-> 0, reply |-> Nil, head |-> 0]

RepInit ==
  /\ Init
  /\ project_epoch = 1
  /\ meta = Nil
  /\ rows = [r \in Resources |-> Nil]
  /\ pulls = [p \in Pullers |-> Resting]

GiveUp(p) == pulls' = [pulls EXCEPT ![p] = Resting]

-----------------------------------------------------------------------------
(* The server.                                                             *)

Mutate ==
  /\ Next
  /\ UNCHANGED <<project_epoch, replica, pulls>>

(* delete_tenant_data, then bootstrap_project: the same scope with a new   *)
(* ULID for its epoch.                                                     *)
Recreate ==
  /\ project_epoch < MaxEpoch
  /\ project_epoch' = project_epoch + 1
  /\ next_seq' = 0
  /\ revision' = [r \in Resources |-> 0]
  /\ document' = [r \in Resources |-> Nil]
  /\ receipts' = [id \in CommandIds |-> Nil]
  /\ changes' = << >>
  /\ UNCHANGED <<replica, pulls>>

(* CommandService::snapshot: the heads the actor may see, at the head.     *)
Snapshot(actor) ==
  [epoch |-> project_epoch, at_seq |-> next_seq,
   rows |-> [r \in Resources |->
     IF Visible(actor, r) /\ revision[r] # 0
     THEN [revision |-> revision[r], document |-> document[r]]
     ELSE Nil]]

(* The entries in this range of the feed that the actor may see.  They     *)
(* carry their sequence, so the order they are sent in is not kept.        *)
Shown(actor, cursor, upto) ==
  {changes[i] : i \in {j \in (cursor + 1)..upto :
                         Visible(actor, changes[j].resource)}}

(* Fault: a batch without visible entries is taken for the end.            *)
BatchEndsWhenHidden(actor, cursor) ==
  LET upto == Low(cursor + Limit, Len(changes))
  IN  [epoch |-> project_epoch, cursor |-> cursor, next |-> upto,
       entries |-> Shown(actor, cursor, upto),
       has_more |-> Len(changes) > upto /\ Shown(actor, cursor, upto) # {}]

(* Fault: the cursor is that of the last visible entry.                    *)
BatchStaysWhenHidden(actor, cursor) ==
  LET upto == Low(cursor + Limit, Len(changes))
      entries == Shown(actor, cursor, upto)
      last == CHOOSE e \in entries : \A f \in entries : f.seq <= e.seq
  IN  [epoch |-> project_epoch, cursor |-> cursor,
       next |-> IF entries = {} THEN cursor ELSE last.seq,
       entries |-> entries, has_more |-> Len(changes) > upto]

(* CommandService::materialized_changes: Limit entries are scanned, the    *)
(* visible ones returned, and the cursor moves past all of them.           *)
Batch(actor, cursor) ==
  LET upto == Low(cursor + Limit, Len(changes))
  IN  [epoch |-> project_epoch, cursor |-> cursor, next |-> upto,
       entries |-> Shown(actor, cursor, upto),
       has_more |-> Len(changes) > upto]

-----------------------------------------------------------------------------
(* pull_to_current.                                                        *)

(* The identity request of a pull under one profile.                       *)
StartPull(p, actor) ==
  /\ pulls[p].pc = "idle"
  /\ pulls' = [pulls EXCEPT ![p] =
       [Resting EXCEPT !.pc = "identified", !.actor = actor,
                       !.epoch = project_epoch, !.head = next_seq]]
  /\ UNCHANGED <<vars, project_epoch, replica>>

(* verify_identity: an empty file is to be bootstrapped; one of another    *)
(* epoch or actor fails the pull.                                          *)
VerifyIdentity(p) ==
  /\ pulls[p].pc = "identified"
  /\ \/ /\ meta = Nil
        /\ pulls' = [pulls EXCEPT ![p].pc = "empty"]
     \/ /\ meta # Nil
        /\ meta.epoch = pulls[p].epoch
        /\ meta.actor = pulls[p].actor
        /\ pulls' = [pulls EXCEPT ![p].pc = "ready"]
     \/ /\ meta # Nil
        /\ meta.epoch # pulls[p].epoch \/ meta.actor # pulls[p].actor
        /\ GiveUp(p)
  /\ UNCHANGED <<vars, project_epoch, replica>>

FetchSnapshot(p) ==
  /\ pulls[p].pc = "empty"
  /\ \/ /\ project_epoch = pulls[p].epoch
        /\ pulls' = [pulls EXCEPT ![p] =
             [@ EXCEPT !.pc = "snapshot", !.reply = Snapshot(pulls[p].actor)]]
     \/ /\ project_epoch # pulls[p].epoch
        /\ GiveUp(p)
  /\ UNCHANGED <<vars, project_epoch, replica>>

ApplySnapshot(p) ==
  LET snapshot == pulls[p].reply
  IN  /\ pulls[p].pc = "snapshot"
      /\ \/ /\ meta = Nil
            /\ meta' = [epoch |-> snapshot.epoch, actor |-> pulls[p].actor,
                        cursor |-> snapshot.at_seq]
            /\ rows' = snapshot.rows
            /\ pulls' = [pulls EXCEPT ![p] =
                 [@ EXCEPT !.pc = "ready", !.reply = Nil]]
         \/ /\ meta # Nil
            /\ GiveUp(p)
            /\ UNCHANGED replica
      /\ UNCHANGED <<vars, project_epoch>>

(* cursor() and the request for the next batch.  The file's epoch and      *)
(* cursor are sent; the server rejects a foreign epoch and a cursor beyond *)
(* its head.                                                               *)
ReadCursor(p) ==
  /\ pulls[p].pc = "ready"
  /\ \/ /\ meta # Nil
        /\ pulls' = [pulls EXCEPT ![p] =
             [@ EXCEPT !.pc = "asking",
                       !.reply = [epoch |-> meta.epoch,
                                  cursor |-> meta.cursor]]]
     \/ /\ meta = Nil
        /\ GiveUp(p)
  /\ UNCHANGED <<vars, project_epoch, replica>>

FetchBatch(p) ==
  LET cursor == pulls[p].reply
  IN  /\ pulls[p].pc = "asking"
      /\ \/ /\ cursor.epoch = project_epoch
            /\ cursor.cursor <= next_seq
            /\ pulls' = [pulls EXCEPT ![p] =
                 [@ EXCEPT !.pc = "batch",
                           !.reply = Batch(pulls[p].actor, cursor.cursor)]]
         \/ /\ cursor.epoch # project_epoch \/ cursor.cursor > next_seq
            /\ GiveUp(p)
      /\ UNCHANGED <<vars, project_epoch, replica>>

(* apply_resource over the entries of a batch: the newest revision wins,   *)
(* and a revision that is already there must carry the same body.          *)
Held(r) == IF rows[r] = Nil THEN 0 ELSE rows[r].revision

Newer(entries, r) ==
  {e \in entries : e.resource = r /\ e.revision > Held(r)}

Contradicts(entries) ==
  \E e \in entries :
    /\ rows[e.resource] # Nil
    /\ rows[e.resource].revision = e.revision
    /\ rows[e.resource].document # e.document

Applied(entries) ==
  [r \in Resources |->
     IF Newer(entries, r) = {} THEN rows[r]
     ELSE LET e == CHOOSE e \in Newer(entries, r) :
                     \A f \in Newer(entries, r) : f.revision <= e.revision
          IN  [revision |-> e.revision, document |-> e.document]]

(* Fault: the cursor is not compared again inside the transaction.         *)
BatchFitsAnywhere(batch) ==
  /\ meta # Nil
  /\ meta.epoch = batch.epoch
  /\ ~Contradicts(batch.entries)

(* apply_materialized_batch, one transaction, which looks only at the      *)
(* file's epoch and cursor.                                                *)
BatchFits(batch) ==
  /\ meta # Nil
  /\ meta.epoch = batch.epoch
  /\ meta.cursor = batch.cursor
  /\ ~Contradicts(batch.entries)

ApplyBatch(p) ==
  LET batch == pulls[p].reply
  IN  /\ pulls[p].pc = "batch"
      /\ \/ /\ BatchFits(batch)
            /\ rows' = Applied(batch.entries)
            /\ meta' = [meta EXCEPT !.cursor = batch.next]
            /\ IF batch.has_more
               THEN pulls' = [pulls EXCEPT ![p] =
                      [@ EXCEPT !.pc = "ready", !.reply = Nil]]
               ELSE GiveUp(p)
         \/ /\ ~BatchFits(batch)
            /\ GiveUp(p)
            /\ UNCHANGED replica
      /\ UNCHANGED <<vars, project_epoch>>

(* A request fails, the batch limit is reached, or the process dies.       *)
Abandon(p) ==
  /\ pulls[p].pc # "idle"
  /\ GiveUp(p)
  /\ UNCHANGED <<vars, project_epoch, replica>>

(* replica reset --force                                                   *)
Reset ==
  /\ meta # Nil
  /\ meta' = Nil
  /\ rows' = [r \in Resources |-> Nil]
  /\ UNCHANGED <<vars, project_epoch, pulls>>

PullStep(p) ==
  \/ VerifyIdentity(p)
  \/ FetchSnapshot(p)
  \/ ApplySnapshot(p)
  \/ ReadCursor(p)
  \/ FetchBatch(p)
  \/ ApplyBatch(p)

RepNext ==
  \/ Mutate
  \/ Recreate
  \/ Reset
  \/ \E p \in Pullers :
       \/ \E actor \in Profiles : StartPull(p, actor)
       \/ PullStep(p)
       \/ Abandon(p)

RepSpec == RepInit /\ [][RepNext]_repVars

(* A pull in progress keeps running: it is straight-line code whose        *)
(* requests time out.                                                      *)
FairRepSpec ==
  /\ RepSpec
  /\ \A p \in Pullers : WF_repVars(PullStep(p))

-----------------------------------------------------------------------------

(* The state of a resource after the first n changes.                      *)
StateAt(r, n) ==
  IF \A i \in 1..n : changes[i].resource # r THEN Nil
  ELSE LET i == CHOOSE i \in 1..n :
                  /\ changes[i].resource = r
                  /\ \A j \in (i + 1)..n : changes[j].resource # r
       IN  [revision |-> changes[i].revision, document |-> changes[i].document]

(* A replica of the current history is exactly what its actor may see of   *)
(* the project at its durable cursor: "no cached resource can run ahead of *)
(* the durable cursor", none lags behind it, none is another actor's.      *)
ReplicaIsProjection ==
  meta # Nil /\ meta.epoch = project_epoch =>
    /\ meta.cursor <= Len(changes)
    /\ \A r \in Resources :
         rows[r] = IF Visible(meta.actor, r) THEN StateAt(r, meta.cursor) ELSE Nil

(* A pull ends, however the actor's entries are spread over the feed: no   *)
(* batch without visible entries makes it ask for the same range again.    *)
PullsEnd == \A p \in Pullers : pulls[p].pc # "idle" ~> pulls[p].pc = "idle"
=============================================================================
