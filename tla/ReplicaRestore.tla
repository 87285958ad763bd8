--------------------------- MODULE ReplicaRestore ---------------------------
(***************************************************************************)
(* Replica with the logical backup and restore of the PostgreSQL store     *)
(* (aidememo-store-postgres/src/backup.rs): pg_dump copies every canonical *)
(* table in one consistent view, and pg_restore --clean puts the tables of *)
(* one such copy back, the project row with its epoch among them.          *)
(***************************************************************************)
EXTENDS Replica

VARIABLES
  dump,     \* the backup at hand, or Nil
  restored, \* the backup was put back
  rewound   \* and that undid what the file or a pull in progress had seen

resVars == <<repVars, dump, restored, rewound>>

ResInit == RepInit /\ dump = Nil /\ restored = FALSE /\ rewound = FALSE

(* create_postgres_backup.  Bounds: one backup is taken, of the first      *)
(* history.                                                                *)
Backup ==
  /\ dump = Nil
  /\ project_epoch = 1
  /\ dump' = [project_epoch |-> project_epoch, next_seq |-> next_seq,
              revision |-> revision, document |-> document,
              receipts |-> receipts, changes |-> changes]
  /\ UNCHANGED <<repVars, restored, rewound>>

(* The file is ahead of the backup, or a pull in progress may be.          *)
Ahead ==
  \/ /\ meta # Nil
     /\ meta.epoch = dump.project_epoch
     /\ meta.cursor > dump.next_seq
  \/ \E p \in Pullers : pulls[p].pc # "idle"

(* Fault: the commands the backup does not know keep their changes.        *)
RestoreRecords ==
  /\ dump # Nil
  /\ ~restored
  /\ restored' = TRUE
  /\ project_epoch' = dump.project_epoch
  /\ next_seq' = dump.next_seq
  /\ revision' = dump.revision
  /\ document' = dump.document
  /\ receipts' = dump.receipts
  /\ rewound' = Ahead
  /\ UNCHANGED <<changes, replica, pulls, dump>>

(* restore_postgres_backup.  Bound: it is put back once.                   *)
Restore ==
  /\ dump # Nil
  /\ ~restored
  /\ restored' = TRUE
  /\ project_epoch' = dump.project_epoch
  /\ next_seq' = dump.next_seq
  /\ revision' = dump.revision
  /\ document' = dump.document
  /\ receipts' = dump.receipts
  /\ changes' = dump.changes
  /\ rewound' = Ahead
  /\ UNCHANGED <<replica, pulls, dump>>

(* A reset while nobody pulls forgets what was undone.  Bound: a project   *)
(* with a backup is not recreated.                                         *)
Served ==
  /\ RepNext
  /\ dump # Nil => project_epoch' = project_epoch
  /\ rewound' = (rewound /\ ~(meta' = Nil /\ \A p \in Pullers : pulls'[p].pc = "idle"))
  /\ UNCHANGED <<dump, restored>>

ResNext == Served \/ Backup \/ Restore

ResSpec == ResInit /\ [][ResNext]_resVars

FairResSpec ==
  /\ ResSpec
  /\ \A p \in Pullers : WF_repVars(PullStep(p))

-----------------------------------------------------------------------------

(* Whatever is pulled, reset, recreated or restored, the file is what its  *)
(* actor may see at its cursor; only a restore that undid what the file or *)
(* a pull in progress had seen spoils it, until it is reset.               *)
RestoredIsProjection == rewound \/ ReplicaIsProjection

(* A pull that ends well has caught up with everything that was committed  *)
(* when it began, unless the history it asked about is gone.               *)
RestoredPullCovers ==
  [][\A p \in Pullers :
       /\ pulls[p].pc = "batch" /\ BatchFits(pulls[p].reply)
       /\ pulls'[p].pc = "idle" /\ meta' # meta
       /\ meta.epoch = pulls[p].epoch
       => rewound \/ meta'.cursor >= pulls[p].head]_resVars
=============================================================================
