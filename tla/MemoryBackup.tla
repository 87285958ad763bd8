---------------------------- MODULE MemoryBackup ----------------------------
(***************************************************************************)
(* MemorySync with local backups of the canonical store and their restore  *)
(* over another store.  A backup copies the hot file, then the cold file,  *)
(* then the hot file again, each a consistent snapshot of its own instant, *)
(* while writers and archivers go on, and reconciles the copies.           *)
(*                                                                         *)
(* A restore is offline: nothing else uses its target.  It moves whole     *)
(* files, so a file of the target is "old" or that of the "backup".        *)
(***************************************************************************)
EXTENDS MemorySync

VARIABLES
  snap,      \* a backup under way, or Nil
  made,      \* the latest backup, or Nil
  target,    \* the files of the store restored over, each "old" or Nil first
  previous,  \* its .restore-prev files
  restoring  \* the step of the latest restore, and the files it found

backup == <<snap, made, target, previous, restoring>>

backVars == <<vars, backup>>

Tiers == {"hot", "cold"}

Files == [Tiers -> {"old", "backup", Nil}]

NoFiles == [tier \in Tiers |-> Nil]

BackInit ==
  /\ Init
  /\ snap = Nil
  /\ made = Nil
  /\ target \in IF "restore" \in scenario.ops THEN [Tiers -> {"old", Nil}]
                ELSE {NoFiles}
  /\ previous = NoFiles
  /\ restoring = [step |-> "none", before |-> NoFiles]

-----------------------------------------------------------------------------
(* snapshot_sqlite_tiers *)

(* Fault: the cold tier is copied first.                                   *)
OrderColdFirst == <<"cold", "hot">>

Order == <<"hot", "cold">>

BackupBegin ==
  /\ "backup" \in scenario.ops
  /\ snap = Nil
  /\ made = Nil
  /\ snap' = [taken |-> 0, hot |-> Nil, cold |-> Nil, due |-> kept]
  /\ UNCHANGED <<vars, made, target, previous, restoring>>

BackupTake ==
  /\ snap # Nil
  /\ snap.taken < 2
  /\ snap' = [snap EXCEPT
       !.taken = @ + 1,
       ![Order[snap.taken + 1]] =
          IF Order[snap.taken + 1] = "hot" THEN up
          ELSE IF cold = EmptyStore THEN Nil ELSE cold]
  /\ UNCHANGED <<vars, made, target, previous, restoring>>

Missing(hotCopy, coldCopy) ==
  {l[1] : l \in coldCopy.linked} \ Entities(hotCopy)

(* The entities that cold facts need come from the later copy of the hot   *)
(* store, and what the cold copy has is dropped from the first.            *)
Reconciled(hotCopy, coldCopy, laterCopy) ==
  LET missing == Missing(hotCopy, coldCopy)
  IN  [hotCopy EXCEPT
         !.entities = [e \in EntityIds |->
                         IF e \in missing THEN laterCopy.entities[e] ELSE @[e]],
         !.names = [n \in Names |->
                      IF laterCopy.names[n] \in missing THEN laterCopy.names[n]
                      ELSE @[n]],
         !.facts = [f \in FactIds |->
                      IF f \in Facts(coldCopy) THEN Nil ELSE @[f]],
         !.linked = {l \in @ : l[2] \notin Facts(coldCopy)}]

(* No name is inserted twice, and every entity of a cold fact is resolved. *)
Reconcilable(hotCopy, coldCopy, laterCopy) ==
  /\ \A n \in Names :
       laterCopy.names[n] \in Missing(hotCopy, coldCopy) => hotCopy.names[n] = Nil
  /\ Missing(hotCopy, coldCopy) \subseteq Entities(laterCopy)

(* The drained cursor of the hot copy goes into the manifest.              *)
Made(hotCopy) ==
  [hot |-> hotCopy, cold |-> snap.cold, due |-> snap.due,
   cursor |-> DrainedCursor(hotCopy)]

BackupEnd ==
  /\ snap # Nil
  /\ snap.taken = 2
  /\ made' = IF snap.cold = Nil THEN Made(snap.hot)
             ELSE IF Reconcilable(snap.hot, snap.cold, up)
             THEN Made(Reconciled(snap.hot, snap.cold, up))
             ELSE Nil
  /\ snap' = Nil
  /\ UNCHANGED <<vars, target, previous, restoring>>

-----------------------------------------------------------------------------
(* restore_from_stored_bytes, with force: otherwise it refuses a target    *)
(* that has a file.                                                        *)

Steps ==
  <<"preserve_hot", "preserve_cold", "remove_hot", "remove_cold",
    "install_hot", "install_cold", "done">>

NextStep(step) == Steps[(CHOOSE i \in 1..6 : Steps[i] = step) + 1]

Restoring == restoring.step \in {Steps[i] : i \in 1..6}

RestoreBegin ==
  /\ "restore" \in scenario.ops
  /\ made # Nil
  /\ ~Restoring
  /\ restoring' = [step |-> "preserve_hot", before |-> target]
  /\ UNCHANGED <<vars, snap, made, target, previous>>

KeepFile(tier) ==
  /\ previous' = IF target[tier] = Nil THEN previous
                 ELSE [previous EXCEPT ![tier] = target[tier]]
  /\ UNCHANGED target

DropFile(tier) ==
  /\ target' = [target EXCEPT ![tier] = Nil]
  /\ UNCHANGED previous

InstallFile(tier) ==
  /\ target' = IF made[tier] = Nil THEN target
               ELSE [target EXCEPT ![tier] = "backup"]
  /\ UNCHANGED previous

RestoreStep ==
  /\ Restoring
  /\ CASE restoring.step = "preserve_hot" -> KeepFile("hot")
       [] restoring.step = "preserve_cold" -> KeepFile("cold")
       [] restoring.step = "remove_hot" -> DropFile("hot")
       [] restoring.step = "remove_cold" -> DropFile("cold")
       [] restoring.step = "install_hot" -> InstallFile("hot")
       [] restoring.step = "install_cold" -> InstallFile("cold")
  /\ restoring' = [restoring EXCEPT !.step = NextStep(@)]
  /\ UNCHANGED <<vars, snap, made>>

(* Fault: only the hot tier is put back.                                   *)
RolledBackHot ==
  [target EXCEPT !["hot"] = IF restoring.before["hot"] = Nil THEN Nil
                            ELSE previous["hot"]]

(* restore_error_with_rollback                                             *)
RolledBack ==
  [tier \in Tiers |->
     IF restoring.before[tier] = Nil THEN Nil ELSE previous[tier]]

otherVars == <<scenario, up, cold, cache, now, issued, waiting, moving, cursor,
               download, branch, late, skipped, kept, gone, writes>>

(* A file operation fails.  Nothing is touched before both are preserved.  *)
RestoreFail ==
  /\ Fault
  /\ Restoring
  /\ target' = IF restoring.step \in {"preserve_hot", "preserve_cold"}
               THEN target ELSE RolledBack
  /\ restoring' = [restoring EXCEPT !.step = "failed"]
  /\ UNCHANGED <<otherVars, snap, made, previous>>

RestoreStop ==
  /\ Fault
  /\ Restoring
  /\ restoring' = [restoring EXCEPT !.step = "stopped"]
  /\ UNCHANGED <<otherVars, snap, made, target, previous>>

-----------------------------------------------------------------------------

BackNext ==
  \/ Next /\ UNCHANGED backup
  \/ BackupBegin
  \/ BackupTake
  \/ BackupEnd
  \/ RestoreBegin
  \/ RestoreStep
  \/ RestoreFail
  \/ RestoreStop

BackSpec == BackInit /\ [][BackNext]_backVars

(* The fairness of MemorySync.                                             *)
FairBackSpec ==
  /\ BackSpec
  /\ []<>~Idle
  /\ []<>~Importing
  /\ WF_vars(PullSave)

-----------------------------------------------------------------------------

(* Whatever was written or archived while its three copies were taken, a   *)
(* backup has every fact that was there when it began and is still there,  *)
(* in one tier; its tables agree, the entities of its cold facts are in    *)
(* its hot tier, and its cursor leaves none of it to be pushed again.      *)
BackupIsComplete ==
  made # Nil =>
    LET archived == IF made.cold = Nil THEN EmptyStore ELSE made.cold
    IN  /\ made.due \cap kept \subseteq Facts(made.hot) \cup Facts(archived)
        /\ Facts(made.hot) \cap Facts(archived) = {}
        /\ NamesAgree(made.hot)
        /\ ContentsDistinct(made.hot)
        /\ LinksAgree(made.hot, gone)
        /\ Missing(made.hot, archived) = {}
        /\ Export(made.hot, made.cursor, Unlimited).records = <<>>

(* A restore that ends well leaves both tiers of the backup and no other   *)
(* file; one that fails leaves what it found; and whenever one stops, what *)
(* it found is still there or preserved.                                   *)
RestoreIsWhole ==
  /\ restoring.step = "done" =>
       \A tier \in Tiers :
         target[tier] = IF made[tier] = Nil THEN Nil ELSE "backup"
  /\ restoring.step = "failed" => target = restoring.before
  /\ \A tier \in Tiers :
       restoring.before[tier] \in {Nil, target[tier], previous[tier]}
=============================================================================
