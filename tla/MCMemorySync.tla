---------------------------- MODULE MCMemorySync ----------------------------
(***************************************************************************)
(* One canonical store and one cache, in a few scenarios, each with the    *)
(* operations that may interfere and a bound on their number.  In the last *)
(* two the canonical store is backed up and restored over another store.   *)
(***************************************************************************)
EXTENDS MemoryBackup

CONSTANTS nx, ny, ca, cb

OneFact == InsertFact(EmptyStore, 1, NewFact(ca, {}, 1))

TwoEntities ==
  PutEntity(PutEntity(EmptyStore, 1, [name |-> nx, aliases |-> {}, at |-> 1]),
            2, [name |-> ny, aliases |-> {}, at |-> 1])

OneEntity == PutEntity(EmptyStore, 1, [name |-> nx, aliases |-> {ny}, at |-> 1])

OneName == PutEntity(EmptyStore, 1, [name |-> nx, aliases |-> {}, at |-> 1])

FactScenario ==
  [start |-> EmptyStore, writes |-> 4, limits |-> {1}, torn |-> FALSE,
   ops |-> {"fact_add", "fact_update", "fact_feedback", "fact_delete"}]

EntityScenario ==
  [start |-> EmptyStore, writes |-> 4, limits |-> {9}, torn |-> TRUE,
   ops |-> {"entity_add", "entity_update", "entity_delete"}]

GraphScenario ==
  [start |-> TwoEntities, writes |-> 3, limits |-> {1}, torn |-> FALSE,
   ops |-> {"entity_update", "entity_delete", "relation_add",
            "relation_remove"}]

ArchiveScenario ==
  [start |-> InsertFact(OneEntity, 1, NewFact(ca, {1}, 1)), writes |-> 3,
   limits |-> {9}, torn |-> FALSE,
   ops |-> {"fact_add", "fact_update", "fact_delete", "entity_delete",
            "archive"}]

BranchScenario ==
  [start |-> OneFact, writes |-> 5, limits |-> {9}, torn |-> FALSE,
   ops |-> {"fact_update", "fork", "branch_fact_add", "branch_fact_update",
            "branch_push", "branch_merge"}]

(* Entities are written, and their names taken over, beside a merge that   *)
(* brings nothing of its own, and nothing pulls.                           *)
MergeScenario ==
  [start |-> OneName, writes |-> 6, limits |-> {}, torn |-> FALSE,
   ops |-> {"entity_add", "entity_update", "entity_delete", "fork",
            "branch_push", "branch_merge"}]

(* Nothing pulls here: what a backup reads is written by the others.       *)
BackupScenario ==
  [start |-> InsertFact(OneEntity, 1, NewFact(ca, {1}, 1)), writes |-> 3,
   limits |-> {}, torn |-> FALSE,
   ops |-> {"fact_add", "fact_supersede", "entity_add", "entity_update",
            "entity_delete", "archive", "backup"}]

RestoreScenario ==
  [start |-> OneFact, writes |-> 1, limits |-> {}, torn |-> FALSE,
   ops |-> {"archive", "backup", "restore"}]

AllScenarios ==
  {FactScenario, EntityScenario, GraphScenario, ArchiveScenario,
   BranchScenario, MergeScenario, BackupScenario, RestoreScenario}

(* A merge beside one writer, and the cache that pulls both.               *)
HiddenScenario ==
  [start |-> EmptyStore, writes |-> 6, limits |-> {9}, torn |-> FALSE,
   ops |-> {"fact_add", "fact_feedback", "fork", "branch_fact_add",
            "branch_push", "branch_merge"}]

HiddenScenarios == {HiddenScenario}

=============================================================================
