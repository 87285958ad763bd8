------------------------------ MODULE MCRecall ------------------------------
EXTENDS Recall

CONSTANTS nx, ny, pa, pb, pc

NoMemos == [f \in MemoIds |-> Nil]

Memo(content, on, created) ==
  [content |-> content, on |-> on, created |-> created, over |-> Nil]

Start1 == [NoMemos EXCEPT ![1] = Memo(pa, {1}, 1)]

Start2 == [Start1 EXCEPT ![2] = Memo(pb, {}, 1)]

Bare ==
  [start |-> Start1, labels |-> <<nx, Nil>>, ops |-> {}, links |-> {{}},
   calls |-> 3, options |-> {}, auto |-> FALSE, manual |-> FALSE,
   spread |-> FALSE, cold |-> FALSE]

LexicalScene ==
  [Bare EXCEPT !.ops = {"fact_add", "fact_update", "fact_delete",
                        "entity_rename", "foreign", "search"},
               !.links = {{}, {1}}]

SemanticScene ==
  [Bare EXCEPT !.ops = {"fact_add", "fact_update", "sync_import", "search",
                        "entity_rename"},
               !.links = {{1}},
               !.options = {"semantic"}]

ArchiveScene ==
  [Bare EXCEPT !.start = Start2,
               !.ops = {"fact_add", "fact_delete", "fact_supersede",
                        "archive_facts", "search"},
               !.options = {"include_archive", "current_only"},
               !.manual = TRUE]

PassScene ==
  [Bare EXCEPT !.start = Start2,
               !.ops = {"fact_add", "fact_delete", "consolidate_semantic",
                        "consolidate_gac"}]

SpreadScene ==
  [Bare EXCEPT !.start = Start2,
               !.ops = {"fact_add", "consolidate_gac", "search"},
               !.spread = TRUE, !.cold = TRUE]

DecisionScene ==
  [Bare EXCEPT !.ops = {"fact_add"}, !.links = {{1}}, !.auto = TRUE,
               !.manual = TRUE]

AllScenes ==
  {LexicalScene, SemanticScene, ArchiveScene, PassScene, SpreadScene,
   DecisionScene}

OnlyDecision == {DecisionScene}

AlikePairs == {{pa, pb}, {pb, pc}}
=============================================================================
