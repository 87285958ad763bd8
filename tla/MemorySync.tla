----------------------------- MODULE MemorySync -----------------------------
(***************************************************************************)
(* Pull-only sync between embedded stores.  A canonical store is written   *)
(* by its agents and archives facts to its cold tier; a read cache pulls   *)
(* it page by page from a saved cursor; and a branch, forked from a backup *)
(* of it, pushes segments that are merged back.                            *)
(*                                                                         *)
(* An exported page, its import into the cache and the saving of the       *)
(* cursor are separate steps.  So are the segments of a merge, the two     *)
(* readings of the store around them, and each record that a merge writes  *)
(* again under a new stamp.  Every import is one transaction for each      *)
(* record and may stop after any of them.                                  *)
(***************************************************************************)
EXTENDS MemoryStore, SequencesExt

CONSTANTS
  Scenarios,  \* a first store, the operations, their bound, the page limits,
              \* and whether writes go on while a page is exported
  MaxClock,   \* bound: instants, in milliseconds of the writers' clock
  MaxFaults   \* bound: crashes and storage failures

ASSUME ScenariosAssumption ==
  \A c \in Scenarios :
    /\ c.start \in Stores
    /\ c.writes \in Nat
    /\ c.limits \subseteq Nat \ {0}
    /\ c.torn \in BOOLEAN
    /\ NamesAgree(c.start)
    /\ ContentsDistinct(c.start)
    /\ LinksAgree(c.start, {})
    /\ RelationsDistinct(c.start)
    /\ \A r \in c.start.relations : r.at <= 1

VARIABLES
  scenario,
  up,       \* the canonical store
  cold,     \* its archive
  cache,    \* the pulling store
  now,
  issued,   \* the greatest id of each kind so far
  waiting,  \* an entity_add between its record and its write lock
  moving,   \* a fact archived to cold and not yet deleted from hot
  cursor,   \* the cursor file of the cache
  listing,  \* the entities as they were listed for a page being exported
  pull,     \* a pull between its request and its saved cursor
  agent,    \* the branch store and the cursor of its baseline
  segments, \* the branch segments pushed so far
  merge,    \* a merge: the entities it listed, what there was before, the
            \* segments left, and what it has still to write again
  late,     \* records last written after a cursor or page had passed their stamp
  skipped,  \* records a saved page did not apply: name or content taken
  kept,     \* facts added and not deleted
  gone,     \* entities deleted
  writes,
  faults

history == <<late, skipped, kept, gone, writes, faults>>

vars == <<scenario, up, cold, cache, now, issued, waiting, moving, cursor,
          listing, pull, agent, segments, merge, history>>

Kinds == {"entity", "fact"}

Ids(kind) == IF kind = "entity" THEN EntityIds ELSE FactIds

(* The wire records of a store, without its relations.                     *)
Wires(s, kind) ==
  LET table == IF kind = "entity" THEN s.entities ELSE s.facts
  IN  {[kind |-> kind, id |-> i, record |-> table[i]] :
         i \in {j \in Ids(kind) : table[j] # Nil}}

AllWires(s) == Wires(s, "entity") \cup Wires(s, "fact")

Key(w) == <<w.kind, w.id>>

-----------------------------------------------------------------------------
(* sync_export *)

Mark(w) == <<w.record.at, w.id>>

(* update_is_after_cursor *)
After(m, n) == m[1] > n[1] \/ (m[1] = n[1] /\ m[2] > n[2])

(* SyncCursor: id 0 and mark <<0, 0>> stand for None.                      *)
StartCursor ==
  [seen |-> [kind \in Kinds |-> 0], mark |-> [kind \in Kinds |-> <<0, 0>>],
   generation |-> Nil, scan |-> Nil]

Take(seq, n) == SubSeq(seq, 1, IF n < Len(seq) THEN n ELSE Len(seq))

(* A finite set in the order of a relation: each comes after its elders.   *)
Sorted(S, before) ==
  [i \in 1..Cardinality(S) |->
     CHOOSE x \in S : Cardinality({y \in S : <<y, x>> \in before}) = i - 1]

NewWires(s, kind, c) ==
  LET new == {w \in Wires(s, kind) : w.id > c.seen[kind]}
  IN  Sorted(new, {p \in new \X new : p[1].id < p[2].id})

ChangedWires(s, kind, c) ==
  LET changed == {w \in Wires(s, kind) :
                    w.id <= c.seen[kind] /\ After(Mark(w), c.mark[kind])}
  IN  Sorted(changed,
             {p \in changed \X changed : After(Mark(p[2]), Mark(p[1]))})

(* Fault: the insert pass moves the update watermark as well.              *)
PageMarkingNew(s, kind, c, limit) ==
  LET new == Take(NewWires(s, kind, c), limit)
      changed == IF Len(new) < limit /\ c.seen[kind] # 0
                 THEN Take(ChangedWires(s, kind, c), limit - Len(new))
                 ELSE <<>>
  IN  [records |-> new \o changed,
       seen |-> IF new = <<>> THEN c.seen[kind] ELSE Last(new).id,
       mark |-> IF changed # <<>> THEN Mark(Last(changed))
                ELSE IF new # <<>> THEN Mark(Last(new)) ELSE c.mark[kind]]

(* Pass A, the ids above the cursor, and pass B, what changed below it.    *)
Page(s, kind, c, limit) ==
  LET new == Take(NewWires(s, kind, c), limit)
      changed == IF Len(new) < limit /\ c.seen[kind] # 0
                 THEN Take(ChangedWires(s, kind, c), limit - Len(new))
                 ELSE <<>>
  IN  [records |-> new \o changed,
       seen |-> IF new = <<>> THEN c.seen[kind] ELSE Last(new).id,
       mark |-> IF changed = <<>> THEN c.mark[kind] ELSE Mark(Last(changed))]

ScanKey(r) == <<r.at, r.from, r.to>>

Before(j, k) ==
  j[1] < k[1] \/ (j[1] = k[1] /\ (j[2] < k[2] \/ (j[2] = k[2] /\ j[3] < k[3])))

Scanned(relations) ==
  Sorted(relations, {p \in relations \X relations :
                       Before(ScanKey(p[1]), ScanKey(p[2]))})

(* The snapshot is the set of relations, and its generation their hash.    *)
Generations == [hash : SUBSET Relations]

ASSUME NilIsNoScan == Nil \notin Generations \cup Nat \X Nat \X Nat

Generation(s) == [hash |-> s.relations]

Pending(s, c) ==
  Scanned(IF c.generation # Generation(s) THEN s.relations
          ELSE IF c.scan = Nil THEN {}
          ELSE {r \in s.relations : Before(c.scan, ScanKey(r))})

RelationPage(s, c, limit) ==
  LET pending == Pending(s, c)
      page == Take(pending, limit)
  IN  [records |-> [i \in DOMAIN page |->
                      [kind |-> "relation", id |-> 0, record |-> page[i]]],
       generation |-> IF limit > 0 THEN Generation(s) ELSE c.generation,
       scan |-> IF limit = 0 THEN c.scan
                ELSE IF page = pending THEN Nil ELSE ScanKey(Last(page))]

Export(s, c, limit) ==
  LET entities == Page(s, "entity", c, limit)
      facts == Page(s, "fact", c, limit - Len(entities.records))
      left == limit - Len(entities.records) - Len(facts.records)
      relations == RelationPage(s, c, left)
      page == [kind \in Kinds |-> IF kind = "entity" THEN entities ELSE facts]
  IN  [records |-> entities.records \o facts.records \o relations.records,
       next |-> [seen |-> [kind \in Kinds |-> page[kind].seen],
                 mark |-> [kind \in Kinds |-> page[kind].mark],
                 generation |-> relations.generation,
                 scan |-> relations.scan]]

(* limit 0 of the options: no limit.                                       *)
Unlimited == 2 * (Cardinality(EntityIds) + Cardinality(FactIds))
               + Cardinality(EntityIds) * Cardinality(EntityIds)

(* snapshot_sync_cursor: exports until one is empty.                       *)
DrainedCursor(s) ==
  LET inserted == Export(s, StartCursor, Unlimited).next
  IN  Export(s, inserted, Unlimited).next

-----------------------------------------------------------------------------
(* sync_import *)

Upsert(s, w) ==
  CASE w.kind = "entity" ->
         LET outcome == EntityOutcome(s, w.id, w.record)
         IN  [outcome |-> outcome,
              store |-> IF outcome = "stored"
                        THEN PutEntity(s, w.id, w.record) ELSE s]
    [] w.kind = "fact" ->
         LET outcome == FactOutcome(s, w.id, w.record)
         IN  [outcome |-> outcome,
              store |-> IF outcome = "stored"
                        THEN PutFact(s, w.id, w.record) ELSE s]
    [] w.kind = "relation" ->
         [outcome |-> "stored", store |-> PutRelation(s, w.record)]

(* One record of a page, and one that meets a storage failure.             *)
Imported(done, w, failing) ==
  IF failing THEN [done EXCEPT !.errors = @ + 1]
  ELSE LET result == Upsert(done.store, w)
       IN  [store |-> result.store,
            errors |-> IF result.outcome = "error" THEN done.errors + 1
                       ELSE done.errors,
            taken |-> IF result.outcome = "taken" THEN done.taken \cup {w}
                      ELSE done.taken]

(* Apply a page.  The record at position failed meets a storage failure.   *)
Import(s, records, failed) ==
  LET done[i \in 0..Len(records)] ==
        IF i = 0 THEN [store |-> s, errors |-> 0, taken |-> {}]
        ELSE Imported(done[i - 1], records[i], i = failed)
  IN  done[Len(records)]

-----------------------------------------------------------------------------
(* What a cursor has passed.                                               *)

Behind(w, c) ==
  w.id <= c.seen[w.kind] /\ ~After(Mark(w), c.mark[w.kind])

Passed(w) == Behind(w, cursor) \/ (pull # Nil /\ Behind(w, pull.next))

(* A version that is as new by its stamp is in the cache or on its way.    *)
Exported(w) ==
  \E v \in AllWires(cache) \cup (IF pull = Nil THEN {} ELSE Range(pull.records)) :
    Key(v) = Key(w) /\ v.record.at >= w.record.at

(* A transaction on the canonical store.                                   *)
Commit(new) ==
  /\ up' = new
  /\ late' = {Key(w) : w \in
                {v \in AllWires(new) :
                   IF v \in AllWires(up) THEN Key(v) \in late
                   ELSE Passed(v) \/ Exported(v)}}

Init ==
  /\ scenario \in Scenarios
  /\ up = scenario.start
  /\ cold = EmptyStore
  /\ cache = EmptyStore
  /\ now = 1
  /\ issued = [kind \in Kinds |-> Max({w.id : w \in Wires(up, kind)} \cup {0})]
  /\ waiting = Nil
  /\ moving = Nil
  /\ cursor = StartCursor
  /\ listing = Nil
  /\ pull = Nil
  /\ agent = Nil
  /\ segments = <<>>
  /\ merge = Nil
  /\ late = {}
  /\ skipped = {}
  /\ kept = Facts(up)
  /\ gone = {}
  /\ writes = 0
  /\ faults = 0

(* A write of this kind, at this instant or the next.                      *)
Writing(op) ==
  /\ op \in scenario.ops
  /\ writes < scenario.writes
  /\ writes' = writes + 1
  /\ now' \in {now, now + 1}
  /\ now' <= MaxClock

Fresh(kind, i) ==
  /\ i \in Ids(kind)
  /\ i = issued[kind] + 1
  /\ issued' = [issued EXCEPT ![kind] = i]

sides == <<scenario, cold, cache, cursor, skipped, faults>>

branch == <<agent, segments, merge>>

download == <<listing, pull>>

(* EntityRecord::new stamps the record before the transaction begins.      *)
EntityStamp(e, name, aliases) ==
  /\ Writing("entity_add")
  /\ waiting = Nil
  /\ Fresh("entity", e)
  /\ waiting' = [id |-> e,
                 record |-> [name |-> name, aliases |-> aliases, at |-> now']]
  /\ UNCHANGED <<up, late, download, moving, kept, gone, branch, sides>>

EntityInsert ==
  /\ waiting # Nil
  /\ \/ /\ NamesFree(up, waiting.id, waiting.record)
        /\ Commit(PutEntity(up, waiting.id, waiting.record))
     \/ /\ ~NamesFree(up, waiting.id, waiting.record)
        /\ UNCHANGED <<up, late>>
  /\ waiting' = Nil
  /\ UNCHANGED <<now, issued, writes, download, moving, kept, gone, branch, sides>>

EntityUpdate(e, name) ==
  LET record == Renamed(up.entities[e], name, now')
  IN  /\ Writing("entity_update")
      /\ e \in Entities(up)
      /\ name \notin record.aliases
      /\ NamesFree(up, e, record)
      /\ Commit(PutEntity(up, e, record))
      /\ UNCHANGED <<issued, waiting, download, moving, kept, gone, branch, sides>>

EntityDelete(e) ==
  /\ Writing("entity_delete")
  /\ e \in Entities(up)
  /\ Commit(WithoutEntity(up, e))
  /\ gone' = gone \cup {e}
  /\ UNCHANGED <<issued, waiting, download, moving, kept, branch, sides>>

(* sqlite_fact_add_many_once, for one input.                               *)
FactAdd(content, links) ==
  /\ Writing("fact_add")
  /\ \/ \E f \in Holding(up, content) :
          /\ Commit(MergedFact(up, f, links))
          /\ UNCHANGED <<issued, kept>>
     \/ /\ Holding(up, content) = {}
        /\ \E f \in FactIds :
             /\ Fresh("fact", f)
             /\ Commit(InsertFact(up, f, NewFact(content, links, now')))
             /\ kept' = kept \cup {f}
  /\ UNCHANGED <<waiting, download, moving, gone, branch, sides>>

(* fact_update with a new content; the stamp is the clock.                 *)
FactUpdate(f, content) ==
  /\ Writing("fact_update")
  /\ f \in Facts(up)
  /\ ContentFree(up, f, content)
  /\ Commit(UpdateFact(up, f, [up.facts[f] EXCEPT !.content = content,
                                                  !.at = now']))
  /\ UNCHANGED <<issued, waiting, download, moving, kept, gone, branch, sides>>

(* AideMemo::fact_supersede                                                *)
FactSupersede(f, g) ==
  /\ Writing("fact_supersede")
  /\ f \in Facts(up)
  /\ g \in Facts(up)
  /\ up.facts[f].by = Nil
  /\ Commit(UpdateFact(up, f, [up.facts[f] EXCEPT !.by = g, !.at = now']))
  /\ UNCHANGED <<issued, waiting, download, moving, kept, gone, branch, sides>>

FactFeedback(f) ==
  /\ Writing("fact_feedback")
  /\ f \in Facts(up)
  /\ Commit(UpdateFact(up, f,
       [up.facts[f] EXCEPT !.at = Stamped(up.facts[f], now')]))
  /\ UNCHANGED <<issued, waiting, download, moving, kept, gone, branch, sides>>

FactDelete(f) ==
  /\ Writing("fact_delete")
  /\ f \in Facts(up)
  /\ Commit(WithoutFact(up, f))
  /\ kept' = kept \ {f}
  /\ UNCHANGED <<issued, waiting, download, moving, gone, branch, sides>>

RelationAdd(d, e) ==
  /\ Writing("relation_add")
  /\ {d, e} \subseteq Entities(up)
  /\ Commit(PutRelation(up, [from |-> d, to |-> e, at |-> now']))
  /\ UNCHANGED <<issued, waiting, download, moving, kept, gone, branch, sides>>

RelationRemove(r) ==
  /\ Writing("relation_remove")
  /\ r \in up.relations
  /\ Commit([up EXCEPT !.relations = @ \ {r}])
  /\ UNCHANGED <<issued, waiting, download, moving, kept, gone, branch, sides>>

-----------------------------------------------------------------------------
(* fact_archive_to, for one fact: copy it to the cold tier, verify that    *)
(* the cold tier can answer its id, delete it from the hot one.            *)

Fault == faults < MaxFaults /\ faults' = faults + 1

hot == <<up, late, issued, waiting, now>>

others == <<scenario, cache, cursor, skipped, download, branch, kept, gone>>

(* Fault: a copy that was not stored is taken for an earlier one.          *)
ArchiveCopyUnverified(f) ==
  /\ Writing("archive")
  /\ moving = Nil
  /\ f \in Facts(up)
  /\ cold' = IF FactOutcome(cold, f, up.facts[f]) = "stored"
             THEN PutFact(cold, f, up.facts[f]) ELSE cold
  /\ moving' = f
  /\ UNCHANGED <<up, late, issued, waiting, faults, others>>

ArchiveCopy(f) ==
  /\ Writing("archive")
  /\ moving = Nil
  /\ f \in Facts(up)
  /\ \/ /\ FactOutcome(cold, f, up.facts[f]) = "stored"
        /\ cold' = PutFact(cold, f, up.facts[f])
        /\ moving' = f
     \/ /\ FactOutcome(cold, f, up.facts[f]) # "stored"
        /\ moving' = IF /\ f \in Facts(cold)
                        /\ cold.facts[f].content = up.facts[f].content
                        /\ cold.facts[f].links = up.facts[f].links
                     THEN f ELSE Nil
        /\ UNCHANGED cold
  /\ UNCHANGED <<up, late, issued, waiting, faults, others>>

ArchiveDrop ==
  /\ moving # Nil
  /\ \/ /\ moving \in Facts(up)
        /\ Commit(WithoutFact(up, moving))
     \/ /\ moving \notin Facts(up)
        /\ UNCHANGED <<up, late>>
  /\ moving' = Nil
  /\ UNCHANGED <<now, issued, waiting, cold, writes, faults, others>>

(* The archiving process stops between its two transactions.               *)
ArchiveStop ==
  /\ Fault
  /\ moving # Nil
  /\ moving' = Nil
  /\ UNCHANGED <<hot, cold, writes, others>>

-----------------------------------------------------------------------------
(* drain_pull, under the cursor lock: one cycle of it.                     *)

canonical == <<scenario, up, cold, now, issued, waiting, moving, branch,
               kept, gone, writes>>

Idle == pull = Nil

Importing == pull # Nil /\ ~pull.applied

(* sync_export lists the entities first.                                   *)
PullRead ==
  /\ scenario.torn
  /\ pull = Nil
  /\ listing = Nil
  /\ listing' = up.entities
  /\ UNCHANGED <<canonical, late, cache, cursor, pull, skipped, faults>>

(* Then it reads each of them by its id: as listed or, when it was written *)
(* meanwhile, as it is now; one that was deleted is left out.  Facts and   *)
(* relations are read by one query each.                                   *)
Readings(listed) ==
  IF listed = Nil THEN {up.entities}
  ELSE {[e \in EntityIds |->
           IF listed[e] = Nil \/ e \in old THEN listed[e] ELSE up.entities[e]] :
        old \in SUBSET EntityIds}

(* The store with its entities as they were read.                          *)
ReadStore(read) == [up EXCEPT !.entities = read]

(* A version that is older than what was read of it.                       *)
Outdated(v, read) == read[v.id] # Nil /\ read[v.id].at >= v.record.at

PullPage(limit) ==
  /\ pull = Nil
  /\ scenario.torn <=> listing # Nil
  /\ \E read \in Readings(listing) :
       LET page == Export(ReadStore(read), cursor, limit)
       IN  /\ pull' = [records |-> page.records, next |-> page.next,
                       applied |-> FALSE, taken |-> {}]
           /\ late' = late \cup {Key(w) : w \in
                {v \in Wires(up, "entity") :
                   /\ read[v.id] # v.record
                   /\ Behind(v, page.next) \/ Outdated(v, read)}}
  /\ listing' = Nil
  /\ UNCHANGED <<canonical, cache, cursor, skipped, faults>>

(* sync_import, where the record at position failed, if there is one,      *)
(* meets a storage failure, and ensure_sync_import_complete.               *)
PullApply(failed) ==
  /\ pull # Nil
  /\ ~pull.applied
  /\ failed \in 0..Len(pull.records)
  /\ \/ failed = 0 /\ UNCHANGED faults
     \/ failed # 0 /\ Fault
  /\ LET done == Import(cache, pull.records, failed)
     IN  /\ cache' = done.store
         /\ pull' = IF done.errors > 0 THEN Nil
                    ELSE [pull EXCEPT !.applied = TRUE, !.taken = done.taken]
  /\ UNCHANGED <<canonical, late, cursor, listing, skipped>>

PullSave ==
  /\ pull # Nil
  /\ pull.applied
  /\ cursor' = pull.next
  /\ skipped' = skipped \cup pull.taken
  /\ pull' = Nil
  /\ UNCHANGED <<canonical, late, cache, listing, faults>>

(* The request fails, or the puller stops: after some of the records, or   *)
(* before it saved the cursor.                                             *)
PullStop ==
  /\ Fault
  /\ \/ /\ listing # Nil
        /\ UNCHANGED cache
     \/ /\ Importing
        /\ \E n \in 0..Len(pull.records) :
             cache' = Import(cache, SubSeq(pull.records, 1, n), 0).store
     \/ /\ pull # Nil /\ pull.applied
        /\ UNCHANGED cache
  /\ listing' = Nil
  /\ pull' = Nil
  /\ UNCHANGED <<canonical, late, cursor, skipped>>

-----------------------------------------------------------------------------
(* Branches. *)

local == <<scenario, cold, cache, cursor, download, moving, waiting, skipped,
           kept, gone>>

(* A store restored from a backup of the canonical one, whose manifest     *)
(* states the drained cursor of the snapshot.                              *)
Fork ==
  /\ Writing("fork")
  /\ agent = Nil
  /\ agent' = [store |-> up, since |-> DrainedCursor(up)]
  /\ UNCHANGED <<up, late, issued, segments, merge, faults, local>>

BranchFactAdd(f, content) ==
  /\ Writing("branch_fact_add")
  /\ agent # Nil
  /\ Holding(agent.store, content) = {}
  /\ Fresh("fact", f)
  /\ agent' = [agent EXCEPT !.store =
                 InsertFact(agent.store, f, NewFact(content, {}, now'))]
  /\ UNCHANGED <<up, late, segments, merge, faults, local>>

BranchFactUpdate(f, content) ==
  /\ Writing("branch_fact_update")
  /\ agent # Nil
  /\ f \in Facts(agent.store)
  /\ ContentFree(agent.store, f, content)
  /\ agent' = [agent EXCEPT !.store =
                 UpdateFact(agent.store, f,
                   [agent.store.facts[f] EXCEPT !.content = content,
                                                !.at = now'])]
  /\ UNCHANGED <<up, late, issued, segments, merge, faults, local>>

(* push_local_branch_for_wiki                                              *)
Push ==
  /\ Writing("branch_push")
  /\ agent # Nil
  /\ segments' = Append(segments,
                        Export(agent.store, agent.since, Unlimited).records)
  /\ UNCHANGED <<up, late, issued, agent, merge, faults, local>>

(* merge_local_branches_for_wiki; MergeRecordSnapshot::capture lists the   *)
(* entities first, before the segments and again after them.               *)
MergeBegin ==
  /\ Writing("branch_merge")
  /\ merge = Nil
  /\ segments # <<>>
  /\ merge' = [listed |-> up.entities, before |-> Nil, left |-> segments,
               todo |-> {}]
  /\ UNCHANGED <<up, late, issued, agent, segments, faults, local>>

MergeList ==
  /\ merge # Nil
  /\ merge.before # Nil
  /\ merge.left = <<>>
  /\ merge.listed = Nil
  /\ merge.todo = {}
  /\ merge' = [merge EXCEPT !.listed = up.entities]
  /\ UNCHANGED <<up, late, now, issued, writes, agent, segments, faults, local>>

(* Each listed entity is read by its id, and the facts by one query.  One  *)
(* that was deleted before it was read fails the merge.                    *)
Lost(read) == \E e \in EntityIds : merge.listed[e] # Nil /\ read[e] = Nil

MergeLost ==
  /\ merge # Nil
  /\ merge.listed # Nil
  /\ \E read \in Readings(merge.listed) : Lost(read)
  /\ merge' = Nil
  /\ UNCHANGED <<up, late, now, issued, writes, agent, segments, faults, local>>

MergeFound(read) ==
  /\ ~Lost(read)
  /\ merge.before = Nil
  /\ merge' = [merge EXCEPT !.listed = Nil, !.before = AllWires(ReadStore(read))]
  /\ UNCHANGED <<up, late, now, issued, writes, agent, segments, faults, local>>

(* One segment; a record that fails is counted and passed over.            *)
MergeSegment(failed) ==
  /\ merge # Nil
  /\ merge.before # Nil
  /\ merge.left # <<>>
  /\ failed \in 0..Len(Head(merge.left))
  /\ \/ failed = 0 /\ UNCHANGED faults
     \/ failed # 0 /\ Fault
  /\ Commit(Import(up, Head(merge.left), failed).store)
  /\ merge' = [merge EXCEPT !.left = Tail(@)]
  /\ UNCHANGED <<now, issued, writes, agent, segments, local>>

Newest(wires) == Max({w.record.at : w \in wires} \cup {0})

Restamped(w, t) == [w EXCEPT !.record.at = t]

(* make_merged_records_sync_visible: what differs from what there was      *)
(* before is to be written again, under one stamp that is beyond all that  *)
(* was read.                                                               *)
MergeChanged(read) ==
  LET after == AllWires(ReadStore(read))
      changed == after \ merge.before
      stamp == Larger(Newest(merge.before \cup after) + 1, now')
  IN  /\ ~Lost(read)
      /\ merge.before # Nil
      /\ now' \in {now, now + 1}
      /\ now' <= MaxClock
      /\ merge' = IF changed = {} THEN Nil
                  ELSE [merge EXCEPT !.listed = Nil,
                                     !.todo = {Restamped(w, stamp) : w \in changed}]
      /\ UNCHANGED <<up, late, issued, writes, agent, segments, faults, local>>

MergeCapture ==
  /\ merge # Nil
  /\ merge.listed # Nil
  /\ \E read \in Readings(merge.listed) : MergeFound(read) \/ MergeChanged(read)

(* Then one upsert, a transaction, for each of them as it was read, the    *)
(* entities first.  One that fails ends the merge.                         *)
MergeUpsert(w) ==
  LET result == Upsert(up, w)
  IN  /\ merge # Nil
      /\ w \in merge.todo
      /\ w.kind = "fact" => \A v \in merge.todo : v.kind = "fact"
      /\ Commit(result.store)
      /\ merge' = IF result.outcome = "error" \/ merge.todo = {w} THEN Nil
                  ELSE [merge EXCEPT !.todo = @ \ {w}]
      /\ UNCHANGED <<now, issued, writes, agent, segments, faults, local>>

(* A segment cannot be read, the store fails or the process stops: what    *)
(* was imported and written again stays.                                   *)
MergeStop ==
  /\ Fault
  /\ merge # Nil
  /\ merge' = Nil
  /\ UNCHANGED <<up, late, now, issued, writes, agent, segments, local>>

-----------------------------------------------------------------------------

Next ==
  \/ \E e \in EntityIds, n \in Names :
       \/ \E aliases \in {{}} \cup {{m} : m \in Names \ {n}} :
            EntityStamp(e, n, aliases)
       \/ EntityUpdate(e, n)
  \/ EntityInsert
  \/ \E e \in EntityIds : EntityDelete(e)
  \/ \E c \in Contents, links \in SUBSET Entities(up) : FactAdd(c, links)
  \/ \E f \in FactIds :
       \/ \E c \in Contents :
            \/ FactUpdate(f, c)
            \/ BranchFactAdd(f, c)
            \/ BranchFactUpdate(f, c)
       \/ \E g \in FactIds : FactSupersede(f, g)
       \/ FactFeedback(f)
       \/ FactDelete(f)
       \/ ArchiveCopy(f)
  \/ \E d, e \in EntityIds : RelationAdd(d, e)
  \/ \E r \in up.relations : RelationRemove(r)
  \/ ArchiveDrop
  \/ ArchiveStop
  \/ PullRead
  \/ \E limit \in scenario.limits : PullPage(limit)
  \/ \E failed \in 0..Unlimited : PullApply(failed) \/ MergeSegment(failed)
  \/ PullSave
  \/ PullStop
  \/ Fork
  \/ Push
  \/ MergeBegin
  \/ MergeList
  \/ MergeCapture
  \/ MergeLost
  \/ merge # Nil /\ \E w \in merge.todo : MergeUpsert(w)
  \/ MergeStop

Spec == Init /\ [][Next]_vars

(* The pull runs on a timer, and a local import ends: weak fairness of     *)
(* PullRead and PullPage, one of which is enabled whenever the pull is     *)
(* idle and which alone end that, of PullApply(0), the same while it is    *)
(* importing, and of PullSave.                                             *)
FairSpec ==
  /\ Spec
  /\ []<>~Idle
  /\ []<>~Importing
  /\ WF_vars(PullSave)

-----------------------------------------------------------------------------

(* The tables of every store are one another's indexes: a name finds the   *)
(* entity that bears it, a content is in one fact, and the entity index    *)
(* lacks only what a deletion took.                                        *)
StoresAgree ==
  \A s \in {up, cache, cold} :
    NamesAgree(s) /\ ContentsDistinct(s) /\ LinksAgree(s, gone)

RecordsCovered ==
  \A w \in AllWires(up) :
    Behind(w, cursor) =>
      w \in AllWires(cache) \/ Key(w) \in late \/ w \in skipped

RelationsCovered ==
  /\ cursor.generation = Generation(up)
  /\ cursor.scan = Nil
  => up.relations \subseteq cache.relations

(* A record no later pull will be sent is in the cache as it is, unless it *)
(* was last written under a stamp that a cursor or an exported version of  *)
(* it had reached, or after its page had read it, or its page found the    *)
(* name or content taken; and a scan of the relations that is complete has *)
(* left every relation in the cache, although they have no stamps.         *)
CacheCovers == RecordsCovered /\ RelationsCovered

(* Archiving moves a fact: until it is deleted it is found by its id.      *)
FactsAddressable ==
  \A f \in kept : f \in Facts(up) \/ f \in Facts(cold)

(* What the comment on make_merged_records_sync_visible says: a record     *)
(* that a merge writes again is observable to a downstream whose cursor    *)
(* had passed it before.  It has it, but for the stamp, or is to be sent   *)
(* it.                                                                     *)
MergesAreVisible ==
  [][\A w \in AllWires(up') :
       MergeUpsert(w) /\ w \notin AllWires(up) =>
         \/ ~Behind(w, cursor)
         \/ \E v \in AllWires(cache) : Restamped(v, w.record.at) = w]_vars

(* The next page is empty.                                                 *)
Settled ==
  /\ \A w \in AllWires(up) : Behind(w, cursor)
  /\ cursor.generation = Generation(up)
  /\ cursor.scan = Nil

(* An entity came by a name that another entity of the cache bears.        *)
NameTaken ==
  \E w \in Wires(up, "entity") : ~NamesFree(cache, w.id, w.record)

(* When the writes end, pulling catches up, whatever failed on the way.    *)
PullsSettle == <>[](Settled \/ NameTaken)

=============================================================================
