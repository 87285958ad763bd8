------------------------------- MODULE Recall -------------------------------
(***************************************************************************)
(* One process's AideMemo: the threads of a server share its store, its    *)
(* lexical index, its cache of fact embeddings and its archive, and each   *)
(* call of theirs takes the locks of these several times.  A write commits *)
(* under the store's write lock and brings the index and the cache up to   *)
(* date only afterwards; a search reads all three under the read lock; the *)
(* calls that retire facts read, decide and write in separate steps.       *)
(* The facts are written as either backend does; an SQLite file may also   *)
(* be written by another process at any moment.                            *)
(*                                                                         *)
(* What is searched for is a content or a name: a text holds it or not.    *)
(* The embedding of a text is the text, and is near to what it holds: a    *)
(* semantic search orders facts by it and leaves none out.                 *)
(***************************************************************************)
EXTENDS MemoryStore, SequencesExt

LOCAL INSTANCE Graphs

CONSTANTS
  Threads,
  MemoIds,    \* ids of facts
  Phrases,    \* their contents
  Scenes,     \* the runs of the model: start, ops, links, calls and options
  Decisions,  \* the contents of an atomic type
  Fleeting,   \* the contents of a type with a time to live
  Alike,      \* the pairs of contents whose embeddings are close
  Expired     \* superseded by nothing

ASSUME RecallAssumption ==
  /\ MemoIds \subseteq Nat \ {0}
  /\ Decisions \subseteq Phrases
  /\ Fleeting \subseteq Phrases
  /\ Expired \notin MemoIds \cup {Nil}

VARIABLES
  scene,
  live,        \* the facts of the hot tier
  frozen,      \* the facts of the archive
  labels,      \* the names of the entities
  used,        \* the ids given out
  clock,
  index,       \* the lexical index of the hot tier
  frozenIndex, \* and that of the archive
  embeds,      \* the cached embeddings
  calls,       \* what each thread is doing
  unindexed,   \* facts written since the index was built by who never marks it
  unembedded,  \* facts whose text changed and whose embedding was kept
  stray,       \* facts a failed archiving left in both tiers
  spent        \* the calls made

tables == <<live, frozen, labels, used, clock, stray>>

caches == <<index, frozenIndex, embeds, unindexed, unembedded>>

recallVars == <<scene, tables, caches, calls, spent>>

Memos ==
  [content : Phrases, on : SUBSET EntityIds, created : Nat,
   over : MemoIds \cup {Nil, Expired}]

Texts == [content : Phrases, names : SUBSET Names]

ASSUME NilIsNoText == Nil \notin Texts

ASSUME ScenesAssumption ==
  \A run \in Scenes :
    /\ run.start \in [MemoIds -> Memos \cup {Nil}]
    /\ run.labels \in [EntityIds -> Names \cup {Nil}]
    /\ run.links \subseteq SUBSET EntityIds

Terms == Phrases \cup Names

Present == {f \in MemoIds : live[f] # Nil}

Holder(content) == {f \in Present : live[f].content = content}

(* The text of a fact in the index and for its embedding.                  *)
Text(memo) ==
  [content |-> memo.content,
   names |-> {labels[e] : e \in {d \in memo.on : labels[d] # Nil}}]

(* The archive has no entities.                                            *)
FrozenText(memo) == [content |-> memo.content, names |-> {}]

Holds(text, term) == term = text.content \/ term \in text.names

NoCall ==
  [op |-> "none", at |-> "idle", fact |-> Nil, touched |-> {}, rest |-> <<>>,
   freeze |-> {}, term |-> Nil, options |-> {}, slate |-> {}, found |-> {},
   near |-> {}, steady |-> {}]

RecallInit ==
  /\ scene \in Scenes
  /\ live = scene.start
  /\ frozen = [f \in MemoIds |-> Nil]
  /\ labels = scene.labels
  /\ used = {f \in MemoIds : scene.start[f] # Nil}
  /\ clock = 1
  /\ index = [dirty |-> TRUE, texts |-> [f \in MemoIds |-> Nil]]
  /\ frozenIndex = [dirty |-> TRUE, texts |-> [f \in MemoIds |-> Nil]]
  /\ embeds = [f \in MemoIds |-> Nil]
  /\ calls = [t \in Threads |-> NoCall]
  /\ unindexed = {}
  /\ unembedded = {}
  /\ stray = {}
  /\ spent = 0

-----------------------------------------------------------------------------
(* A call.                                                                 *)

Starts(t, op) ==
  /\ calls[t] = NoCall
  /\ op \in scene.ops
  /\ spent < scene.calls
  /\ spent' = spent + 1

(* The store's read lock is held from the ranking to the last score.       *)
Unread == \A t \in Threads : calls[t].at \notin {"hydrate", "embed", "score"}

(* A fact is steady for a search while nobody writes it.                   *)
Disturbed(call, written) == [call EXCEPT !.steady = @ \ written]

(* Thread t's call after it wrote some facts.                              *)
Wrote(t, call, written) ==
  calls' = [u \in Threads |-> IF u = t THEN call
                              ELSE Disturbed(calls[u], written)]

Becomes(t, call) == calls' = [calls EXCEPT ![t] = call]

At(call, step) == [call EXCEPT !.at = step]

Calling(op, step, written) ==
  [NoCall EXCEPT !.op = op, !.at = step, !.touched = written]

(* A call that retires facts has in rest what it is still to supersede,    *)
(* pairs of an old fact and what takes its place, and in freeze what it    *)
(* archives at its end.  A pass looks at a fact again before it supersedes *)
(* it, and expires it without.                                             *)
Working(call, rest) ==
  IF rest # <<>>
  THEN [call EXCEPT !.rest = rest, !.touched = {},
                    !.at = IF rest[1][2] = Expired THEN "write"
                           ELSE IF call.op = "fact_add" THEN "old"
                           ELSE "peek"]
  ELSE IF call.freeze # {}
  THEN [call EXCEPT !.rest = <<>>, !.touched = {}, !.at = "freeze"]
  ELSE NoCall

Rest(call) == Working(call, Tail(call.rest))

Touched == UNION {calls[t].touched : t \in Threads}

(* A millisecond passes between two writes or does not.                    *)
Ticks == {clock, clock + 1}

-----------------------------------------------------------------------------
(* Writes.                                                                 *)

Adding(f) == [Calling("fact_add", "mark", {f}) EXCEPT !.fact = f]

AddNew(t, content, on) ==
  /\ Holder(content) = {}
  /\ \E f \in MemoIds \ used, created \in Ticks :
       /\ live' = [live EXCEPT ![f] =
                     [content |-> content, on |-> on, created |-> created,
                      over |-> Nil]]
       /\ used' = used \cup {f}
       /\ clock' = created
       /\ Wrote(t, Adding(f), {f})
  /\ UNCHANGED unembedded

(* A content that is known gains entities and answers with its old id.     *)
AddKnown(t, content, on) ==
  /\ \E f \in Holder(content) :
       /\ live' = [live EXCEPT ![f].on = @ \cup on]
       /\ unembedded' = IF on \subseteq live[f].on THEN unembedded
                        ELSE unembedded \cup {f}
       /\ Wrote(t, Adding(f), {f})
  /\ UNCHANGED <<used, clock>>

FactAdds(t, content, on) ==
  /\ Starts(t, "fact_add")
  /\ Unread
  /\ on \in scene.links
  /\ AddNew(t, content, on) \/ AddKnown(t, content, on)
  /\ UNCHANGED <<scene, frozen, labels, stray, index, frozenIndex, embeds,
                 unindexed>>

FactUpdates(t, f, content) ==
  /\ Starts(t, "fact_update")
  /\ Unread
  /\ f \in Present
  /\ Holder(content) \subseteq {f}
  /\ live' = [live EXCEPT ![f].content = content]
  /\ Wrote(t, Calling("fact_update", "forget", {f}), {f})
  /\ UNCHANGED <<scene, frozen, labels, used, clock, stray, caches>>

FactDeletes(t, f) ==
  /\ Starts(t, "fact_delete")
  /\ Unread
  /\ f \in Present
  /\ live' = [live EXCEPT ![f] = Nil]
  /\ Wrote(t, Calling("fact_delete", "forget", {f}), {f})
  /\ UNCHANGED <<scene, frozen, labels, used, clock, stray, caches>>

(* Fault: the embedding stays until it is asked for again.                 *)
ForgetNothing(t) ==
  /\ calls[t].at = "forget"
  /\ Becomes(t, At(calls[t], "mark"))
  /\ UNCHANGED <<scene, tables, caches, spent>>

(* The embedding of the one fact that was written is dropped ...           *)
Forget(t) ==
  /\ calls[t].at = "forget"
  /\ embeds' = [f \in MemoIds |-> IF f \in calls[t].touched THEN Nil
                                  ELSE embeds[f]]
  /\ unembedded' = unembedded \ calls[t].touched
  /\ Becomes(t, At(calls[t], "mark"))
  /\ UNCHANGED <<scene, tables, index, frozenIndex, unindexed, spent>>

(* What a call goes on with when its index is marked.                      *)
Onward(call) ==
  IF call.op = "archive_facts" THEN At(call, "mark_frozen")
  ELSE IF call.rest # <<>> THEN Rest(call)
  ELSE IF call.op = "fact_add" /\ scene.auto
  THEN [call EXCEPT !.at = "resolve", !.touched = {}]
  ELSE NoCall

(* ... and the index is marked: the next search builds it again.           *)
MarkDirty(t) ==
  /\ calls[t].at = "mark"
  /\ index' = [index EXCEPT !.dirty = TRUE]
  /\ Becomes(t, Onward(calls[t]))
  /\ UNCHANGED <<scene, tables, frozenIndex, embeds, unindexed, unembedded,
                 spent>>

(* Fault: only the hot tier's index is marked.                             *)
MarkFrozenNever(t) ==
  /\ calls[t].at = "mark_frozen"
  /\ Becomes(t, NoCall)
  /\ UNCHANGED <<scene, tables, caches, spent>>

MarkFrozen(t) ==
  /\ calls[t].at = "mark_frozen"
  /\ frozenIndex' = [frozenIndex EXCEPT !.dirty = TRUE]
  /\ Becomes(t, NoCall)
  /\ UNCHANGED <<scene, tables, index, embeds, unindexed, unembedded, spent>>

(* entity_rename: the text of every fact on the entity changes.            *)
Renames(t, e, name) ==
  LET written == {f \in Present : e \in live[f].on}
  IN  /\ Starts(t, "entity_rename")
      /\ Unread
      /\ labels[e] # Nil
      /\ \A d \in EntityIds : labels[d] # name
      /\ labels' = [labels EXCEPT ![e] = name]
      /\ unembedded' = unembedded \cup written
      /\ Wrote(t, Calling("entity_rename", "mark", written), written)
      /\ UNCHANGED <<scene, live, frozen, used, clock, stray, index,
                     frozenIndex, embeds, unindexed>>

(* sync_import writes its records one by one and marks the index at its    *)
(* end; no embedding is dropped.                                           *)
ImportsFact(t, f, content) ==
  /\ \/ Starts(t, "sync_import")
     \/ calls[t].at = "import" /\ UNCHANGED spent
  /\ Unread
  /\ Holder(content) \subseteq {f}
  /\ frozen[f] = Nil
  /\ f \in used => f \in Present
  /\ live' = [live EXCEPT ![f] =
                IF f \in used THEN [@ EXCEPT !.content = content]
                ELSE [content |-> content, on |-> {}, created |-> clock,
                      over |-> Nil]]
  /\ used' = used \cup {f}
  /\ unembedded' = unembedded \cup {f}
  /\ LET touched == calls[t].touched \cup {f}
     IN  \/ Wrote(t, Calling("sync_import", "mark", touched), {f})
         \/ /\ calls[t] = NoCall
            /\ Wrote(t, Calling("sync_import", "import", touched), {f})
  /\ UNCHANGED <<scene, frozen, labels, clock, stray, index, frozenIndex,
                 embeds, unindexed>>

(* Another process changes a fact in the file.                             *)
Foreign(f, memo) ==
  /\ "foreign" \in scene.ops
  /\ spent < scene.calls
  /\ spent' = spent + 1
  /\ f \in Present
  /\ live' = [live EXCEPT ![f] = memo]
  /\ unindexed' = unindexed \cup {f}
  /\ unembedded' = unembedded \cup {f}
  /\ calls' = [t \in Threads |-> Disturbed(calls[t], {f})]
  /\ UNCHANGED <<scene, frozen, labels, used, clock, stray, index, frozenIndex,
                 embeds>>

ForeignUpdate(f, content) ==
  /\ Holder(content) \subseteq {f}
  /\ f \in Present
  /\ Foreign(f, [live[f] EXCEPT !.content = content])

ForeignDelete(f) == Foreign(f, Nil)

-----------------------------------------------------------------------------
(* Retiring facts.                                                         *)

Current == {f \in Present : live[f].over = Nil}

Replacing(call) == Head(call.rest)

(* fact_supersede of a client.                                             *)
Supersedes(t, old, new) ==
  /\ Starts(t, "fact_supersede")
  /\ Becomes(t, [Calling("fact_supersede", "old", {}) EXCEPT
                   !.rest = <<<<old, new>>>>])
  /\ UNCHANGED <<scene, tables, caches>>

(* maybe_resolve_atomic_conflict: the other current decisions on the same  *)
(* entities make room for the fact whose id was answered.                  *)
Ascending(S, new) ==
  LET list == SetToSortSeq(S, <)
  IN  [i \in 1..Len(list) |-> <<list[i], new>>]

Resolve(t) ==
  LET f == calls[t].fact
      rivals == {g \in Current \ {f} :
                   /\ live[g].content \in Decisions
                   /\ live[g].on \cap live[f].on # {}}
  IN  /\ calls[t].at = "resolve"
      /\ \/ /\ f \in Present
            /\ live[f].content \in Decisions
            /\ rivals # {}
            /\ Becomes(t, [Calling("fact_add", "old", {}) EXCEPT
                             !.rest = Ascending(rivals, f)])
         \/ /\ \/ f \notin Present
               \/ live[f].content \notin Decisions
               \/ rivals = {}
            /\ Becomes(t, NoCall)
      /\ UNCHANGED <<scene, tables, caches, spent>>

(* An error ends the call, but for a geometric pass, which passes over it. *)
Failed(call) == IF call.op = "consolidate_gac" THEN Rest(call) ELSE NoCall

(* A pass looks again at a fact before it supersedes it, in both tiers.    *)
Peek(t) ==
  LET old == Replacing(calls[t])[1]
      memo == IF live[old] # Nil THEN live[old] ELSE frozen[old]
  IN  /\ calls[t].at = "peek"
      /\ Becomes(t, IF memo # Nil /\ memo.over = Nil THEN At(calls[t], "old")
                    ELSE Rest(calls[t]))
      /\ UNCHANGED <<scene, tables, caches, spent>>

(* fact_supersede reads the old fact and the new one in the hot tier ...   *)
ReadOld(t) ==
  LET old == Replacing(calls[t])[1]
  IN  /\ calls[t].at = "old"
      /\ Becomes(t, IF old \in Current THEN At(calls[t], "new")
                    ELSE Failed(calls[t]))
      /\ UNCHANGED <<scene, tables, caches, spent>>

ReadNew(t) ==
  LET new == Replacing(calls[t])[2]
  IN  /\ calls[t].at = "new"
      /\ Becomes(t, IF new \in Present THEN At(calls[t], "write")
                    ELSE Failed(calls[t]))
      /\ UNCHANGED <<scene, tables, caches, spent>>

(* ... and updates the old one.  An expiry leaves superseded_by alone.     *)
WriteOver(t) ==
  LET old == Replacing(calls[t])[1]
      new == Replacing(calls[t])[2]
      over == IF new = Expired /\ live[old].over \in MemoIds
              THEN live[old].over ELSE new
  IN  /\ calls[t].at = "write"
      /\ Unread
      /\ \/ /\ old \in Present
            /\ live' = [live EXCEPT ![old].over = over]
            /\ Wrote(t, [calls[t] EXCEPT !.at = "forget", !.touched = {old}],
                     {old})
         \/ /\ old \notin Present
            /\ Becomes(t, Failed(calls[t]))
            /\ UNCHANGED live
      /\ UNCHANGED <<scene, frozen, labels, used, clock, stray, caches, spent>>

-----------------------------------------------------------------------------
(* Consolidation: one pass over the current facts as they were listed.     *)

Close(f, g) ==
  \/ live[f].content = live[g].content
  \/ {live[f].content, live[g].content} \in Alike

(* Created earlier or, in one millisecond, of the lesser id.               *)
IsOlder(f, g) ==
  \/ live[f].created < live[g].created
  \/ live[f].created = live[g].created /\ f < g

(* consolidate_semantic: of two close facts the older gives way; a fact    *)
(* that has given way is in no later pair, but for those of its own row.   *)
Paired(acc, f, g) ==
  LET pair == IF IsOlder(f, g) THEN <<f, g>> ELSE <<g, f>>
  IN  IF g > f /\ g \notin acc.old /\ Close(f, g)
      THEN [old |-> acc.old \cup {pair[1]}, rest |-> Append(acc.rest, pair)]
      ELSE acc

SemanticPairs(list) ==
  FoldLeft(LAMBDA acc, f :
             IF f \in acc.old THEN acc
             ELSE FoldLeft(LAMBDA row, g : Paired(row, f, g), acc, list),
           [old |-> {}, rest |-> <<>>], list)

Expiring(list, old, at) ==
  SelectSeq(list, LAMBDA f : /\ f \notin old
                             /\ live[f].content \in Fleeting
                             /\ live[f].created < at)

ConsolidatesSemantic(t, at) ==
  LET list == SetToSortSeq(Current, <)
      pairs == SemanticPairs(list)
      expired == Expiring(list, pairs.old, at)
      rest == pairs.rest
                \o [i \in 1..Len(expired) |-> <<expired[i], Expired>>]
  IN  /\ Starts(t, "consolidate_semantic")
      /\ Becomes(t, Working(Calling("consolidate_semantic", "peek", {}), rest))
      /\ UNCHANGED <<scene, tables, caches>>

(* consolidate_gac: clusters of a chain of close facts.  A tight cluster   *)
(* keeps its newest fact, a spread one its medoid and some that are far    *)
(* from it; the others are superseded by the first of them or archived.    *)
Clusters(S) ==
  LET linked == ConnectionsIn([node |-> S,
                               edge |-> {p \in S \X S : Close(p[1], p[2])}])
  IN  {{g \in S : g = f \/ linked[f, g]} : f \in S}

(* Fault: a cluster keeps its first fact.                                  *)
OldestOf(C) == CHOOSE f \in C : \A g \in C \ {f} : IsOlder(f, g)

NewestOf(C) == CHOOSE f \in C : \A g \in C \ {f} : IsOlder(g, f)

Routes(C) ==
  {[head |-> NewestOf(C), kept |-> {NewestOf(C)}]}
    \cup (IF scene.spread
          THEN {[head |-> f, kept |-> K \cup {f}] : f \in C, K \in SUBSET C}
          ELSE {})

(* Two passes that know different facts may choose different medoids, and  *)
(* each supersede the other's: where clusters are spread, one runs at a    *)
(* time.                                                                   *)
ConsolidatesGeometric(t) ==
  LET clusters == Clusters(Current)
  IN  /\ Starts(t, "consolidate_gac")
      /\ scene.spread => \A u \in Threads : calls[u].op # "consolidate_gac"
      /\ \E route \in [clusters -> UNION {Routes(C) : C \in clusters}] :
           LET lost == {p \in Current \X Current :
                         \E C \in clusters :
                           /\ p[1] \in C \ route[C].kept
                           /\ p[2] = route[C].head}
               call == Calling("consolidate_gac", "peek", {})
           IN  /\ \A C \in clusters : route[C] \in Routes(C)
               /\ \/ Becomes(t, Working(call,
                              SetToSortSeq(lost, LAMBDA p, q : p[1] < q[1])))
                  \/ /\ scene.cold
                     /\ Becomes(t, Working([call EXCEPT !.freeze =
                                              {p[1] : p \in lost}], <<>>))
      /\ UNCHANGED <<scene, tables, caches>>

-----------------------------------------------------------------------------
(* archive_facts, under the write locks of both tiers.  A fact whose       *)
(* content the archive has under another id stops it: what was copied by   *)
(* then stays in both.                                                     *)

Refused(f) ==
  \E g \in MemoIds \ {f} :
    frozen[g] # Nil /\ frozen[g].content = live[f].content

Copied(ids) == [f \in MemoIds |-> IF f \in ids THEN live[f] ELSE frozen[f]]

Freezes(t, asked) ==
  LET ids == asked \cap Present
  IN  \/ /\ ids # {}
         /\ \A f \in ids : ~Refused(f)
         /\ frozen' = Copied(ids)
         /\ live' = [f \in MemoIds |-> IF f \in ids THEN Nil ELSE live[f]]
         /\ stray' = stray \ ids
         /\ Wrote(t, Calling("archive_facts", "mark", ids), ids)
      \/ /\ \E f \in ids : Refused(f)
         /\ \E copied \in SUBSET {f \in ids : ~Refused(f)} :
              /\ frozen' = Copied(copied)
              /\ stray' = stray \cup copied
              /\ Wrote(t, NoCall, copied)
         /\ UNCHANGED live
      \/ /\ ids = {}
         /\ Wrote(t, NoCall, {})
         /\ UNCHANGED <<live, frozen, stray>>

ArchivesFacts(t, asked) ==
  /\ Starts(t, "archive_facts")
  /\ Unread
  /\ Freezes(t, asked)
  /\ UNCHANGED <<scene, labels, used, clock, index, frozenIndex, embeds,
                 unindexed, unembedded>>

Freeze(t) ==
  /\ calls[t].at = "freeze"
  /\ Unread
  /\ Freezes(t, calls[t].freeze)
  /\ UNCHANGED <<scene, labels, used, clock, index, frozenIndex, embeds,
                 unindexed, unembedded, spent>>

-----------------------------------------------------------------------------
(* Searches.                                                               *)

Shown(memo, call) ==
  memo # Nil /\ ("current_only" \in call.options => memo.over = Nil)

Searches(t, term, options) ==
  /\ Starts(t, "search")
  /\ options \subseteq scene.options
  /\ Becomes(t, [Calling("search", "rank", {}) EXCEPT
                   !.term = term,
                   !.options = options,
                   !.steady = MemoIds \ (Touched \cup unindexed)])
  /\ UNCHANGED <<scene, tables, caches>>

(* ensure_index and the lookup.  From here the read lock is held.          *)
Rebuilt ==
  [dirty |-> FALSE,
   texts |-> [f \in MemoIds |-> IF live[f] = Nil THEN Nil
                                ELSE Text(live[f])]]

Hits(texts, term) == {f \in MemoIds : texts[f] # Nil /\ Holds(texts[f], term)}

Rank(t) ==
  /\ calls[t].at = "rank"
  /\ index' = IF index.dirty THEN Rebuilt ELSE index
  /\ unindexed' = IF index.dirty THEN {} ELSE unindexed
  /\ Becomes(t, [calls[t] EXCEPT !.at = "hydrate",
                                 !.found = Hits(index'.texts, calls[t].term)])
  /\ UNCHANGED <<scene, tables, frozenIndex, embeds, unembedded, spent>>

AfterHot(call) ==
  At(call, IF "include_archive" \in call.options THEN "cold" ELSE "answer")

Hydrate(t) ==
  LET call == [calls[t] EXCEPT
                 !.found = {f \in @ : Shown(live[f], calls[t])}]
      all == {f \in MemoIds : Shown(live[f], calls[t])}
  IN  /\ calls[t].at = "hydrate"
      /\ Becomes(t, IF "semantic" \notin call.options THEN AfterHot(call)
                    ELSE [call EXCEPT !.at = "embed",
                                      !.slate = IF call.found = {} THEN all
                                                ELSE call.found])
      /\ UNCHANGED <<scene, tables, caches, spent>>

(* semantic_search: an embedding that is cached is used, one that is not   *)
(* is made of the fact as it is now.                                       *)
Embed(t) ==
  LET slate == {f \in calls[t].slate : Shown(live[f], calls[t])}
      missing == {f \in slate : embeds[f] = Nil}
  IN  /\ calls[t].at = "embed"
      /\ embeds' = [f \in MemoIds |-> IF f \in missing THEN Text(live[f])
                                      ELSE embeds[f]]
      /\ unembedded' = unembedded \ missing
      /\ Becomes(t, [calls[t] EXCEPT !.at = "score", !.slate = slate])
      /\ UNCHANGED <<scene, tables, index, frozenIndex, unindexed, spent>>

(* Every fact of the slate that has an embedding gets a score and is       *)
(* answered, those that are near before the others.                        *)
Score(t) ==
  LET call == calls[t]
      scored == {f \in call.slate : embeds[f] # Nil}
  IN  /\ call.at = "score"
      /\ Becomes(t, AfterHot([call EXCEPT
                                !.found = @ \cup scored,
                                !.near = scored \cap Hits(embeds, call.term)]))
      /\ UNCHANGED <<scene, tables, caches, spent>>

(* merge_archive_results                                                   *)
SearchArchive(t) ==
  LET texts == IF frozenIndex.dirty
               THEN [f \in MemoIds |-> IF frozen[f] = Nil THEN Nil
                                       ELSE FrozenText(frozen[f])]
               ELSE frozenIndex.texts
  IN  /\ calls[t].at = "cold"
      /\ frozenIndex' = [dirty |-> FALSE, texts |-> texts]
      /\ Becomes(t, [calls[t] EXCEPT
                       !.at = "answer",
                       !.found = @ \cup {f \in Hits(texts, calls[t].term) :
                                          Shown(frozen[f], calls[t])}])
      /\ UNCHANGED <<scene, tables, index, embeds, unindexed, unembedded,
                     spent>>

Answer(t) ==
  /\ calls[t].at = "answer"
  /\ Becomes(t, NoCall)
  /\ UNCHANGED <<scene, tables, caches, spent>>

-----------------------------------------------------------------------------

RecallNext ==
  \/ \E t \in Threads :
       \/ \E content \in Phrases :
            \/ \E on \in scene.links : FactAdds(t, content, on)
            \/ \E f \in MemoIds : FactUpdates(t, f, content)
            \/ \E f \in MemoIds : ImportsFact(t, f, content)
       \/ \E f \in MemoIds : FactDeletes(t, f) \/ ArchivesFacts(t, {f})
       \/ \E f, g \in used : Supersedes(t, f, g)
       \/ \E e \in EntityIds, name \in Names : Renames(t, e, name)
       \/ \E at \in Ticks : ConsolidatesSemantic(t, at)
       \/ ConsolidatesGeometric(t)
       \/ \E term \in Terms, options \in SUBSET scene.options :
            Searches(t, term, options)
       \/ Forget(t)
       \/ MarkDirty(t)
       \/ MarkFrozen(t)
       \/ Resolve(t)
       \/ Peek(t)
       \/ ReadOld(t)
       \/ ReadNew(t)
       \/ WriteOver(t)
       \/ Freeze(t)
       \/ Rank(t)
       \/ Hydrate(t)
       \/ Embed(t)
       \/ Score(t)
       \/ SearchArchive(t)
       \/ Answer(t)
  \/ \E f \in MemoIds, content \in Phrases : ForeignUpdate(f, content)
  \/ \E f \in MemoIds : ForeignDelete(f)

RecallSpec == RecallInit /\ [][RecallNext]_recallVars

-----------------------------------------------------------------------------

(* What a search is due of a fact, in either tier.                         *)
Due(call, f) == Shown(live[f], call) /\ Holds(Text(live[f]), call.term)

DueCold(call, f) ==
  /\ "include_archive" \in call.options
  /\ Shown(frozen[f], call)
  /\ Holds(FrozenText(frozen[f]), call.term)

(* What a search answers of the facts that nobody was writing is what the  *)
(* store says, whichever tier and whatever others archived, renamed,       *)
(* rebuilt or cached meanwhile: all that hold the term, and none that do   *)
(* not, but for a semantic search that no such fact answers, which shows   *)
(* the rest of them; and a semantic search ranks first exactly those that  *)
(* hold it, but for an embedding that was kept when its fact changed.      *)
SearchesAreTrue ==
  \A t \in Threads :
    calls[t].at = "answer" =>
      \A f \in calls[t].steady \ stray :
        LET call == calls[t]
            semantic == "semantic" \in call.options
            unanswered == \A g \in call.steady : ~Due(call, g)
        IN  /\ Due(call, f) \/ DueCold(call, f) => f \in call.found
            /\ f \in call.found =>
                 \/ Due(call, f)
                 \/ DueCold(call, f)
                 \/ semantic /\ Shown(live[f], call) /\ unanswered
            /\ f \in call.near => Due(call, f) \/ f \in unembedded
            /\ semantic /\ Due(call, f) =>
                 f \in call.near \/ f \in unembedded

(* The caches follow the store: when no call is between its commit and its *)
(* last step, an index that is not dirty has the text of every fact and of *)
(* no other, and a cached embedding is its fact's, unless the fact was     *)
(* written by another process, an import, a rename or a merge.             *)
CachesFollow ==
  \A f \in MemoIds \ Touched :
    /\ ~index.dirty /\ f \notin unindexed =>
         index.texts[f] = Rebuilt.texts[f]
    /\ embeds[f] # Nil /\ f \notin unembedded =>
         \/ embeds[f] = Rebuilt.texts[f]
         \/ live[f] = Nil /\ frozen[f] # Nil

(* Consolidations retire facts in favour of others and never all of them:  *)
(* from a fact they superseded one comes to a current fact, or to one that *)
(* expired, was archived or deleted, and never back to itself.             *)
HistoriesEnd ==
  LET retired == {f \in Present : live[f].over \in MemoIds}
  IN  scene.manual
      \/ IsDag([node |-> MemoIds,
                edge |-> {<<f, live[f].over>> : f \in retired}])

(* "Only one current per entity": an entity with decisions shows one.      *)
OneDecisionIsCurrent ==
  \A e \in EntityIds :
    LET decisions == {f \in Present : /\ e \in live[f].on
                                      /\ live[f].content \in Decisions}
    IN  (\A t \in Threads : calls[t] = NoCall) /\ decisions # {}
          => Cardinality(decisions \cap Current) = 1
=============================================================================
