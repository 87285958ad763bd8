----------------------------- MODULE MemoryStore -----------------------------
(***************************************************************************)
(* One embedded store: the SQLite tables of entities, their names, facts,  *)
(* the entity index of the facts, and relations.  A store is a value and   *)
(* every operator below is one SQLite transaction on it, so that the same  *)
(* definitions serve the canonical store, a cold tier and a read cache.    *)
(*                                                                         *)
(* Ids are ULIDs, of which only the order matters: they are numbers.  A    *)
(* fact is its content, which stands for (source_id, content hash), the    *)
(* entities it names and the fact that supersedes it.                      *)
(***************************************************************************)
EXTENDS Naturals, FiniteSets, Sequences

CONSTANTS
  EntityIds,
  FactIds,
  Names,      \* lower-cased names and aliases
  Contents,
  Nil

ASSUME IdsAssumption ==
  /\ EntityIds \subseteq Nat \ {0} /\ IsFiniteSet(EntityIds)
  /\ FactIds \subseteq Nat \ {0} /\ IsFiniteSet(FactIds)

Maybe(T) == T \cup {Nil}

Larger(m, n) == IF m < n THEN n ELSE m

EntityRecords == [name : Names, aliases : SUBSET Names, at : Nat]

FactRecords ==
  [content : Contents, links : SUBSET EntityIds, by : Maybe(FactIds),
   at : Nat]

Relations == [from : EntityIds, to : EntityIds, at : Nat]

ASSUME NilAssumption == Nil \notin Nat \cup EntityRecords \cup FactRecords

Stores ==
  [entities : [EntityIds -> Maybe(EntityRecords)],
   names : [Names -> Maybe(EntityIds)],
   facts : [FactIds -> Maybe(FactRecords)],
   linked : SUBSET (EntityIds \X FactIds),
   relations : SUBSET Relations]

ASSUME NilIsNoStore == Nil \notin Stores

(* init_schema on a new file.                                              *)
EmptyStore ==
  [entities |-> [e \in EntityIds |-> Nil],
   names |-> [n \in Names |-> Nil],
   facts |-> [f \in FactIds |-> Nil],
   linked |-> {},
   relations |-> {}]

Entities(s) == {e \in EntityIds : s.entities[e] # Nil}

Facts(s) == {f \in FactIds : s.facts[f] # Nil}

NamesOf(record) == {record.name} \cup record.aliases

-----------------------------------------------------------------------------
(* Entities.  entity_names has the name as its primary key, so a name that *)
(* another entity holds fails the insert and rolls the transaction back.   *)

NamesFree(s, e, record) == \A n \in NamesOf(record) : s.names[n] \in {Nil, e}

(* Fault: the rows of the old names stay.                                  *)
PutEntityKeepingNames(s, e, record) ==
  [s EXCEPT !.entities[e] = record,
            !.names = [n \in Names |-> IF n \in NamesOf(record) THEN e
                                       ELSE s.names[n]]]

(* insert_entity_record and update_entity_record.                          *)
PutEntity(s, e, record) ==
  [s EXCEPT !.entities[e] = record,
            !.names = [n \in Names |-> IF n \in NamesOf(record) THEN e
                                       ELSE IF s.names[n] = e THEN Nil
                                       ELSE s.names[n]]]

Stamped(record, now) == Larger(now, record.at + 1)

(* EntityRecord::update with a new name; the stamp never repeats.          *)
Renamed(record, name, now) ==
  [record EXCEPT !.name = name, !.at = Stamped(record, now)]

(* entity_delete: the facts keep the id in their records.                  *)
WithoutEntity(s, e) ==
  [s EXCEPT !.entities[e] = Nil,
            !.names = [n \in Names |-> IF s.names[n] = e THEN Nil
                                       ELSE s.names[n]],
            !.linked = {l \in @ : l[1] # e},
            !.relations = {r \in @ : e \notin {r.from, r.to}}]

-----------------------------------------------------------------------------
(* Facts.  One fact per content: idx_facts_source_content_hash.            *)

Holding(s, content) == {f \in Facts(s) : s.facts[f].content = content}

ContentFree(s, f, content) == Holding(s, content) \subseteq {f}

NewFact(content, links, now) ==
  [content |-> content, links |-> links, by |-> Nil, at |-> now]

Links(f, links) == {<<e, f>> : e \in links}

InsertFact(s, f, record) ==
  [s EXCEPT !.facts[f] = record, !.linked = @ \cup Links(f, record.links)]

(* merge_fact_entities: a known content gains entities and no new stamp.   *)
MergedFact(s, f, links) ==
  [s EXCEPT !.facts[f].links = @ \cup links,
            !.linked = @ \cup Links(f, links)]

(* update_fact_record: the entity index is not touched.                    *)
UpdateFact(s, f, record) == [s EXCEPT !.facts[f] = record]

(* fact_delete                                                             *)
WithoutFact(s, f) ==
  [s EXCEPT !.facts[f] = Nil, !.linked = {l \in @ : l[2] # f}]

-----------------------------------------------------------------------------
(* The upserts of records that keep their ids: sync, branches, archive.    *)
(* The outcome is "stored", "known" for a record that is not newer than    *)
(* the local one, "taken" when another id holds its name or content, and   *)
(* "error".                                                                *)

EntityOutcome(s, e, record) ==
  LET local == s.entities[e]
  IN  IF local # Nil /\ local.at >= record.at THEN "known"
      ELSE IF local = Nil /\ s.names[record.name] \notin {Nil, e}
      THEN "taken"
      ELSE IF ~NamesFree(s, e, record) THEN "error"
      ELSE "stored"

(* Fault: the unique index answers before the content is looked up.        *)
FactOutcomeConflicting(s, f, record) ==
  LET local == s.facts[f]
  IN  IF local # Nil /\ local.at >= record.at THEN "known"
      ELSE IF ~ContentFree(s, f, record.content) THEN "error"
      ELSE "stored"

FactOutcome(s, f, record) ==
  LET local == s.facts[f]
  IN  IF local # Nil /\ local.at >= record.at THEN "known"
      ELSE IF ~ContentFree(s, f, record.content) THEN "taken"
      ELSE "stored"

(* insert_fact_record, or update_fact_record and replace_fact_entities.    *)
PutFact(s, f, record) ==
  [s EXCEPT !.facts[f] = record,
            !.linked = {l \in @ : l[2] # f} \cup Links(f, record.links)]

(* INSERT OR REPLACE under (source, type, target, scope).                  *)
PutRelation(s, record) ==
  [s EXCEPT !.relations =
     {r \in @ : r.from # record.from \/ r.to # record.to} \cup {record}]

-----------------------------------------------------------------------------
(* What every store promises, whatever was written to it and by whom.      *)

NamesAgree(s) ==
  \A n \in Names, e \in EntityIds :
    s.names[n] = e <=> e \in Entities(s) /\ n \in NamesOf(s.entities[e])

ContentsDistinct(s) ==
  \A f, g \in Facts(s) :
    f # g => s.facts[f].content # s.facts[g].content

(* A relation is stored under the entities it joins.                       *)
RelationsDistinct(s) ==
  \A q, r \in s.relations : q.from = r.from /\ q.to = r.to => q = r

(* The entity index has no row its fact does not state, and lacks only     *)
(* rows that a deleted entity took with it.                                *)
LinksAgree(s, deleted) ==
  \A f \in FactIds, e \in EntityIds :
    /\ <<e, f>> \in s.linked => f \in Facts(s) /\ e \in s.facts[f].links
    /\ f \in Facts(s) /\ e \in s.facts[f].links \ deleted
         => <<e, f>> \in s.linked
=============================================================================
