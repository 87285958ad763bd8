---------------------------- MODULE MemoryProofs ----------------------------
(***************************************************************************)
(* For every set of ids, names, contents, start stores and page limits:    *)
(* the tables of the canonical store, of its archive and of the read cache *)
(* agree, pull-only sync covers what its cursor is past, no archived fact  *)
(* is lost, and backups taken beside all of it are complete and are        *)
(* restored whole.                                                         *)
(***************************************************************************)
EXTENDS MemoryBackup, FiniteSetTheorems, FunctionTheorems, WellFoundedInduction,
        TLAPS

-----------------------------------------------------------------------------
(* Sets of numbers, sorted lists and runs.                                 *)

(* A non-empty set of numbers has a least one.                             *)
LEMMA LeastNatural ==
  ASSUME NEW T \in SUBSET Nat, T # {}
  PROVE  \E n \in T : \A m \in T : n <= m
  <1>1. IsWellFoundedOn(OpToRel(<, Nat), Nat)
    BY NatLessThanWellFounded
  <1>2. PICK n \in T : \A m \in T : <<m, n>> \notin OpToRel(<, Nat)
    BY <1>1, WFMin
  <1>3. \A m \in T : ~(m < n)
    BY <1>2 DEF OpToRel
  <1>4. QED BY <1>3

(* A non-empty finite set of numbers has a greatest one.                   *)
LEMMA GreatestExists ==
  ASSUME NEW S \in SUBSET Nat, IsFiniteSet(S), S # {}
  PROVE  \E n \in S : \A m \in S : m <= n
  <1> DEFINE Greatest(T) == \E n \in T : \A m \in T : m <= n
             Bad == {k \in Nat : \E T \in SUBSET Nat :
                       IsFiniteSet(T) /\ T # {} /\ Cardinality(T) = k /\ ~Greatest(T)}
  <1>1. SUFFICES ASSUME ~Greatest(S) PROVE FALSE
    OBVIOUS
  <1>2. Cardinality(S) \in Bad
    BY <1>1, FS_CardinalityType
  <1>3. PICK k \in Bad : \A j \in Bad : k <= j
    BY <1>2, LeastNatural
  <1>4. PICK T \in SUBSET Nat :
          IsFiniteSet(T) /\ T # {} /\ Cardinality(T) = k /\ ~Greatest(T)
    BY <1>3
  <1>5. PICK x \in T : TRUE
    BY <1>4
  <1>6. /\ IsFiniteSet(T \ {x})
        /\ Cardinality(T \ {x}) = k - 1
    BY <1>4, FS_RemoveElement
  <1>7. CASE T \ {x} = {}
    <2>1. T = {x}
      BY <1>5, <1>7
    <2>2. Greatest(T)
      BY <2>1
    <2>3. QED BY <1>4, <2>2
  <1>8. CASE T \ {x} # {}
    <2>1. k - 1 \in Nat
      BY <1>6, FS_CardinalityType
    <2>2. k - 1 \notin Bad
      BY <1>3, <2>1
    <2>3. Greatest(T \ {x})
      BY <1>6, <1>8, <2>1, <2>2
    <2>4. PICK n \in T \ {x} : \A m \in T \ {x} : m <= n
      BY <2>3
    <2>5. CASE x <= n
      BY <2>4, <2>5, <1>4
    <2>6. CASE n < x
      <3>1. \A m \in T : m <= x
        BY <2>4, <2>6
      <3>2. QED BY <1>4, <3>1
    <2>7. QED BY <2>5, <2>6
  <1>9. QED BY <1>7, <1>8

(* Max of a non-empty finite set of numbers is its greatest.               *)
LEMMA GreatestIsMax ==
  ASSUME NEW S \in SUBSET Nat, IsFiniteSet(S), S # {}
  PROVE  Max(S) \in S /\ \A n \in S : n <= Max(S)
  <1>1. PICK n \in S : \A m \in S : n >= m
    BY GreatestExists
  <1>2. QED BY <1>1 DEF Max

(* A strict total order of S.                                              *)
TotalOn(S, before) ==
  /\ \A x \in S : <<x, x>> \notin before
  /\ \A x, y \in S : x # y => <<x, y>> \in before \/ <<y, x>> \in before
  /\ \A x, y, z \in S :
       <<x, y>> \in before /\ <<y, z>> \in before => <<x, z>> \in before

(* What Sorted lists: each element once, in order.                         *)
LEMMA SortedLists ==
  ASSUME NEW S, IsFiniteSet(S), NEW before, TotalOn(S, before)
  PROVE  /\ Sorted(S, before) \in Seq(S)
         /\ Len(Sorted(S, before)) = Cardinality(S)
         /\ \A x \in S : \E i \in 1..Cardinality(S) : Sorted(S, before)[i] = x
         /\ \A i, j \in 1..Cardinality(S) :
              i < j => <<Sorted(S, before)[i], Sorted(S, before)[j]>> \in before
  <1> DEFINE n == Cardinality(S)
             elders == [x \in S |-> {y \in S : <<y, x>> \in before}]
             rank == [x \in S |-> Cardinality(elders[x])]
             list == Sorted(S, before)
  <1>1. n \in Nat
    BY FS_CardinalityType
  <1>a. \A x \in S : rank[x] = Cardinality(elders[x])
    OBVIOUS
  <1>b. \A x \in S : elders[x] \in SUBSET S
    OBVIOUS
  <1>c. \A x, y \in S : y \in elders[x] <=> <<y, x>> \in before
    OBVIOUS
  <1>6. \A i \in 1..n : list[i] = CHOOSE x \in S : rank[x] = i - 1
    BY DEF Sorted
  <1>d. (\A i \in 1..n : list[i] \in S) => list \in [1..n -> S]
    BY DEF Sorted
  <1> HIDE DEF elders, rank, list, n
  <1>2. ASSUME NEW x \in S
        PROVE  /\ IsFiniteSet(elders[x])
               /\ rank[x] \in 0..(n - 1)
    <2>1. elders[x] \in SUBSET (S \ {x})
      BY <1>b, <1>c DEF TotalOn
    <2>2. IsFiniteSet(S \ {x}) /\ Cardinality(S \ {x}) = n - 1
      BY FS_RemoveElement DEF n
    <2>3. IsFiniteSet(elders[x]) /\ Cardinality(elders[x]) <= n - 1
      BY <2>1, <2>2, FS_Subset
    <2>4. Cardinality(elders[x]) \in Nat
      BY <2>3, FS_CardinalityType
    <2>5. QED BY <2>3, <2>4, <1>1, <1>a
  <1>3. ASSUME NEW x \in S, NEW y \in S, <<x, y>> \in before
        PROVE  rank[x] < rank[y]
    <2>1. x \notin elders[x]
      BY <1>c DEF TotalOn
    <2>2. elders[x] \cup {x} \in SUBSET elders[y]
      BY <1>3, <1>b, <1>c DEF TotalOn
    <2>3. Cardinality(elders[x] \cup {x}) = rank[x] + 1
      <3>1. IsFiniteSet(elders[x]) /\ Cardinality(elders[x]) = rank[x]
        BY <1>2, <1>a
      <3>2. QED BY <2>1, <3>1, FS_AddElement
    <2>4. Cardinality(elders[x] \cup {x}) <= rank[y]
      <3>1. IsFiniteSet(elders[y]) /\ Cardinality(elders[y]) = rank[y]
        BY <1>2, <1>a
      <3>2. QED BY <2>2, <3>1, FS_Subset
    <2>5. rank[x] \in Nat /\ rank[y] \in Nat
      BY <1>2
    <2>6. QED BY <2>3, <2>4, <2>5
  <1>4. ASSUME NEW x \in S, NEW y \in S, rank[x] = rank[y]
        PROVE  x = y
    <2>1. rank[x] \in Int /\ rank[y] \in Int
      BY <1>1, <1>2
    <2>2. ~(rank[x] < rank[y]) /\ ~(rank[y] < rank[x])
      BY <1>4, <2>1
    <2>3. QED BY <1>3, <2>2 DEF TotalOn
  <1>5. ASSUME NEW i \in 1..n
        PROVE  \E x \in S : rank[x] = i - 1
    <2> DEFINE f == [x \in S |-> rank[x] + 1]
    <2>1. f \in [S -> 1..n]
      BY <1>1, <1>2
    <2>2. \A x, y \in S : f[x] = f[y] => x = y
      <3>1. SUFFICES ASSUME NEW x \in S, NEW y \in S, f[x] = f[y] PROVE x = y
        OBVIOUS
      <3>2. rank[x] \in Int /\ rank[y] \in Int
        BY <1>1, <1>2
      <3>3. rank[x] + 1 = rank[y] + 1
        BY <3>1
      <3>4. QED BY <1>4, <3>2, <3>3
    <2>3. f \in Injection(S, 1..n)
      BY <2>1, <2>2, Fun_IsInj
    <2>4. IsFiniteSet(1..n) /\ Cardinality(1..n) = n
      BY <1>1, FS_Interval
    <2>5. f \in Surjection(S, 1..n)
      BY <2>3, <2>4, FS_Injection DEF n
    <2>6. PICK x \in S : f[x] = i
      BY <2>5 DEF Surjection
    <2>7. rank[x] + 1 = i
      BY <2>6
    <2>8. rank[x] \in Int
      BY <1>1, <1>2
    <2>9. QED BY <2>7, <2>8
  <1>7. \A i \in 1..n : list[i] \in S /\ rank[list[i]] = i - 1
    BY <1>5, <1>6
  <1>8. list \in [1..n -> S]
    BY <1>7, <1>d
  <1>9. list \in Seq(S) /\ Len(list) = n
    BY <1>1, <1>8
  <1>10. ASSUME NEW x \in S
         PROVE  \E i \in 1..n : list[i] = x
    <2> DEFINE i == rank[x] + 1
    <2>1. i \in 1..n
      BY <1>1, <1>2
    <2>2. rank[x] \in Int
      BY <1>1, <1>2
    <2>3. rank[list[i]] = rank[x]
      BY <1>7, <2>1, <2>2
    <2>4. QED BY <1>4, <1>7, <2>1, <2>3
  <1>11. ASSUME NEW i \in 1..n, NEW j \in 1..n, i < j
         PROVE  <<list[i], list[j]>> \in before
    <2>1. list[i] # list[j]
      BY <1>7, <1>11
    <2>2. <<list[j], list[i]>> \notin before
      <3>1. ~(j - 1 < i - 1)
        BY <1>11
      <3>2. QED BY <1>3, <1>7, <3>1
    <2>3. QED BY <1>7, <2>1, <2>2 DEF TotalOn
  <1>12. QED BY <1>9, <1>10, <1>11 DEF list, n

(* A sequence of values of T that starts at base and takes n steps.        *)
IsRun(run, n, T, base, next) ==
  /\ run \in [0..n -> T]
  /\ run[0] = base
  /\ \A i \in 1..n : run[i] = next[i][run[i - 1]]

(* What lets a recursive function over a sequence be reasoned about        *)
(* without induction over data: steps that stay in T have a run.           *)
LEMMA RunsExist ==
  ASSUME NEW n \in Nat, NEW T, NEW base \in T, NEW next,
         \A i \in 1..n : \A a \in T : next[i][a] \in T
  PROVE  \E run : IsRun(run, n, T, base, next)
  <1> DEFINE Run(f, k) == /\ f[0] = base
                          /\ \A i \in 1..k : f[i] = next[i][f[i - 1]]
             Bad == {k \in 0..n : \A f \in [0..k -> T] : ~Run(f, k)}
  <1>1. Bad = {}
    <2>1. SUFFICES ASSUME Bad # {} PROVE FALSE
      OBVIOUS
    <2>a. Bad \in SUBSET Nat
      OBVIOUS
    <2>2. PICK k \in Bad : \A j \in Bad : k <= j
      <3> HIDE DEF Bad
      <3>1. QED BY <2>1, <2>a, LeastNatural
    <2>3. k # 0
      <3>1. ASSUME k = 0 PROVE FALSE
        <4> DEFINE f == [i \in 0..0 |-> base]
        <4>1. f \in [0..k -> T] /\ Run(f, k)
          BY <3>1
        <4>2. QED BY <2>2, <4>1
      <3>2. QED BY <3>1
    <2>b. k \in 0..n
      OBVIOUS
    <2>4. k \in 1..n /\ k - 1 \in 0..n /\ k - 1 \notin Bad
      <3>1. k \in 1..n /\ k - 1 \in 0..n /\ ~(k <= k - 1)
        BY <2>3, <2>b
      <3>2. k - 1 \notin Bad
        <4> HIDE DEF Bad
        <4>1. QED BY <2>2, <3>1
      <3>3. QED BY <3>1, <3>2
    <2>5. PICK f \in [0..(k - 1) -> T] : Run(f, k - 1)
      BY <2>4
    <2> DEFINE g == [i \in 0..k |-> IF i = k THEN next[k][f[k - 1]] ELSE f[i]]
    <2>6. g \in [0..k -> T]
      <3>1. f[k - 1] \in T
        BY <2>4, <2>5
      <3>2. next[k][f[k - 1]] \in T
        BY <2>4, <3>1
      <3>3. \A i \in 0..k : i # k => f[i] \in T
        BY <2>4, <2>5
      <3>4. QED BY <3>2, <3>3
    <2>7. g[0] = base
      BY <2>4, <2>5
    <2>8. ASSUME NEW i \in 1..k PROVE g[i] = next[i][g[i - 1]]
      <3>1. CASE i = k
        BY <2>4, <3>1
      <3>2. CASE i # k
        BY <2>4, <2>5, <3>2
      <3>3. QED BY <3>1, <3>2
    <2>9. QED BY <2>2, <2>6, <2>7, <2>8
  <1>a. n \in 0..n /\ n \notin Bad
    <2>1. n \in 0..n
      OBVIOUS
    <2> HIDE DEF Bad
    <2>2. QED BY <1>1, <2>1
  <1>b. \E f \in [0..n -> T] : Run(f, n)
    <2>1. SUFFICES ASSUME \A f \in [0..n -> T] : ~Run(f, n) PROVE FALSE
      OBVIOUS
    <2>2. n \in Bad
      BY <1>a, <2>1
    <2>3. QED BY <1>a, <2>2
  <1>2. PICK f \in [0..n -> T] : Run(f, n)
    BY <1>b
  <1>3. QED BY <1>2 DEF IsRun

(* Induction up to n.                                                      *)
LEMMA LeastFailure ==
  ASSUME NEW n \in Nat, NEW T \in SUBSET (0..n), 0 \in T,
         \A i \in 1..n : i - 1 \in T => i \in T
  PROVE  0..n \subseteq T
  <1>1. SUFFICES ASSUME (0..n) \ T # {} PROVE FALSE
    OBVIOUS
  <1>a. (0..n) \ T \in SUBSET Nat
    OBVIOUS
  <1>2. PICK k \in (0..n) \ T : \A j \in (0..n) \ T : k <= j
    BY <1>1, <1>a, LeastNatural
  <1>3. k \in 1..n /\ k - 1 \in 0..n
    BY <1>2
  <1>4. k - 1 \in T
    BY <1>2, <1>3
  <1>5. QED BY <1>2, <1>3, <1>4

-----------------------------------------------------------------------------
(* Records, and the upsert of one.                                         *)

(* The records that travel, by kind.                                       *)
EntityWires == [kind : {"entity"}, id : EntityIds, record : EntityRecords]
FactWires == [kind : {"fact"}, id : FactIds, record : FactRecords]
RelationWires == [kind : {"relation"}, id : {0}, record : Relations]
WireSet == EntityWires \cup FactWires \cup RelationWires

(* The tables of a store are one another's indexes.                        *)
Agrees(s, deleted) ==
  /\ NamesAgree(s)
  /\ ContentsDistinct(s)
  /\ LinksAgree(s, deleted)

(* The tables of a store, and the records of what it has.                  *)
LEMMA StoreTypes ==
  ASSUME NEW s \in Stores
  PROVE  /\ s.entities \in [EntityIds -> Maybe(EntityRecords)]
         /\ s.names \in [Names -> Maybe(EntityIds)]
         /\ s.facts \in [FactIds -> Maybe(FactRecords)]
         /\ s.linked \in SUBSET (EntityIds \X FactIds)
         /\ s.relations \in SUBSET Relations
         /\ \A e \in Entities(s) : e \in EntityIds /\ s.entities[e] \in EntityRecords
         /\ \A f \in Facts(s) : f \in FactIds /\ s.facts[f] \in FactRecords
  BY DEF Stores, Maybe, Entities, Facts

(* Nil is no id and no record, so that it marks what is absent.            *)
LEMMA NilIsNoRecord ==
  /\ Nil \notin EntityIds
  /\ Nil \notin FactIds
  /\ Nil \notin EntityRecords
  /\ Nil \notin FactRecords
  BY IdsAssumption, NilAssumption

(* An entity has its name among its names.                                 *)
LEMMA NamesTyped ==
  ASSUME NEW r \in EntityRecords
  PROVE  NamesOf(r) \in SUBSET Names /\ r.name \in NamesOf(r) /\ r.at \in Nat
  BY DEF EntityRecords, NamesOf

(* An entity whose names are free is written: the tables go on agreeing.   *)
LEMMA PutEntityAgrees ==
  ASSUME NEW s \in Stores, NEW e \in EntityIds, NEW r \in EntityRecords,
         NamesFree(s, e, r)
  PROVE  LET new == PutEntity(s, e, r)
         IN  /\ new \in Stores
             /\ new.entities = [s.entities EXCEPT ![e] = r]
             /\ new.facts = s.facts
             /\ new.linked = s.linked
             /\ new.relations = s.relations
             /\ NamesAgree(s) => NamesAgree(new)
             /\ ContentsDistinct(s) => ContentsDistinct(new)
             /\ \A deleted : LinksAgree(s, deleted) => LinksAgree(new, deleted)
  <1> DEFINE new == PutEntity(s, e, r)
             names == [n \in Names |-> IF n \in NamesOf(r) THEN e
                                       ELSE IF s.names[n] = e THEN Nil
                                       ELSE s.names[n]]
  <1>1. new = [s EXCEPT !.entities = [s.entities EXCEPT ![e] = r], !.names = names]
    BY DEF PutEntity
  <1>2. names \in [Names -> Maybe(EntityIds)]
    BY StoreTypes DEF Maybe
  <1>3. [s.entities EXCEPT ![e] = r] \in [EntityIds -> Maybe(EntityRecords)]
    BY StoreTypes DEF Maybe
  <1>n. \A n \in Names : names[n] = IF n \in NamesOf(r) THEN e
                                    ELSE IF s.names[n] = e THEN Nil
                                    ELSE s.names[n]
    OBVIOUS
  <1> HIDE DEF names
  <1>4. /\ new \in Stores
        /\ new.entities = [s.entities EXCEPT ![e] = r]
        /\ new.names = names
        /\ new.facts = s.facts
        /\ new.linked = s.linked
        /\ new.relations = s.relations
    BY <1>1, <1>2, <1>3, StoreTypes DEF Stores
  <1> HIDE DEF new
  <1>5. ASSUME NamesAgree(s)
        PROVE  NamesAgree(new)
    <2>1. ASSUME NEW n \in Names, NEW d \in EntityIds
          PROVE  new.names[n] = d <=> d \in Entities(new) /\ n \in NamesOf(new.entities[d])
      <3>1. CASE d = e
        <4>1. new.entities[d] = r /\ d \in Entities(new)
          BY <1>4, <3>1, StoreTypes, NilIsNoRecord DEF Entities
        <4>2. new.names[n] = e <=> n \in NamesOf(r)
          BY <1>4, <1>n, NilIsNoRecord
        <4>3. QED BY <3>1, <4>1, <4>2
      <3>2. CASE d # e
        <4>1. new.entities[d] = s.entities[d]
          BY <1>4, <3>2, StoreTypes
        <4>2. d \in Entities(new) <=> d \in Entities(s)
          BY <4>1 DEF Entities
        <4>3. s.names[n] = d <=> d \in Entities(s) /\ n \in NamesOf(s.entities[d])
          BY <1>5 DEF NamesAgree
        <4>4. n \in NamesOf(r) => s.names[n] \in {Nil, e}
          BY DEF NamesFree
        <4>5. new.names[n] = d <=> s.names[n] = d
          BY <1>4, <1>n, <3>2, <4>4, NilIsNoRecord
        <4>6. QED BY <4>1, <4>2, <4>3, <4>5
      <3>3. QED BY <3>1, <3>2
    <2>2. QED BY <2>1 DEF NamesAgree
  <1>6. Facts(new) = Facts(s)
    BY <1>4 DEF Facts
  <1>7. ContentsDistinct(s) => ContentsDistinct(new)
    BY <1>4, <1>6 DEF ContentsDistinct
  <1>8. \A deleted : LinksAgree(s, deleted) => LinksAgree(new, deleted)
    BY <1>4, <1>6 DEF LinksAgree
  <1>9. QED BY <1>4, <1>5, <1>7, <1>8 DEF new

(* A fact whose content is free is written: the tables go on agreeing.     *)
LEMMA PutFactAgrees ==
  ASSUME NEW s \in Stores, NEW f \in FactIds, NEW r \in FactRecords,
         ContentFree(s, f, r.content)
  PROVE  LET new == PutFact(s, f, r)
         IN  /\ new \in Stores
             /\ new.entities = s.entities
             /\ new.names = s.names
             /\ new.facts = [s.facts EXCEPT ![f] = r]
             /\ new.relations = s.relations
             /\ NamesAgree(s) => NamesAgree(new)
             /\ ContentsDistinct(s) => ContentsDistinct(new)
             /\ \A deleted : LinksAgree(s, deleted) => LinksAgree(new, deleted)
  <1> DEFINE new == PutFact(s, f, r)
             linked == {l \in s.linked : l[2] # f} \cup Links(f, r.links)
  <1>1. new = [s EXCEPT !.facts = [s.facts EXCEPT ![f] = r], !.linked = linked]
    BY DEF PutFact
  <1>2. linked \in SUBSET (EntityIds \X FactIds)
    BY StoreTypes DEF Links, FactRecords
  <1>3. [s.facts EXCEPT ![f] = r] \in [FactIds -> Maybe(FactRecords)]
    BY StoreTypes DEF Maybe
  <1>n. \A g \in FactIds, e \in EntityIds :
          <<e, g>> \in linked <=> IF g = f THEN e \in r.links ELSE <<e, g>> \in s.linked
    BY DEF Links
  <1> HIDE DEF linked
  <1>4. /\ new \in Stores
        /\ new.entities = s.entities
        /\ new.names = s.names
        /\ new.facts = [s.facts EXCEPT ![f] = r]
        /\ new.linked = linked
        /\ new.relations = s.relations
    BY <1>1, <1>2, <1>3, StoreTypes DEF Stores
  <1> HIDE DEF new
  <1>5. NamesAgree(s) => NamesAgree(new)
    BY <1>4 DEF NamesAgree, Entities
  <1>6. /\ f \in Facts(new) /\ new.facts[f] = r
        /\ \A g \in FactIds : g # f => /\ new.facts[g] = s.facts[g]
                                       /\ g \in Facts(new) <=> g \in Facts(s)
    BY <1>4, StoreTypes, NilIsNoRecord DEF Facts
  <1>7. ASSUME ContentsDistinct(s)
        PROVE  ContentsDistinct(new)
    <2>1. \A g \in Facts(s) : g # f => s.facts[g].content # r.content
      BY DEF ContentFree, Holding
    <2>2. \A g \in Facts(new) : g \in FactIds
      BY DEF Facts
    <2>3. QED BY <1>6, <1>7, <2>1, <2>2 DEF ContentsDistinct
  <1>8. ASSUME NEW deleted, LinksAgree(s, deleted)
        PROVE  LinksAgree(new, deleted)
    <2>1. ASSUME NEW g \in FactIds, NEW e \in EntityIds
          PROVE  /\ <<e, g>> \in new.linked => g \in Facts(new) /\ e \in new.facts[g].links
                 /\ g \in Facts(new) /\ e \in new.facts[g].links \ deleted
                      => <<e, g>> \in new.linked
      <3>1. CASE g = f
        BY <1>4, <1>6, <1>n, <3>1
      <3>2. CASE g # f
        BY <1>4, <1>6, <1>8, <1>n, <3>2 DEF LinksAgree
      <3>3. QED BY <3>1, <3>2
    <2>2. QED BY <2>1 DEF LinksAgree
  <1>9. QED BY <1>4, <1>5, <1>7, <1>8 DEF new

(* A relation is written over the one between the same entities.           *)
LEMMA PutRelationAgrees ==
  ASSUME NEW s \in Stores, NEW r \in Relations
  PROVE  LET new == PutRelation(s, r)
         IN  /\ new \in Stores
             /\ new.entities = s.entities
             /\ new.names = s.names
             /\ new.facts = s.facts
             /\ new.linked = s.linked
             /\ new.relations = {q \in s.relations : q.from # r.from \/ q.to # r.to} \cup {r}
             /\ NamesAgree(s) => NamesAgree(new)
             /\ ContentsDistinct(s) => ContentsDistinct(new)
             /\ \A deleted : LinksAgree(s, deleted) => LinksAgree(new, deleted)
  <1> DEFINE new == PutRelation(s, r)
             relations == {q \in s.relations : q.from # r.from \/ q.to # r.to} \cup {r}
  <1>1. new = [s EXCEPT !.relations = relations]
    BY DEF PutRelation
  <1>2. relations \in SUBSET Relations
    BY StoreTypes
  <1> HIDE DEF relations
  <1>4. /\ new \in Stores
        /\ new.entities = s.entities
        /\ new.names = s.names
        /\ new.facts = s.facts
        /\ new.linked = s.linked
        /\ new.relations = relations
    BY <1>1, <1>2, StoreTypes DEF Stores
  <1> HIDE DEF new
  <1>5. NamesAgree(s) => NamesAgree(new)
    BY <1>4 DEF NamesAgree, Entities
  <1>6. ContentsDistinct(s) => ContentsDistinct(new)
    BY <1>4 DEF ContentsDistinct, Facts
  <1>7. \A deleted : LinksAgree(s, deleted) => LinksAgree(new, deleted)
    BY <1>4 DEF LinksAgree, Facts
  <1>8. QED BY <1>4, <1>5, <1>6, <1>7 DEF new, relations

(* The records of a store as they travel.                                  *)
LEMMA WiresOfStore ==
  ASSUME NEW s \in Stores
  PROVE  /\ \A w : w \in Wires(s, "entity") <=> w \in EntityWires /\ s.entities[w.id] = w.record
         /\ \A w : w \in Wires(s, "fact") <=> w \in FactWires /\ s.facts[w.id] = w.record
         /\ \A w : w \in AllWires(s) <=> \/ w \in EntityWires /\ s.entities[w.id] = w.record
                                         \/ w \in FactWires /\ s.facts[w.id] = w.record
  <1>1. ASSUME NEW w
        PROVE  w \in Wires(s, "entity") <=> w \in EntityWires /\ s.entities[w.id] = w.record
    <2>1. ASSUME w \in Wires(s, "entity")
          PROVE  w \in EntityWires /\ s.entities[w.id] = w.record
      <3>1. PICK i \in EntityIds : /\ s.entities[i] # Nil
                                   /\ w = [kind |-> "entity", id |-> i, record |-> s.entities[i]]
        BY <2>1 DEF Wires, Ids
      <3>2. s.entities[i] \in EntityRecords
        BY <3>1, StoreTypes DEF Maybe
      <3>3. QED BY <3>1, <3>2 DEF EntityWires
    <2>2. ASSUME w \in EntityWires, s.entities[w.id] = w.record
          PROVE  w \in Wires(s, "entity")
      <3>1. /\ w.id \in EntityIds /\ s.entities[w.id] # Nil
            /\ w = [kind |-> "entity", id |-> w.id, record |-> s.entities[w.id]]
        BY <2>2, NilIsNoRecord DEF EntityWires
      <3>2. QED BY <3>1 DEF Wires, Ids
    <2>3. QED BY <2>1, <2>2
  <1>2. ASSUME NEW w
        PROVE  w \in Wires(s, "fact") <=> w \in FactWires /\ s.facts[w.id] = w.record
    <2>1. ASSUME w \in Wires(s, "fact")
          PROVE  w \in FactWires /\ s.facts[w.id] = w.record
      <3>1. PICK i \in FactIds : /\ s.facts[i] # Nil
                                 /\ w = [kind |-> "fact", id |-> i, record |-> s.facts[i]]
        BY <2>1 DEF Wires, Ids
      <3>2. s.facts[i] \in FactRecords
        BY <3>1, StoreTypes DEF Maybe
      <3>3. QED BY <3>1, <3>2 DEF FactWires
    <2>2. ASSUME w \in FactWires, s.facts[w.id] = w.record
          PROVE  w \in Wires(s, "fact")
      <3>1. /\ w.id \in FactIds /\ s.facts[w.id] # Nil
            /\ w = [kind |-> "fact", id |-> w.id, record |-> s.facts[w.id]]
        BY <2>2, NilIsNoRecord DEF FactWires
      <3>2. QED BY <3>1 DEF Wires, Ids
    <2>3. QED BY <2>1, <2>2
  <1>3. QED BY <1>1, <1>2 DEF AllWires

(* What a record that travels has, by kind.                                *)
LEMMA WireTypes ==
  /\ \A w \in EntityWires : /\ w.kind = "entity" /\ w.id \in EntityIds /\ w.id \in Nat \ {0}
                            /\ w.record \in EntityRecords /\ w.record.at \in Nat
                            /\ w = [kind |-> "entity", id |-> w.id, record |-> w.record]
  /\ \A w \in FactWires : /\ w.kind = "fact" /\ w.id \in FactIds /\ w.id \in Nat \ {0}
                          /\ w.record \in FactRecords /\ w.record.at \in Nat
                          /\ w = [kind |-> "fact", id |-> w.id, record |-> w.record]
  /\ \A w \in RelationWires : /\ w.kind = "relation" /\ w.id = 0
                              /\ w.record \in Relations /\ w.record.at \in Nat
  <1>1. \A w \in EntityWires :
          /\ w.kind = "entity" /\ w.id \in EntityIds /\ w.id \in Nat \ {0}
          /\ w.record \in EntityRecords /\ w.record.at \in Nat
          /\ w = [kind |-> "entity", id |-> w.id, record |-> w.record]
    <2>1. \A r \in EntityRecords : r.at \in Nat
      BY DEF EntityRecords
    <2>2. \A w \in EntityWires :
            /\ w.kind = "entity" /\ w.id \in EntityIds /\ w.record \in EntityRecords
            /\ w = [kind |-> "entity", id |-> w.id, record |-> w.record]
      BY DEF EntityWires
    <2>3. \A i \in EntityIds : i \in Nat \ {0}
      BY IdsAssumption
    <2>4. QED BY <2>1, <2>2, <2>3
  <1>2. \A w \in FactWires :
          /\ w.kind = "fact" /\ w.id \in FactIds /\ w.id \in Nat \ {0}
          /\ w.record \in FactRecords /\ w.record.at \in Nat
          /\ w = [kind |-> "fact", id |-> w.id, record |-> w.record]
    <2>1. \A r \in FactRecords : r.at \in Nat
      BY DEF FactRecords
    <2>2. \A w \in FactWires :
            /\ w.kind = "fact" /\ w.id \in FactIds /\ w.record \in FactRecords
            /\ w = [kind |-> "fact", id |-> w.id, record |-> w.record]
      BY DEF FactWires
    <2>3. \A i \in FactIds : i \in Nat \ {0}
      BY IdsAssumption
    <2>4. QED BY <2>1, <2>2, <2>3
  <1>3. \A w \in RelationWires : /\ w.kind = "relation" /\ w.id = 0
                                 /\ w.record \in Relations /\ w.record.at \in Nat
    <2>1. \A r \in Relations : r.at \in Nat
      BY DEF Relations
    <2>2. QED BY <2>1 DEF RelationWires
  <1>4. QED BY <1>1, <1>2, <1>3

(* The outcomes of an entity's upsert, and when each comes.                *)
LEMMA UpsertEntity ==
  ASSUME NEW s \in Stores, NEW w \in EntityWires
  PROVE  LET u == Upsert(s, w)
         IN  /\ u.outcome = EntityOutcome(s, w.id, w.record)
             /\ u.outcome \in {"known", "taken", "error", "stored"}
             /\ u.outcome # "stored" => u.store = s
             /\ u.outcome = "known" => /\ s.entities[w.id] # Nil
                                       /\ s.entities[w.id].at >= w.record.at
             /\ u.outcome = "stored" =>
                  /\ NamesFree(s, w.id, w.record)
                  /\ u.store = PutEntity(s, w.id, w.record)
                  /\ \/ s.entities[w.id] = Nil
                     \/ s.entities[w.id].at < w.record.at
  <1>1. w.kind = "entity"
    BY WireTypes
  <1> DEFINE o == EntityOutcome(s, w.id, w.record)
  <1>2. Upsert(s, w) = [outcome |-> o, store |-> IF o = "stored"
                        THEN PutEntity(s, w.id, w.record) ELSE s]
    BY <1>1 DEF Upsert
  <1>3. o \in {"known", "taken", "error", "stored"}
    BY DEF EntityOutcome
  <1>4. o = "known" => s.entities[w.id] # Nil /\ s.entities[w.id].at >= w.record.at
    BY DEF EntityOutcome
  <1>5. o = "stored" => /\ NamesFree(s, w.id, w.record)
                        /\ ~(s.entities[w.id] # Nil /\ s.entities[w.id].at >= w.record.at)
    BY DEF EntityOutcome
  <1>6. s.entities[w.id] # Nil => s.entities[w.id].at \in Nat
    BY StoreTypes, WireTypes DEF Maybe, EntityRecords
  <1>7. w.record.at \in Nat
    BY WireTypes
  <1> HIDE DEF o
  <1>8. QED BY <1>2, <1>3, <1>4, <1>5, <1>6, <1>7 DEF o

(* The outcomes of a fact's upsert, and when each comes.                   *)
LEMMA UpsertFact ==
  ASSUME NEW s \in Stores, NEW w \in FactWires
  PROVE  LET u == Upsert(s, w)
         IN  /\ u.outcome = FactOutcome(s, w.id, w.record)
             /\ u.outcome \in {"known", "taken", "error", "stored"}
             /\ u.outcome # "stored" => u.store = s
             /\ u.outcome = "known" => /\ s.facts[w.id] # Nil
                                       /\ s.facts[w.id].at >= w.record.at
             /\ u.outcome = "stored" =>
                  /\ ContentFree(s, w.id, w.record.content)
                  /\ u.store = PutFact(s, w.id, w.record)
                  /\ \/ s.facts[w.id] = Nil
                     \/ s.facts[w.id].at < w.record.at
  <1>1. w.kind = "fact"
    BY WireTypes
  <1> DEFINE o == FactOutcome(s, w.id, w.record)
  <1>2. Upsert(s, w) = [outcome |-> o, store |-> IF o = "stored"
                        THEN PutFact(s, w.id, w.record) ELSE s]
    BY <1>1 DEF Upsert
  <1>3. o \in {"known", "taken", "error", "stored"}
    BY DEF FactOutcome
  <1>4. o = "known" => s.facts[w.id] # Nil /\ s.facts[w.id].at >= w.record.at
    BY DEF FactOutcome
  <1>5. o = "stored" => /\ ContentFree(s, w.id, w.record.content)
                        /\ ~(s.facts[w.id] # Nil /\ s.facts[w.id].at >= w.record.at)
    BY DEF FactOutcome
  <1>6. s.facts[w.id] # Nil => s.facts[w.id].at \in Nat
    BY StoreTypes, WireTypes DEF Maybe, FactRecords
  <1>7. w.record.at \in Nat
    BY WireTypes
  <1> HIDE DEF o
  <1>8. QED BY <1>2, <1>3, <1>4, <1>5, <1>6, <1>7 DEF o

(* A relation is always stored.                                            *)
LEMMA UpsertRelation ==
  ASSUME NEW s, NEW w \in RelationWires
  PROVE  Upsert(s, w) = [outcome |-> "stored", store |-> PutRelation(s, w.record)]
  BY WireTypes DEF Upsert

(* One upsert keeps the tables agreeing, loses no fact, replaces a record  *)
(* only by one of its key with a later stamp, and, unless it was refused,  *)
(* leaves the record or one that is as new.                                *)
LEMMA UpsertKeeps ==
  ASSUME NEW s \in Stores, NEW w \in WireSet
  PROVE  LET t == Upsert(s, w).store
         IN  /\ t \in Stores
             /\ NamesAgree(s) => NamesAgree(t)
             /\ ContentsDistinct(s) => ContentsDistinct(t)
             /\ \A deleted : LinksAgree(s, deleted) => LinksAgree(t, deleted)
             /\ Facts(s) \subseteq Facts(t)
             /\ \A v \in AllWires(t) : v \in AllWires(s) \/ v = w
             /\ \A v \in AllWires(s) :
                  \/ v \in AllWires(t)
                  \/ /\ Key(w) = Key(v) /\ w.record.at > v.record.at
                     /\ w \in AllWires(t)
             /\ w \notin EntityWires => t.entities = s.entities
             /\ w \notin RelationWires => t.relations = s.relations
             /\ w \in RelationWires =>
                  t.relations = {q \in s.relations :
                                   q.from # w.record.from \/ q.to # w.record.to}
                                  \cup {w.record}
             /\ w \notin RelationWires /\ Upsert(s, w).outcome \in {"stored", "known"} =>
                  \E v \in AllWires(t) : Key(v) = Key(w) /\ v.record.at >= w.record.at
             /\ Upsert(s, w).outcome \in {"known", "taken", "error", "stored"}
  <1> DEFINE t == Upsert(s, w).store
             o == Upsert(s, w).outcome
             Kept == /\ t \in Stores
                     /\ NamesAgree(s) => NamesAgree(t)
                     /\ ContentsDistinct(s) => ContentsDistinct(t)
                     /\ \A deleted : LinksAgree(s, deleted) => LinksAgree(t, deleted)
                     /\ Facts(s) \subseteq Facts(t)
             From == \A v \in AllWires(t) : v \in AllWires(s) \/ v = w
             Held == \A v \in AllWires(s) :
                       \/ v \in AllWires(t)
                       \/ /\ Key(w) = Key(v) /\ w.record.at > v.record.at
                          /\ w \in AllWires(t)
             There == o \in {"stored", "known"} =>
                        \E v \in AllWires(t) : Key(v) = Key(w) /\ v.record.at >= w.record.at
             Outcomes == {"known", "taken", "error", "stored"}
  <1>1. ASSUME w \in EntityWires
        PROVE  /\ Kept /\ From /\ Held /\ There /\ o \in Outcomes
               /\ t.relations = s.relations
    <2>1. /\ w.id \in EntityIds /\ w.record \in EntityRecords /\ w.record.at \in Nat
          /\ w.kind = "entity"
      BY <1>1, WireTypes
    <2>2. /\ o \in Outcomes
          /\ o # "stored" => t = s
          /\ o = "known" => /\ s.entities[w.id] # Nil
                            /\ s.entities[w.id].at >= w.record.at
          /\ o = "stored" => /\ NamesFree(s, w.id, w.record)
                             /\ t = PutEntity(s, w.id, w.record)
                             /\ \/ s.entities[w.id] = Nil
                                \/ s.entities[w.id].at < w.record.at
      BY <1>1, UpsertEntity
    <2> HIDE DEF t, o
    <2>3. CASE o = "stored"
      <3>1. /\ t \in Stores
            /\ t.entities = [s.entities EXCEPT ![w.id] = w.record]
            /\ t.facts = s.facts
            /\ t.linked = s.linked
            /\ t.relations = s.relations
            /\ NamesAgree(s) => NamesAgree(t)
            /\ ContentsDistinct(s) => ContentsDistinct(t)
            /\ \A deleted : LinksAgree(s, deleted) => LinksAgree(t, deleted)
        BY <2>1, <2>2, <2>3, PutEntityAgrees
      <3>2. Kept
        BY <3>1 DEF Facts
      <3>3. t.entities[w.id] = w.record
        BY <2>1, <3>1, StoreTypes
      <3>4. \A e \in EntityIds : e # w.id => t.entities[e] = s.entities[e]
        BY <3>1, StoreTypes
      <3>a. w \in AllWires(t)
        BY <1>1, <3>1, <3>3, WiresOfStore
      <3>5. From
        <4>1. SUFFICES ASSUME NEW v \in AllWires(t), v \notin AllWires(s) PROVE v = w
          OBVIOUS
        <4>a. t.facts = s.facts /\ s \in Stores /\ t \in Stores
          BY <3>1
        <4>b. /\ v \in AllWires(t) <=> \/ v \in EntityWires /\ t.entities[v.id] = v.record
                                       \/ v \in FactWires /\ t.facts[v.id] = v.record
              /\ v \in AllWires(s) <=> \/ v \in EntityWires /\ s.entities[v.id] = v.record
                                       \/ v \in FactWires /\ s.facts[v.id] = v.record
          BY <4>a, WiresOfStore
        <4>2. v \in EntityWires /\ t.entities[v.id] = v.record /\ s.entities[v.id] # v.record
          BY <4>1, <4>a, <4>b
        <4>3. v.id = w.id /\ v.record = w.record
          BY <3>3, <3>4, <4>2, WireTypes
        <4>4. QED BY <1>1, <4>2, <4>3, WireTypes
      <3>6. Held
        <4>1. SUFFICES ASSUME NEW v \in AllWires(s), v \notin AllWires(t)
                       PROVE  /\ Key(w) = Key(v) /\ w.record.at > v.record.at
                              /\ w \in AllWires(t)
          OBVIOUS
        <4>a. t.facts = s.facts /\ s \in Stores /\ t \in Stores
          BY <3>1
        <4>b. /\ v \in AllWires(t) <=> \/ v \in EntityWires /\ t.entities[v.id] = v.record
                                       \/ v \in FactWires /\ t.facts[v.id] = v.record
              /\ v \in AllWires(s) <=> \/ v \in EntityWires /\ s.entities[v.id] = v.record
                                       \/ v \in FactWires /\ s.facts[v.id] = v.record
          BY <4>a, WiresOfStore
        <4>2. v \in EntityWires /\ s.entities[v.id] = v.record /\ t.entities[v.id] # v.record
          BY <4>1, <4>a, <4>b
        <4>3. v.id = w.id
          BY <3>4, <4>2, WireTypes
        <4>4. s.entities[w.id] # Nil
          BY <4>2, <4>3, NilIsNoRecord, WireTypes
        <4>5. v.record.at < w.record.at
          BY <2>2, <2>3, <4>2, <4>3, <4>4
        <4>6. v.record.at \in Nat /\ v.kind = "entity"
          BY <4>2, WireTypes
        <4>7. QED BY <2>1, <3>a, <4>3, <4>5, <4>6 DEF Key
      <3>7. There
        BY <2>1, <3>a
      <3>8. QED BY <2>2, <3>1, <3>2, <3>5, <3>6, <3>7
    <2>4. CASE o # "stored"
      <3>1. t = s
        BY <2>2, <2>4
      <3>2. There
        <4>1. SUFFICES ASSUME o = "known"
                       PROVE \E v \in AllWires(t) : Key(v) = Key(w) /\ v.record.at >= w.record.at
          BY <2>4
        <4> DEFINE v == [kind |-> "entity", id |-> w.id, record |-> s.entities[w.id]]
        <4>2. s.entities[w.id] \in EntityRecords /\ s.entities[w.id].at >= w.record.at
          BY <2>1, <2>2, <4>1, StoreTypes DEF Maybe
        <4>3. v \in EntityWires
          BY <2>1, <4>2 DEF EntityWires
        <4>4. v \in AllWires(t)
          BY <3>1, <4>3, WiresOfStore
        <4>5. QED BY <2>1, <4>2, <4>4 DEF Key
      <3>3. QED BY <2>2, <3>1, <3>2
    <2>5. QED BY <2>3, <2>4
  <1>2. ASSUME w \in FactWires
        PROVE  /\ Kept /\ From /\ Held /\ There /\ o \in Outcomes
               /\ t.relations = s.relations
               /\ t.entities = s.entities
    <2>1. /\ w.id \in FactIds /\ w.record \in FactRecords /\ w.record.at \in Nat
          /\ w.kind = "fact"
      BY <1>2, WireTypes
    <2>2. /\ o \in Outcomes
          /\ o # "stored" => t = s
          /\ o = "known" => /\ s.facts[w.id] # Nil
                            /\ s.facts[w.id].at >= w.record.at
          /\ o = "stored" => /\ ContentFree(s, w.id, w.record.content)
                             /\ t = PutFact(s, w.id, w.record)
                             /\ \/ s.facts[w.id] = Nil
                                \/ s.facts[w.id].at < w.record.at
      BY <1>2, UpsertFact
    <2> HIDE DEF t, o
    <2>3. CASE o = "stored"
      <3>1. /\ t \in Stores
            /\ t.facts = [s.facts EXCEPT ![w.id] = w.record]
            /\ t.entities = s.entities
            /\ t.relations = s.relations
            /\ NamesAgree(s) => NamesAgree(t)
            /\ ContentsDistinct(s) => ContentsDistinct(t)
            /\ \A deleted : LinksAgree(s, deleted) => LinksAgree(t, deleted)
        BY <2>1, <2>2, <2>3, PutFactAgrees
      <3>3. t.facts[w.id] = w.record
        BY <2>1, <3>1, StoreTypes
      <3>4. \A e \in FactIds : e # w.id => t.facts[e] = s.facts[e]
        BY <3>1, StoreTypes
      <3>2. Kept
        <4>1. Facts(s) \subseteq Facts(t)
          BY <2>1, <3>3, <3>4, NilIsNoRecord DEF Facts
        <4>2. QED BY <3>1, <4>1
      <3>a. w \in AllWires(t)
        BY <1>2, <3>1, <3>3, WiresOfStore
      <3>5. From
        <4>1. SUFFICES ASSUME NEW v \in AllWires(t), v \notin AllWires(s) PROVE v = w
          OBVIOUS
        <4>a. t.entities = s.entities /\ s \in Stores /\ t \in Stores
          BY <3>1
        <4>b. /\ v \in AllWires(t) <=> \/ v \in EntityWires /\ t.entities[v.id] = v.record
                                       \/ v \in FactWires /\ t.facts[v.id] = v.record
              /\ v \in AllWires(s) <=> \/ v \in EntityWires /\ s.entities[v.id] = v.record
                                       \/ v \in FactWires /\ s.facts[v.id] = v.record
          BY <4>a, WiresOfStore
        <4>2. v \in FactWires /\ t.facts[v.id] = v.record /\ s.facts[v.id] # v.record
          BY <4>1, <4>a, <4>b
        <4>3. v.id = w.id /\ v.record = w.record
          BY <3>3, <3>4, <4>2, WireTypes
        <4>4. QED BY <1>2, <4>2, <4>3, WireTypes
      <3>6. Held
        <4>1. SUFFICES ASSUME NEW v \in AllWires(s), v \notin AllWires(t)
                       PROVE  /\ Key(w) = Key(v) /\ w.record.at > v.record.at
                              /\ w \in AllWires(t)
          OBVIOUS
        <4>a. t.entities = s.entities /\ s \in Stores /\ t \in Stores
          BY <3>1
        <4>b. /\ v \in AllWires(t) <=> \/ v \in EntityWires /\ t.entities[v.id] = v.record
                                       \/ v \in FactWires /\ t.facts[v.id] = v.record
              /\ v \in AllWires(s) <=> \/ v \in EntityWires /\ s.entities[v.id] = v.record
                                       \/ v \in FactWires /\ s.facts[v.id] = v.record
          BY <4>a, WiresOfStore
        <4>2. v \in FactWires /\ s.facts[v.id] = v.record /\ t.facts[v.id] # v.record
          BY <4>1, <4>a, <4>b
        <4>3. v.id = w.id
          BY <3>4, <4>2, WireTypes
        <4>4. s.facts[w.id] # Nil
          BY <4>2, <4>3, NilIsNoRecord, WireTypes
        <4>5. v.record.at < w.record.at
          BY <2>2, <2>3, <4>2, <4>3, <4>4
        <4>6. v.record.at \in Nat /\ v.kind = "fact"
          BY <4>2, WireTypes
        <4>7. QED BY <2>1, <3>a, <4>3, <4>5, <4>6 DEF Key
      <3>7. There
        BY <2>1, <3>a
      <3>8. QED BY <2>2, <3>1, <3>2, <3>5, <3>6, <3>7
    <2>4. CASE o # "stored"
      <3>1. t = s
        BY <2>2, <2>4
      <3>2. There
        <4>1. SUFFICES ASSUME o = "known"
                       PROVE \E v \in AllWires(t) : Key(v) = Key(w) /\ v.record.at >= w.record.at
          BY <2>4
        <4> DEFINE v == [kind |-> "fact", id |-> w.id, record |-> s.facts[w.id]]
        <4>2. s.facts[w.id] \in FactRecords /\ s.facts[w.id].at >= w.record.at
          BY <2>1, <2>2, <4>1, StoreTypes DEF Maybe
        <4>3. v \in FactWires
          BY <2>1, <4>2 DEF FactWires
        <4>4. v \in AllWires(t)
          BY <3>1, <4>3, WiresOfStore
        <4>5. QED BY <2>1, <4>2, <4>4 DEF Key
      <3>3. QED BY <2>2, <3>1, <3>2
    <2>5. QED BY <2>3, <2>4
  <1>3. ASSUME w \in RelationWires
        PROVE  /\ Kept /\ From /\ Held /\ o \in Outcomes
               /\ t.entities = s.entities
               /\ t.relations = {q \in s.relations :
                                   q.from # w.record.from \/ q.to # w.record.to}
                                  \cup {w.record}
    <2>1. w.record \in Relations
      BY <1>3, WireTypes
    <2>2. t = PutRelation(s, w.record) /\ o = "stored"
      BY <1>3, UpsertRelation
    <2> HIDE DEF t, o
    <2>3. /\ t \in Stores
          /\ t.facts = s.facts
          /\ t.entities = s.entities
          /\ t.relations = {q \in s.relations :
                              q.from # w.record.from \/ q.to # w.record.to}
                             \cup {w.record}
          /\ NamesAgree(s) => NamesAgree(t)
          /\ ContentsDistinct(s) => ContentsDistinct(t)
          /\ \A deleted : LinksAgree(s, deleted) => LinksAgree(t, deleted)
      BY <2>1, <2>2, PutRelationAgrees
    <2>4. AllWires(t) = AllWires(s)
      BY <2>3, WiresOfStore
    <2>5. QED BY <2>2, <2>3, <2>4 DEF Facts
  <1>4. EntityWires \cap FactWires = {} /\ EntityWires \cap RelationWires = {}
        /\ FactWires \cap RelationWires = {}
    BY WireTypes
  <1> HIDE DEF t, o, Kept, From, Held, There, Outcomes
  <1>5. /\ Kept /\ From /\ Held /\ o \in Outcomes
        /\ w \notin EntityWires => t.entities = s.entities
        /\ w \notin RelationWires => t.relations = s.relations /\ There
        /\ w \in RelationWires =>
             t.relations = {q \in s.relations :
                              q.from # w.record.from \/ q.to # w.record.to}
                             \cup {w.record}
    BY <1>1, <1>2, <1>3, <1>4 DEF WireSet
  <1>6. QED BY <1>5 DEF t, o, Kept, From, Held, There, Outcomes

-----------------------------------------------------------------------------
(* The import of a page.                                                   *)

(* No two records of W are about the same two entities.                    *)
DistinctRelations(W) ==
  \A v, w \in W \cap RelationWires :
    v.record.from = w.record.from /\ v.record.to = w.record.to => v.record = w.record

(* t is s after records of W were taken in, some of them or all: its       *)
(* tables agree as those of s did, and each record of s is there or was    *)
(* replaced by a later one of W.                                           *)
Absorbs(s, t, W) ==
  /\ t \in Stores
  /\ NamesAgree(s) => NamesAgree(t)
  /\ ContentsDistinct(s) => ContentsDistinct(t)
  /\ \A deleted : LinksAgree(s, deleted) => LinksAgree(t, deleted)
  /\ Facts(s) \subseteq Facts(t)
  /\ W \cap EntityWires = {} => t.entities = s.entities
  /\ \A v \in AllWires(t) : v \in AllWires(s) \/ v \in W
  /\ \A v \in AllWires(s) :
       \/ v \in AllWires(t)
       \/ \E w \in W : Key(w) = Key(v) /\ w.record.at > v.record.at
  /\ \A q \in t.relations :
       q \in s.relations \/ \E w \in W \cap RelationWires : q = w.record
  /\ \A q \in s.relations :
       \/ q \in t.relations
       \/ \E w \in W \cap RelationWires :
            /\ w.record.from = q.from /\ w.record.to = q.to
            /\ w.record \in t.relations

(* All of W was taken in, or is as new in t, but for the records whose     *)
(* name or content another id holds.                                       *)
Complete(t, W, taken) ==
  /\ \A w \in W : w \notin RelationWires =>
       \/ w \in taken
       \/ \E v \in AllWires(t) : Key(v) = Key(w) /\ v.record.at >= w.record.at
  /\ \A w \in W \cap RelationWires : w.record \in t.relations

(* An import of no records.                                                *)
LEMMA AbsorbsNothing ==
  ASSUME NEW s \in Stores
  PROVE  Absorbs(s, s, {}) /\ Complete(s, {}, {})
  BY DEF Absorbs, Complete

(* A page has absorbed no less than a part of it.                          *)
LEMMA AbsorbsMore ==
  ASSUME NEW s, NEW t, NEW W, NEW V, W \subseteq V, Absorbs(s, t, W)
  PROVE  Absorbs(s, t, V)
  <1>1. V \cap EntityWires = {} => t.entities = s.entities
    BY DEF Absorbs
  <1>2. \A v \in AllWires(t) : v \in AllWires(s) \/ v \in V
    BY DEF Absorbs
  <1>3. \A v \in AllWires(s) :
          \/ v \in AllWires(t)
          \/ \E w \in V : Key(w) = Key(v) /\ w.record.at > v.record.at
    BY DEF Absorbs
  <1>4. \A q \in t.relations :
          q \in s.relations \/ \E w \in V \cap RelationWires : q = w.record
    BY DEF Absorbs
  <1>5. \A q \in s.relations :
          \/ q \in t.relations
          \/ \E w \in V \cap RelationWires :
               /\ w.record.from = q.from /\ w.record.to = q.to
               /\ w.record \in t.relations
    BY DEF Absorbs
  <1>6. QED BY <1>1, <1>2, <1>3, <1>4, <1>5 DEF Absorbs

(* One more record is absorbed.                                            *)
LEMMA AbsorbsNext ==
  ASSUME NEW s, NEW t, NEW W \in SUBSET WireSet, NEW w \in WireSet,
         DistinctRelations(W \cup {w}), Absorbs(s, t, W)
  PROVE  Absorbs(s, Upsert(t, w).store, W \cup {w})
  <1> DEFINE n == Upsert(t, w).store
             V == W \cup {w}
  <1>1. /\ n \in Stores
        /\ NamesAgree(t) => NamesAgree(n)
        /\ ContentsDistinct(t) => ContentsDistinct(n)
        /\ \A deleted : LinksAgree(t, deleted) => LinksAgree(n, deleted)
        /\ Facts(t) \subseteq Facts(n)
        /\ \A v \in AllWires(n) : v \in AllWires(t) \/ v = w
        /\ \A v \in AllWires(t) :
             \/ v \in AllWires(n)
             \/ Key(w) = Key(v) /\ w.record.at > v.record.at
        /\ w \notin EntityWires => n.entities = t.entities
        /\ w \notin RelationWires => n.relations = t.relations
        /\ w \in RelationWires =>
             n.relations = {q \in t.relations : q.from # w.record.from \/ q.to # w.record.to}
                             \cup {w.record}
    BY UpsertKeeps DEF Absorbs
  <1> HIDE DEF n
  <1>2. V \cap EntityWires = {} => n.entities = s.entities
    BY <1>1 DEF Absorbs
  <1>3. \A v \in AllWires(n) : v \in AllWires(s) \/ v \in V
    BY <1>1 DEF Absorbs
  <1>4. \A v \in AllWires(s) :
          \/ v \in AllWires(n)
          \/ \E x \in V : Key(x) = Key(v) /\ x.record.at > v.record.at
    BY <1>1 DEF Absorbs
  <1>5. \A q \in n.relations :
          q \in s.relations \/ \E x \in V \cap RelationWires : q = x.record
    BY <1>1 DEF Absorbs
  <1>6. ASSUME NEW q \in s.relations, q \notin n.relations
        PROVE  \E x \in V \cap RelationWires :
                 /\ x.record.from = q.from /\ x.record.to = q.to
                 /\ x.record \in n.relations
    <2>1. CASE q \in t.relations
      <3>1. w \in RelationWires /\ w.record.from = q.from /\ w.record.to = q.to
            /\ w.record \in n.relations
        BY <1>1, <1>6, <2>1
      <3>2. QED BY <3>1
    <2>2. CASE q \notin t.relations
      <3>1. PICK x \in W \cap RelationWires :
              /\ x.record.from = q.from /\ x.record.to = q.to
              /\ x.record \in t.relations
        BY <2>2 DEF Absorbs
      <3>2. x.record \in n.relations
        <4>1. SUFFICES ASSUME x.record \notin n.relations PROVE FALSE
          OBVIOUS
        <4>2. /\ w \in RelationWires /\ w.record.from = x.record.from
              /\ w.record.to = x.record.to /\ w.record \in n.relations
          BY <1>1, <3>1, <4>1
        <4>3. w.record = x.record
          BY <3>1, <4>2 DEF DistinctRelations
        <4>4. QED BY <4>1, <4>2, <4>3
      <3>3. QED BY <3>1, <3>2
    <2>3. QED BY <2>1, <2>2
  <1>7. QED BY <1>1, <1>2, <1>3, <1>4, <1>5, <1>6 DEF Absorbs, n

(* One more record without an error keeps an import complete.              *)
LEMMA CompleteNext ==
  ASSUME NEW t \in Stores, NEW W \in SUBSET WireSet, NEW w \in WireSet, NEW taken,
         DistinctRelations(W \cup {w}), Complete(t, W, taken),
         Upsert(t, w).outcome # "error"
  PROVE  Complete(Upsert(t, w).store, W \cup {w},
                  IF Upsert(t, w).outcome = "taken" THEN taken \cup {w} ELSE taken)
  <1> DEFINE n == Upsert(t, w).store
             o == Upsert(t, w).outcome
             V == W \cup {w}
             more == IF o = "taken" THEN taken \cup {w} ELSE taken
  <1>1. /\ \A v \in AllWires(t) :
             \/ v \in AllWires(n)
             \/ Key(w) = Key(v) /\ w.record.at > v.record.at /\ w \in AllWires(n)
        /\ w \notin RelationWires => n.relations = t.relations
        /\ w \in RelationWires =>
             n.relations = {q \in t.relations : q.from # w.record.from \/ q.to # w.record.to}
                             \cup {w.record}
        /\ w \notin RelationWires /\ o \in {"stored", "known"} =>
             \E v \in AllWires(n) : Key(v) = Key(w) /\ v.record.at >= w.record.at
        /\ o \in {"known", "taken", "error", "stored"}
    BY UpsertKeeps
  <1>2. o # "error"
    OBVIOUS
  <1>3. taken \subseteq more /\ (o = "taken" => w \in more)
    OBVIOUS
  <1> HIDE DEF n, o, more
  <1>4. ASSUME NEW x \in V, x \notin RelationWires, x \notin more
        PROVE  \E v \in AllWires(n) : Key(v) = Key(x) /\ v.record.at >= x.record.at
    <2>1. CASE x = w
      BY <1>1, <1>2, <1>3, <1>4, <2>1
    <2>2. CASE x # w
      <3>1. x \in W /\ x \notin taken
        BY <1>3, <1>4, <2>2
      <3>2. PICK v \in AllWires(t) : Key(v) = Key(x) /\ v.record.at >= x.record.at
        BY <1>4, <3>1 DEF Complete
      <3>3. CASE v \in AllWires(n)
        BY <3>2, <3>3
      <3>4. CASE Key(w) = Key(v) /\ w.record.at > v.record.at /\ w \in AllWires(n)
        <4>1. w.record.at \in Nat /\ v.record.at \in Nat /\ x.record.at \in Nat
          BY WireTypes, WiresOfStore, <3>1 DEF WireSet
        <4>2. QED BY <3>2, <3>4, <4>1
      <3>5. QED BY <1>1, <3>3, <3>4
    <2>3. QED BY <2>1, <2>2
  <1>5. ASSUME NEW x \in V \cap RelationWires
        PROVE  x.record \in n.relations
    <2>1. CASE x = w
      BY <1>1, <2>1
    <2>2. CASE x # w
      <3>1. x.record \in t.relations
        BY <2>2 DEF Complete
      <3>2. CASE w \notin RelationWires
        BY <1>1, <3>1, <3>2
      <3>3. CASE w \in RelationWires
        <4>1. w.record.from = x.record.from /\ w.record.to = x.record.to
                => w.record = x.record
          BY <3>3 DEF DistinctRelations
        <4>2. QED BY <1>1, <3>1, <3>3, <4>1
      <3>4. QED BY <3>2, <3>3
    <2>3. QED BY <2>1, <2>2
  <1>6. QED BY <1>4, <1>5 DEF Complete, n, o, more

(* What an import has at each of its records.                              *)
Results == [store : Stores, errors : Nat, taken : SUBSET WireSet]

(* One record of an import keeps it well formed.                           *)
LEMMA ImportedTyped ==
  ASSUME NEW d \in Results, NEW w \in WireSet, NEW failing
  PROVE  Imported(d, w, failing) \in Results
  <1>1. d.store \in Stores /\ d.errors \in Nat /\ d.taken \in SUBSET WireSet
    BY DEF Results
  <1>2. Upsert(d.store, w).store \in Stores
    BY <1>1, UpsertKeeps
  <1>3. CASE failing
    BY <1>3 DEF Imported, Results
  <1>4. CASE ~failing
    <2> DEFINE u == Upsert(d.store, w)
    <2>1. Imported(d, w, failing) =
            [store |-> u.store,
             errors |-> IF u.outcome = "error" THEN d.errors + 1 ELSE d.errors,
             taken |-> IF u.outcome = "taken" THEN d.taken \cup {w} ELSE d.taken]
      BY <1>4 DEF Imported
    <2> HIDE DEF u
    <2>2. (IF u.outcome = "error" THEN d.errors + 1 ELSE d.errors) \in Nat
      BY <1>1
    <2>3. (IF u.outcome = "taken" THEN d.taken \cup {w} ELSE d.taken) \in SUBSET WireSet
      BY <1>1
    <2>4. u.store \in Stores
      BY <1>2 DEF u
    <2>5. QED BY <2>1, <2>2, <2>3, <2>4 DEF Results
  <1>5. QED BY <1>3, <1>4

(* The states an import goes through, one record at a time.                *)
IsImport(done, s, records, failed) ==
  /\ done \in [0..Len(records) -> Results]
  /\ done[0] = [store |-> s, errors |-> 0, taken |-> {}]
  /\ \A i \in 1..Len(records) :
       done[i] = Imported(done[i - 1], records[i], i = failed)
  /\ Import(s, records, failed) = done[Len(records)]

(* Every import is a run, whichever of its records fails.                  *)
LEMMA ImportRuns ==
  ASSUME NEW s \in Stores, NEW records \in Seq(WireSet), NEW failed
  PROVE  \E done : IsImport(done, s, records, failed)
  <1> DEFINE n == Len(records)
             base == [store |-> s, errors |-> 0, taken |-> {}]
             next == [i \in 1..n |-> [d \in Results |-> Imported(d, records[i], i = failed)]]
             Runs(done) ==
               done = [i \in 0..n |-> IF i = 0 THEN base
                                      ELSE Imported(done[i - 1], records[i], i = failed)]
  <1>1. n \in Nat /\ \A i \in 1..n : records[i] \in WireSet
    OBVIOUS
  <1>2. base \in Results
    BY DEF Results
  <1>3. \A i \in 1..n : \A d \in Results : next[i][d] \in Results
    <2>1. \A i \in 1..n, d \in Results : Imported(d, records[i], i = failed) \in Results
      BY <1>1, ImportedTyped
    <2>2. QED BY <2>1
  <1>4. \A i \in 1..n, d \in Results :
          next[i][d] = Imported(d, records[i], i = failed)
    OBVIOUS
  <1>5. Import(s, records, failed) = (CHOOSE done : Runs(done))[n]
    BY DEF Import
  <1> HIDE DEF next, base
  <1>6. PICK run : IsRun(run, n, Results, base, next)
    BY <1>1, <1>2, <1>3, RunsExist
  <1>a. /\ run \in [0..n -> Results]
        /\ run[0] = base
        /\ \A i \in 1..n : run[i] = next[i][run[i - 1]]
    BY <1>6 DEF IsRun
  <1>7. \A i \in 1..n : i # 0 /\ i \in 0..n /\ i - 1 \in 0..n
    BY <1>1
  <1>8. \A i \in 1..n : run[i - 1] \in Results
    BY <1>a, <1>7
  <1>9. \A i \in 0..n : run[i] = IF i = 0 THEN base
                                 ELSE Imported(run[i - 1], records[i], i = failed)
    <2>1. SUFFICES ASSUME NEW i \in 0..n
                   PROVE  run[i] = IF i = 0 THEN base
                                   ELSE Imported(run[i - 1], records[i], i = failed)
      OBVIOUS
    <2>2. CASE i = 0
      BY <1>a, <2>2
    <2>3. CASE i # 0
      <3>1. i \in 1..n
        BY <1>1, <2>3
      <3>2. run[i] = next[i][run[i - 1]]
        BY <1>a, <3>1
      <3>3. QED BY <1>4, <1>8, <2>3, <3>1, <3>2
    <2>4. QED BY <2>2, <2>3
  <1>10. Runs(run)
    <2> DEFINE again == [i \in 0..n |-> IF i = 0 THEN base
                                       ELSE Imported(run[i - 1], records[i], i = failed)]
    <2>1. \A i \in 0..n : again[i] = run[i]
      BY <1>9
    <2>2. \A i \in 0..n : run[i] \in Results
      BY <1>a
    <2>3. again \in [0..n -> Results]
      <3>1. \A i \in 0..n : again[i] \in Results
        BY <2>1, <2>2
      <3>2. QED BY <3>1
    <2>4. again = run
      <3> HIDE DEF again
      <3>1. QED BY <1>a, <2>1, <2>3
    <2>5. QED BY <2>4
  <1> DEFINE done == CHOOSE done : Runs(done)
  <1>11. Runs(done)
    <2> HIDE DEF Runs
    <2>1. QED BY <1>10
  <1> HIDE DEF done
  <1>12. done[0] = base
    BY <1>1, <1>11
  <1>13. \A i \in 1..n : done[i] = Imported(done[i - 1], records[i], i = failed)
    BY <1>7, <1>11
  <1>14. done \in [0..n -> Results]
    <2> DEFINE T == {i \in 0..n : done[i] \in Results}
    <2>1. 0 \in T
      BY <1>1, <1>2, <1>12
    <2>2. ASSUME NEW i \in 1..n, i - 1 \in T
          PROVE  i \in T
      <3>1. done[i - 1] \in Results
        BY <2>2
      <3>2. done[i] \in Results
        BY <1>1, <1>13, <3>1, ImportedTyped
      <3>3. QED BY <1>7, <3>2
    <2>3. T \in SUBSET (0..n)
      OBVIOUS
    <2>4. 0..n \subseteq T
      <3> HIDE DEF T
      <3>1. QED BY <1>1, <2>1, <2>2, <2>3, LeastFailure
    <2>5. \A i \in 0..n : done[i] \in Results
      BY <2>4
    <2>6. QED BY <1>11, <2>5
  <1>15. QED BY <1>5, <1>12, <1>13, <1>14 DEF base, done, IsImport

(* The first n records.                                                    *)
FirstOf(records, n) == {records[i] : i \in 1..n}

(* The records of a page are the first of them, added one by one.          *)
LEMMA RecordsOf ==
  ASSUME NEW T, NEW records \in Seq(T)
  PROVE  /\ Range(records) = FirstOf(records, Len(records))
         /\ FirstOf(records, 0) = {}
         /\ \A i \in 1..Len(records) :
              /\ FirstOf(records, i) = FirstOf(records, i - 1) \cup {records[i]}
              /\ FirstOf(records, i) \in SUBSET Range(records)
         /\ Range(records) \in SUBSET T
  <1>1. /\ Len(records) \in Nat
        /\ DOMAIN records = 1..Len(records)
        /\ \A i \in 1..Len(records) : records[i] \in T
    OBVIOUS
  <1>2. Range(records) = FirstOf(records, Len(records))
    BY <1>1 DEF Range, FirstOf
  <1>3. FirstOf(records, 0) = {}
    BY DEF FirstOf
  <1>4. ASSUME NEW i \in 1..Len(records)
        PROVE  /\ FirstOf(records, i) = FirstOf(records, i - 1) \cup {records[i]}
               /\ FirstOf(records, i) \in SUBSET Range(records)
    <2>1. 1..i = (1..(i - 1)) \cup {i}
      BY <1>1
    <2>2. FirstOf(records, i) = FirstOf(records, i - 1) \cup {records[i]}
      BY <2>1 DEF FirstOf
    <2>3. 1..i \subseteq 1..Len(records)
      BY <1>1
    <2>4. FirstOf(records, i) \in SUBSET Range(records)
      BY <1>2, <2>3 DEF FirstOf
    <2>5. QED BY <2>2, <2>4
  <1>5. Range(records) \in SUBSET T
    BY <1>1 DEF Range
  <1>6. QED BY <1>2, <1>3, <1>4, <1>5

(* Fewer records have no two relations between the same entities either.   *)
LEMMA DistinctBelow ==
  ASSUME NEW W, NEW V, W \subseteq V, DistinctRelations(V)
  PROVE  DistinctRelations(W)
  BY DEF DistinctRelations

(* What an import has absorbed and completed, after one more record.       *)
LEMMA ImportedKeeps ==
  ASSUME NEW s \in Stores, NEW d \in Results, NEW W \in SUBSET WireSet, NEW w \in WireSet,
         NEW failing, DistinctRelations(W \cup {w}),
         Absorbs(s, d.store, W),
         d.errors = 0 => Complete(d.store, W, d.taken)
  PROVE  LET t == Imported(d, w, failing)
         IN  /\ Absorbs(s, t.store, W \cup {w})
             /\ t.errors = 0 => Complete(t.store, W \cup {w}, t.taken)
  <1> DEFINE t == Imported(d, w, failing)
             u == Upsert(d.store, w)
             V == W \cup {w}
  <1>1. d.store \in Stores /\ d.errors \in Nat /\ d.taken \in SUBSET WireSet
    BY DEF Results
  <1>2. CASE failing
    <2>1. t = [d EXCEPT !.errors = d.errors + 1]
      BY <1>2 DEF Imported
    <2>2. t.store = d.store /\ t.errors = d.errors + 1
      BY <2>1 DEF Results
    <2>3. t.errors # 0
      BY <1>1, <2>2
    <2>4. Absorbs(s, d.store, V)
      BY AbsorbsMore
    <2>5. QED BY <2>2, <2>3, <2>4
  <1>3. CASE ~failing
    <2>1. /\ t.store = u.store
          /\ t.errors = IF u.outcome = "error" THEN d.errors + 1 ELSE d.errors
          /\ t.taken = IF u.outcome = "taken" THEN d.taken \cup {w} ELSE d.taken
      BY <1>3 DEF Imported
    <2>2. Absorbs(s, u.store, V)
      BY AbsorbsNext
    <2>3. ASSUME t.errors = 0 PROVE d.errors = 0 /\ u.outcome # "error"
      BY <1>1, <2>1, <2>3
    <2>4. ASSUME t.errors = 0
          PROVE  Complete(t.store, V, t.taken)
      <3>1. Complete(d.store, W, d.taken) /\ u.outcome # "error"
        BY <2>3, <2>4
      <3>2. Complete(u.store, V, IF u.outcome = "taken" THEN d.taken \cup {w} ELSE d.taken)
        BY <1>1, <3>1, CompleteNext
      <3>3. QED BY <2>1, <3>2
    <2>5. QED BY <2>1, <2>2, <2>4
  <1>4. QED BY <1>2, <1>3

(* sync_import: however many of its records fail, the store absorbs the    *)
(* page; and if none does, the page is complete.                           *)
LEMMA ImportKeeps ==
  ASSUME NEW s \in Stores, NEW records \in Seq(WireSet), NEW failed,
         DistinctRelations(Range(records))
  PROVE  LET t == Import(s, records, failed)
         IN  /\ t \in Results
             /\ Absorbs(s, t.store, Range(records))
             /\ t.errors = 0 => Complete(t.store, Range(records), t.taken)
  <1> DEFINE n == Len(records)
             W(i) == FirstOf(records, i)
  <1>1. n \in Nat /\ \A i \in 1..n : records[i] \in WireSet
    OBVIOUS
  <1>a. PICK done : IsImport(done, s, records, failed)
    BY ImportRuns
  <1>2. /\ done \in [0..n -> Results]
        /\ done[0] = [store |-> s, errors |-> 0, taken |-> {}]
        /\ \A i \in 1..n : done[i] = Imported(done[i - 1], records[i], i = failed)
        /\ Import(s, records, failed) = done[n]
    BY <1>a DEF IsImport
  <1> DEFINE Fine(i) == /\ Absorbs(s, done[i].store, W(i))
                        /\ done[i].errors = 0 => Complete(done[i].store, W(i), done[i].taken)
             T == {i \in 0..n : Fine(i)}
  <1>3. 0 \in T
    <2>1. W(0) = {}
      BY RecordsOf
    <2>2. Absorbs(s, s, {}) /\ Complete(s, {}, {})
      BY AbsorbsNothing
    <2>3. done[0].store = s /\ done[0].taken = {}
      BY <1>2
    <2>4. Fine(0)
      BY <2>1, <2>2, <2>3
    <2>5. QED BY <1>1, <2>4
  <1>4. ASSUME NEW i \in 1..n, i - 1 \in T
        PROVE  i \in T
    <2>1. i - 1 \in 0..n /\ i \in 0..n
      BY <1>1
    <2>2. done[i - 1] \in Results /\ records[i] \in WireSet
      BY <1>1, <1>2, <2>1
    <2>3. /\ W(i) = W(i - 1) \cup {records[i]}
          /\ W(i) \in SUBSET Range(records)
      BY RecordsOf
    <2>4. Range(records) \in SUBSET WireSet
      BY RecordsOf
    <2>5. DistinctRelations(W(i - 1) \cup {records[i]}) /\ W(i - 1) \in SUBSET WireSet
      BY <2>3, <2>4, DistinctBelow
    <2>6. Fine(i - 1)
      BY <1>4
    <2>7. done[i] = Imported(done[i - 1], records[i], i = failed)
      BY <1>2
    <2> HIDE DEF W
    <2>8. Fine(i)
      <3> DEFINE d == done[i - 1]
                 w == records[i]
                 V == W(i - 1)
                 t == Imported(d, w, i = failed)
      <3>1. d \in Results /\ w \in WireSet /\ V \in SUBSET WireSet /\ DistinctRelations(V \cup {w})
        BY <2>2, <2>5
      <3>2. Absorbs(s, d.store, V) /\ (d.errors = 0 => Complete(d.store, V, d.taken))
        BY <2>6
      <3> HIDE DEF d, w, V
      <3>3. /\ Absorbs(s, t.store, V \cup {w})
            /\ t.errors = 0 => Complete(t.store, V \cup {w}, t.taken)
        BY <3>1, <3>2, ImportedKeeps
      <3>4. done[i] = t /\ W(i) = V \cup {w}
        BY <2>3, <2>7 DEF d, w, V
      <3> HIDE DEF t
      <3>5. QED BY <3>3, <3>4
    <2>9. QED
      <3> HIDE DEF Fine
      <3>1. QED BY <2>1, <2>8
  <1>5. T \in SUBSET (0..n)
    OBVIOUS
  <1>6. 0..n \subseteq T
    <2> HIDE DEF T
    <2>1. QED BY <1>1, <1>3, <1>4, <1>5, LeastFailure
  <1>7. Fine(n) /\ n \in 0..n
    <2>1. n \in 0..n
      BY <1>1
    <2>2. n \in T
      BY <1>6, <2>1
    <2>3. QED BY <2>1, <2>2
  <1>8. W(n) = Range(records)
    BY RecordsOf
  <1>9. done[n] \in Results
    BY <1>2, <1>7
  <1>10. QED BY <1>2, <1>7, <1>8, <1>9

-----------------------------------------------------------------------------
(* The export of a page.                                                   *)

(* LIMIT n: the first n of a list.                                         *)
LEMMA TakeOf ==
  ASSUME NEW S, NEW seq \in Seq(S), NEW n \in Nat
  PROVE  LET t == Take(seq, n)
         IN  /\ t \in Seq(S)
             /\ Len(t) = IF n < Len(seq) THEN n ELSE Len(seq)
             /\ \A i \in 1..Len(t) : t[i] = seq[i]
  <1> DEFINE m == IF n < Len(seq) THEN n ELSE Len(seq)
             t == Take(seq, n)
  <1>1. /\ Len(seq) \in Nat /\ m \in Nat /\ m <= Len(seq)
        /\ \A i \in 1..Len(seq) : seq[i] \in S
    OBVIOUS
  <1>2. t = SubSeq(seq, 1, m)
    BY DEF Take
  <1>3. \A i \in 1..m : seq[i] \in S
    BY <1>1
  <1> HIDE DEF m, t
  <1>4. /\ t \in Seq(S)
        /\ Len(t) = m
        /\ \A i \in 1..m : t[i] = seq[i]
    BY <1>1, <1>2, <1>3
  <1>5. QED BY <1>4 DEF m, t

(* What the first n of an ordered list are: those up to its last taken     *)
(* one.                                                                    *)
TakenUpTo(t, S, before, n) ==
  /\ t \in Seq(S)
  /\ Len(t) <= n /\ Len(t) <= Cardinality(S)
  /\ t = <<>> <=> n = 0 \/ S = {}
  /\ t # <<>> => Last(t) \in S
  /\ \A x \in S : t # <<>> /\ (x = Last(t) \/ <<x, Last(t)>> \in before)
                    => x \in Range(t)
  /\ Cardinality(S) <= n =>
       \A x \in S : x = Last(t) \/ <<x, Last(t)>> \in before

(* ORDER BY with LIMIT n.                                                  *)
LEMMA FirstOfSorted ==
  ASSUME NEW S, IsFiniteSet(S), NEW before, TotalOn(S, before), NEW n \in Nat
  PROVE  TakenUpTo(Take(Sorted(S, before), n), S, before, n)
  <1> DEFINE list == Sorted(S, before)
             k == Cardinality(S)
             t == Take(list, n)
  <1>1. /\ list \in Seq(S)
        /\ Len(list) = k
        /\ \A x \in S : \E i \in 1..k : list[i] = x
        /\ \A i, j \in 1..k : i < j => <<list[i], list[j]>> \in before
    BY SortedLists
  <1>2. k \in Nat /\ (k = 0 <=> S = {})
    BY FS_CardinalityType, FS_EmptySet
  <1>3. /\ t \in Seq(S)
        /\ Len(t) = IF n < k THEN n ELSE k
        /\ \A i \in 1..Len(t) : t[i] = list[i]
    BY <1>1, TakeOf
  <1> DEFINE m == Len(t)
  <1> HIDE DEF list, k, t
  <1>4. /\ m \in Nat /\ m <= n /\ m <= k
        /\ t = <<>> <=> m = 0
        /\ DOMAIN t = 1..m
        /\ \A i \in 1..m : t[i] \in S /\ t[i] = list[i]
    BY <1>2, <1>3
  <1>5. m = 0 <=> n = 0 \/ k = 0
    BY <1>2, <1>3, <1>4
  <1>6. ASSUME t # <<>>
        PROVE  Last(t) \in S /\ Last(t) = list[m] /\ m \in 1..k /\ m \in 1..m
    BY <1>2, <1>4, <1>6 DEF Last
  <1>7. ASSUME NEW x \in S, t # <<>>, x = Last(t) \/ <<x, Last(t)>> \in before
        PROVE  x \in Range(t)
    <2>1. PICK i \in 1..k : list[i] = x
      BY <1>1 DEF list, k
    <2>2. i <= m
      <3>1. SUFFICES ASSUME m < i PROVE FALSE
        BY <1>4, <2>1
      <3>2. <<Last(t), x>> \in before
        BY <1>1, <1>6, <1>7, <2>1, <3>1
      <3>3. <<x, x>> \in before
        BY <1>6, <1>7, <3>2 DEF TotalOn
      <3>4. QED BY <3>3 DEF TotalOn
    <2>3. i \in 1..m
      BY <1>2, <1>4, <2>1, <2>2
    <2>4. QED BY <1>4, <2>1, <2>3 DEF Range
  <1>8. ASSUME k <= n, NEW x \in S
        PROVE  x = Last(t) \/ <<x, Last(t)>> \in before
    <2>1. m = k /\ k # 0
      BY <1>2, <1>3, <1>4, <1>8
    <2>2. t # <<>>
      BY <1>4, <2>1
    <2>3. PICK i \in 1..k : list[i] = x
      BY <1>1 DEF list, k
    <2>4. Last(t) = list[k] /\ k \in 1..k
      BY <1>6, <2>1, <2>2
    <2>5. i = k \/ i < k
      BY <1>2, <2>3
    <2>6. QED BY <1>1, <2>3, <2>4, <2>5
  <1>9. Len(t) <= n /\ Len(t) <= k
    BY <1>4
  <1>10. t = <<>> <=> n = 0 \/ S = {}
    BY <1>2, <1>4, <1>5
  <1>11. TakenUpTo(t, S, before, n)
    BY <1>3, <1>6, <1>7, <1>8, <1>9, <1>10 DEF TakenUpTo, k
  <1>12. QED BY <1>11 DEF t, list

(* A cursor: ids and stamps it is past, and where its scan of the          *)
(* relations is.                                                           *)
Cursors ==
  [seen : [Kinds -> Nat], mark : [Kinds -> Nat \X Nat],
   generation : Maybe(Generations), scan : Maybe(Nat \X Nat \X Nat)]

(* The ids and stamps of a cursor.                                         *)
LEMMA CursorTypes ==
  ASSUME NEW c \in Cursors, NEW kind \in Kinds
  PROVE  /\ c.seen[kind] \in Nat
         /\ c.mark[kind] \in Nat \X Nat
         /\ c.mark[kind][1] \in Nat /\ c.mark[kind][2] \in Nat
  <1>1. c.seen \in [Kinds -> Nat] /\ c.mark \in [Kinds -> Nat \X Nat]
    BY DEF Cursors
  <1>2. c.mark[kind] \in Nat \X Nat
    BY <1>1
  <1>3. QED BY <1>1, <1>2

(* A store has one record of each id.                                      *)
LEMMA WiresTyped ==
  ASSUME NEW s \in Stores, NEW kind \in Kinds
  PROVE  /\ Wires(s, kind) \in SUBSET WireSet
         /\ \A w \in Wires(s, kind) :
              /\ w.kind = kind /\ w.id \in Ids(kind)
              /\ w.id \in Nat /\ w.id # 0 /\ w.record.at \in Nat
              /\ w \notin RelationWires
         /\ \A v, w \in Wires(s, kind) : v.id = w.id => v = w
  <1>1. CASE kind = "entity"
    <2>1. \A w \in Wires(s, kind) : w \in EntityWires /\ s.entities[w.id] = w.record
      BY <1>1, WiresOfStore
    <2>2. Wires(s, kind) \in SUBSET WireSet
      BY <2>1 DEF WireSet
    <2>3. \A w \in Wires(s, kind) :
              /\ w.kind = kind /\ w.id \in Ids(kind)
              /\ w.id \in Nat /\ w.id # 0 /\ w.record.at \in Nat
      BY <1>1, <2>1, WireTypes DEF Ids
    <2>4. \A v, w \in Wires(s, kind) : v.id = w.id => v = w
      BY <2>1, WireTypes
    <2>5. \A w \in Wires(s, kind) : w \notin RelationWires
      BY <2>1, WireTypes
    <2>6. QED BY <2>2, <2>3, <2>4, <2>5
  <1>2. CASE kind = "fact"
    <2>1. \A w \in Wires(s, kind) : w \in FactWires /\ s.facts[w.id] = w.record
      BY <1>2, WiresOfStore
    <2>2. Wires(s, kind) \in SUBSET WireSet
      BY <2>1 DEF WireSet
    <2>3. \A w \in Wires(s, kind) :
              /\ w.kind = kind /\ w.id \in Ids(kind)
              /\ w.id \in Nat /\ w.id # 0 /\ w.record.at \in Nat
      BY <1>2, <2>1, WireTypes DEF Ids
    <2>4. \A v, w \in Wires(s, kind) : v.id = w.id => v = w
      BY <2>1, WireTypes
    <2>5. \A w \in Wires(s, kind) : w \notin RelationWires
      BY <2>1, WireTypes
    <2>6. QED BY <2>2, <2>3, <2>4, <2>5
  <1>3. QED BY <1>1, <1>2 DEF Kinds

(* A store has no more records than ids.                                   *)
LEMMA WiresFinite ==
  ASSUME NEW s \in Stores, NEW kind \in Kinds
  PROVE  /\ IsFiniteSet(Wires(s, kind))
         /\ Cardinality(Wires(s, kind)) \in Nat
         /\ Cardinality(Wires(s, kind)) <= Cardinality(Ids(kind))
  <1> DEFINE W == Wires(s, kind)
             f == [w \in W |-> w.id]
  <1>1. IsFiniteSet(Ids(kind))
    BY IdsAssumption DEF Ids
  <1>2. \A w \in W : w.id \in Ids(kind)
    BY WiresTyped
  <1>3. \A v, w \in W : v.id = w.id => v = w
    BY WiresTyped
  <1> HIDE DEF W
  <1>4. f \in [W -> Ids(kind)]
    BY <1>2
  <1>5. \A v, w \in W : f[v] = f[w] => v = w
    BY <1>3
  <1> HIDE DEF f
  <1>6. f \in Injection(W, Ids(kind))
    BY <1>4, <1>5 DEF Injection, IsInjective
  <1>7. IsFiniteSet(W) /\ Cardinality(W) <= Cardinality(Ids(kind))
    BY <1>1, <1>6, FS_Injection
  <1>8. QED BY <1>7, FS_CardinalityType DEF W

(* The order of inserted records, by id.                                   *)
LEMMA IdsOrder ==
  ASSUME NEW W, \A w \in W : w.id \in Nat, \A v, w \in W : v.id = w.id => v = w
  PROVE  LET before == {p \in W \X W : p[1].id < p[2].id}
         IN  /\ TotalOn(W, before)
             /\ \A x, y \in W : <<x, y>> \in before <=> x.id < y.id
  <1> DEFINE before == {p \in W \X W : p[1].id < p[2].id}
  <1>1. \A x, y \in W : <<x, y>> \in before <=> x.id < y.id
    OBVIOUS
  <1> HIDE DEF before
  <1>2. \A x, y \in W : x # y => x.id < y.id \/ y.id < x.id
    OBVIOUS
  <1>3. \A x, y, z \in W : x.id < y.id /\ y.id < z.id => x.id < z.id
    OBVIOUS
  <1>4. \A x \in W : ~(x.id < x.id)
    OBVIOUS
  <1>5. TotalOn(W, before)
    BY <1>1, <1>2, <1>3, <1>4 DEF TotalOn
  <1>6. QED BY <1>1, <1>5 DEF before

(* The order of changed records, by stamp and then id.                     *)
LEMMA MarksOrder ==
  ASSUME NEW W, \A w \in W : w.id \in Nat /\ w.record.at \in Nat,
         \A v, w \in W : v.id = w.id => v = w
  PROVE  LET before == {p \in W \X W : After(Mark(p[2]), Mark(p[1]))}
         IN  /\ TotalOn(W, before)
             /\ \A x, y \in W : <<x, y>> \in before <=> After(Mark(y), Mark(x))
  <1> DEFINE before == {p \in W \X W : After(Mark(p[2]), Mark(p[1]))}
  <1>1. \A x, y \in W : <<x, y>> \in before <=> After(Mark(y), Mark(x))
    OBVIOUS
  <1> HIDE DEF before
  <1>2. \A x, y \in W : After(Mark(y), Mark(x)) <=>
          \/ y.record.at > x.record.at
          \/ y.record.at = x.record.at /\ y.id > x.id
    BY DEF After, Mark
  <1>3. \A x, y \in W : x # y => After(Mark(x), Mark(y)) \/ After(Mark(y), Mark(x))
    BY <1>2
  <1>4. \A x, y, z \in W : After(Mark(y), Mark(x)) /\ After(Mark(z), Mark(y))
                             => After(Mark(z), Mark(x))
    BY <1>2
  <1>5. \A x \in W : ~After(Mark(x), Mark(x))
    BY <1>2
  <1>6. TotalOn(W, before)
    BY <1>1, <1>3, <1>4, <1>5 DEF TotalOn
  <1>7. QED BY <1>1, <1>6 DEF before

(* The parts of a page, one after the other.                               *)
LEMMA JoinedLists ==
  ASSUME NEW S, NEW u \in Seq(S), NEW v \in Seq(S)
  PROVE  /\ u \o v \in Seq(S)
         /\ Len(u \o v) = Len(u) + Len(v)
         /\ \A x : x \in Range(u \o v) <=> x \in Range(u) \/ x \in Range(v)
         /\ u = <<>> /\ v = <<>> => u \o v = <<>>
  <1> DEFINE j == u \o v
             m == Len(u)
             n == Len(v)
  <1>1. /\ j \in Seq(S)
        /\ Len(j) = m + n
        /\ m \in Nat /\ n \in Nat
        /\ \A i \in 1..m : j[i] = u[i]
        /\ \A i \in 1..n : j[m + i] = v[i]
        /\ DOMAIN j = 1..(m + n)
        /\ DOMAIN u = 1..m /\ DOMAIN v = 1..n
    OBVIOUS
  <1>2. u = <<>> /\ v = <<>> => j = <<>>
    OBVIOUS
  <1> HIDE DEF j, m, n
  <1>3. ASSUME NEW x \in Range(j)
        PROVE  x \in Range(u) \/ x \in Range(v)
    <2>1. PICK i \in 1..(m + n) : x = j[i]
      BY <1>1 DEF Range
    <2>2. CASE i <= m
      <3>1. i \in 1..m
        BY <1>1, <2>2
      <3>2. QED BY <1>1, <2>1, <3>1 DEF Range
    <2>3. CASE ~(i <= m)
      <3>1. i - m \in 1..n /\ m + (i - m) = i
        BY <1>1, <2>3
      <3>2. j[i] = v[i - m]
        BY <1>1, <3>1
      <3>3. QED BY <1>1, <2>1, <3>1, <3>2 DEF Range
    <2>4. QED BY <2>2, <2>3
  <1>4. ASSUME NEW x \in Range(u) PROVE x \in Range(j)
    <2>1. PICK i \in 1..m : x = u[i]
      BY <1>1 DEF Range
    <2>2. i \in 1..(m + n) /\ j[i] = u[i]
      BY <1>1
    <2>3. QED BY <1>1, <2>1, <2>2 DEF Range
  <1>5. ASSUME NEW x \in Range(v) PROVE x \in Range(j)
    <2>1. PICK i \in 1..n : x = v[i]
      BY <1>1 DEF Range
    <2>2. m + i \in 1..(m + n) /\ j[m + i] = v[i]
      BY <1>1
    <2>3. QED BY <1>1, <2>1, <2>2 DEF Range
  <1>6. QED BY <1>1, <1>2, <1>3, <1>4, <1>5 DEF j, m, n

(* What a page sends: the records beyond the last id that it saw, and the  *)
(* older ones that changed after its mark.                                 *)
New(s, kind, c) == {w \in Wires(s, kind) : w.id > c.seen[kind]}

Changed(s, kind, c) ==
  {w \in Wires(s, kind) : w.id <= c.seen[kind] /\ After(Mark(w), c.mark[kind])}

(* The inserted records on a page: all of them up to the last.             *)
LEMMA NewTaken ==
  ASSUME NEW s \in Stores, NEW kind \in Kinds, NEW c \in Cursors, NEW limit \in Nat
  PROVE  LET t == Take(NewWires(s, kind, c), limit)
             W == New(s, kind, c)
         IN  /\ t \in Seq(W)
             /\ Len(t) <= limit /\ Len(t) <= Cardinality(W)
             /\ t = <<>> <=> limit = 0 \/ W = {}
             /\ t # <<>> => Last(t) \in W
             /\ \A x \in W : t # <<>> /\ x.id <= Last(t).id => x \in Range(t)
             /\ Cardinality(W) <= limit => \A x \in W : x.id <= Last(t).id
  <1> DEFINE W == New(s, kind, c)
             before == {p \in W \X W : p[1].id < p[2].id}
             t == Take(NewWires(s, kind, c), limit)
  <1>1. /\ W \in SUBSET Wires(s, kind)
        /\ \A w \in W : w.id \in Nat
        /\ \A v, w \in W : v.id = w.id => v = w
    BY WiresTyped DEF New
  <1>2. IsFiniteSet(W)
    BY <1>1, WiresFinite, FS_Subset
  <1>3. NewWires(s, kind, c) = Sorted(W, before)
    BY DEF NewWires, New
  <1> HIDE DEF W
  <1>4. /\ TotalOn(W, before)
        /\ \A x, y \in W : <<x, y>> \in before <=> x.id < y.id
    BY <1>1, IdsOrder
  <1> HIDE DEF before
  <1>5. /\ t \in Seq(W)
        /\ Len(t) <= limit /\ Len(t) <= Cardinality(W)
        /\ t = <<>> <=> limit = 0 \/ W = {}
        /\ t # <<>> => Last(t) \in W
        /\ \A x \in W : t # <<>> /\ (x = Last(t) \/ <<x, Last(t)>> \in before)
                          => x \in Range(t)
        /\ Cardinality(W) <= limit =>
             \A x \in W : x = Last(t) \/ <<x, Last(t)>> \in before
    <2>1. TakenUpTo(t, W, before, limit)
      BY <1>2, <1>3, <1>4, FirstOfSorted
    <2> HIDE DEF t
    <2>2. QED BY <2>1 DEF TakenUpTo
  <1> HIDE DEF t
  <1>6. ASSUME NEW x \in W, t # <<>>, x.id <= Last(t).id
        PROVE  x \in Range(t)
    <2>1. x = Last(t) \/ x.id < Last(t).id
      BY <1>1, <1>5, <1>6
    <2>2. QED BY <1>4, <1>5, <1>6, <2>1
  <1>7. ASSUME Cardinality(W) <= limit, NEW x \in W
        PROVE  x.id <= Last(t).id
    <2>1. t # <<>>
      <3>1. Cardinality(W) \in Nat /\ Cardinality(W) # 0
        BY <1>2, FS_CardinalityType, FS_EmptySet
      <3>2. QED BY <1>5, <1>7, <3>1
    <2>2. x = Last(t) \/ <<x, Last(t)>> \in before
      BY <1>5, <1>7
    <2>3. Last(t) \in W
      BY <1>5, <2>1
    <2>4. QED BY <1>1, <1>4, <2>2, <2>3
  <1>8. QED BY <1>5, <1>6, <1>7 DEF t, W

(* The changed records on a page: all of them up to the last.              *)
LEMMA ChangedTaken ==
  ASSUME NEW s \in Stores, NEW kind \in Kinds, NEW c \in Cursors, NEW limit \in Nat
  PROVE  LET t == Take(ChangedWires(s, kind, c), limit)
             W == Changed(s, kind, c)
         IN  /\ t \in Seq(W)
             /\ Len(t) <= limit /\ Len(t) <= Cardinality(W)
             /\ t = <<>> <=> limit = 0 \/ W = {}
             /\ t # <<>> => Last(t) \in W
             /\ \A x \in W : t # <<>> /\ ~After(Mark(x), Mark(Last(t))) => x \in Range(t)
             /\ Cardinality(W) <= limit => \A x \in W : ~After(Mark(x), Mark(Last(t)))
  <1> DEFINE W == Changed(s, kind, c)
             before == {p \in W \X W : After(Mark(p[2]), Mark(p[1]))}
             t == Take(ChangedWires(s, kind, c), limit)
  <1>1. /\ W \in SUBSET Wires(s, kind)
        /\ \A w \in W : w.id \in Nat /\ w.record.at \in Nat
        /\ \A v, w \in W : v.id = w.id => v = w
    BY WiresTyped DEF Changed
  <1>2. IsFiniteSet(W)
    BY <1>1, WiresFinite, FS_Subset
  <1>3. ChangedWires(s, kind, c) = Sorted(W, before)
    BY DEF ChangedWires, Changed
  <1> HIDE DEF W
  <1>4. /\ TotalOn(W, before)
        /\ \A x, y \in W : <<x, y>> \in before <=> After(Mark(y), Mark(x))
    BY <1>1, MarksOrder
  <1> HIDE DEF before
  <1>5. /\ t \in Seq(W)
        /\ Len(t) <= limit /\ Len(t) <= Cardinality(W)
        /\ t = <<>> <=> limit = 0 \/ W = {}
        /\ t # <<>> => Last(t) \in W
        /\ \A x \in W : t # <<>> /\ (x = Last(t) \/ <<x, Last(t)>> \in before)
                          => x \in Range(t)
        /\ Cardinality(W) <= limit =>
             \A x \in W : x = Last(t) \/ <<x, Last(t)>> \in before
    <2>1. TakenUpTo(t, W, before, limit)
      BY <1>2, <1>3, <1>4, FirstOfSorted
    <2> HIDE DEF t
    <2>2. QED BY <2>1 DEF TakenUpTo
  <1> HIDE DEF t
  <1>6. ASSUME NEW x \in W, t # <<>>, ~After(Mark(x), Mark(Last(t)))
        PROVE  x \in Range(t)
    <2>1. x = Last(t) \/ <<x, Last(t)>> \in before
      BY <1>4, <1>5, <1>6 DEF TotalOn
    <2>2. QED BY <1>5, <1>6, <2>1
  <1>7. ASSUME Cardinality(W) <= limit, NEW x \in W
        PROVE  ~After(Mark(x), Mark(Last(t)))
    <2>1. t # <<>>
      <3>1. Cardinality(W) \in Nat /\ Cardinality(W) # 0
        BY <1>2, FS_CardinalityType, FS_EmptySet
      <3>2. QED BY <1>5, <1>7, <3>1
    <2>2. x = Last(t) \/ <<x, Last(t)>> \in before
      BY <1>5, <1>7
    <2>3. Last(t) \in W
      BY <1>5, <2>1
    <2>4. QED BY <1>1, <1>4, <2>2, <2>3 DEF After, Mark
  <1>8. QED BY <1>5, <1>6, <1>7 DEF t, W

(* What a page of one kind sends, and what it moves its cursor over.       *)
LEMMA PageSends ==
  ASSUME NEW s \in Stores, NEW kind \in Kinds, NEW c \in Cursors, NEW limit \in Nat
  PROVE  LET p == Page(s, kind, c, limit)
             W == Wires(s, kind)
         IN  /\ p.records \in Seq(W)
             /\ Len(p.records) <= limit
             /\ Len(p.records) <= 2 * Cardinality(Ids(kind))
             /\ p.seen \in Nat /\ p.mark \in Nat \X Nat
             /\ \A w \in W : w.id <= p.seen /\ ~After(Mark(w), p.mark) =>
                  w \in Range(p.records) \/ Behind(w, c)
             /\ Cardinality(Ids(kind)) <= limit =>
                  \A w \in W : w.id <= p.seen
             /\ Cardinality(Ids(kind)) <= limit /\ (\A w \in W : w.id <= c.seen[kind]) =>
                  /\ p.seen = c.seen[kind]
                  /\ \A w \in W : ~After(Mark(w), p.mark)
             /\ (\A w \in W : Behind(w, c)) => p.records = <<>>
  <1> DEFINE p == Page(s, kind, c, limit)
             W == Wires(s, kind)
             N == New(s, kind, c)
             C == Changed(s, kind, c)
             new == Take(NewWires(s, kind, c), limit)
             both == Len(new) < limit /\ c.seen[kind] # 0
             changed == IF both THEN Take(ChangedWires(s, kind, c), limit - Len(new))
                        ELSE <<>>
  <1>1. /\ p.records = new \o changed
        /\ p.seen = IF new = <<>> THEN c.seen[kind] ELSE Last(new).id
        /\ p.mark = IF changed = <<>> THEN c.mark[kind] ELSE Mark(Last(changed))
    BY DEF Page
  <1>2. /\ c.seen[kind] \in Nat
        /\ c.mark[kind] \in Nat \X Nat
        /\ c.mark[kind][1] \in Nat /\ c.mark[kind][2] \in Nat
    BY CursorTypes
  <1>3. /\ \A w \in W : w.kind = kind /\ w.id \in Nat /\ w.id # 0 /\ w.record.at \in Nat
        /\ N = {w \in W : w.id > c.seen[kind]}
        /\ C = {w \in W : w.id <= c.seen[kind] /\ After(Mark(w), c.mark[kind])}
        /\ N \in SUBSET W /\ C \in SUBSET W
    BY WiresTyped DEF New, Changed
  <1>4. /\ Cardinality(N) \in Nat /\ Cardinality(N) <= Cardinality(Ids(kind))
        /\ Cardinality(C) \in Nat /\ Cardinality(C) <= Cardinality(Ids(kind))
        /\ Cardinality(Ids(kind)) \in Nat
    <2>1. /\ IsFiniteSet(W) /\ Cardinality(W) \in Nat
          /\ Cardinality(W) <= Cardinality(Ids(kind))
      BY WiresFinite
    <2>2. Cardinality(Ids(kind)) \in Nat
      BY IdsAssumption, FS_CardinalityType DEF Ids
    <2>3. IsFiniteSet(N) /\ Cardinality(N) <= Cardinality(W)
      BY <1>3, <2>1, FS_Subset
    <2>4. IsFiniteSet(C) /\ Cardinality(C) <= Cardinality(W)
      BY <1>3, <2>1, FS_Subset
    <2>5. Cardinality(N) \in Nat /\ Cardinality(C) \in Nat
      BY <2>3, <2>4, FS_CardinalityType
    <2>6. QED BY <2>1, <2>2, <2>3, <2>4, <2>5
  <1>5. /\ new \in Seq(N)
        /\ Len(new) <= limit /\ Len(new) <= Cardinality(N)
        /\ new = <<>> <=> limit = 0 \/ N = {}
        /\ new # <<>> => Last(new) \in N
        /\ \A x \in N : new # <<>> /\ x.id <= Last(new).id => x \in Range(new)
        /\ Cardinality(N) <= limit => \A x \in N : x.id <= Last(new).id
    BY NewTaken
  <1>6. ASSUME both
        PROVE  /\ changed \in Seq(C)
               /\ Len(changed) <= limit - Len(new) /\ Len(changed) <= Cardinality(C)
               /\ changed = <<>> <=> limit - Len(new) = 0 \/ C = {}
               /\ changed # <<>> => Last(changed) \in C
               /\ \A x \in C : changed # <<>> /\ ~After(Mark(x), Mark(Last(changed)))
                                 => x \in Range(changed)
               /\ Cardinality(C) <= limit - Len(new) =>
                    \A x \in C : ~After(Mark(x), Mark(Last(changed)))
    <2>1. limit - Len(new) \in Nat
      <3>1. Len(new) \in Nat
        BY <1>5
      <3>2. QED BY <1>5, <3>1
    <2> DEFINE left == limit - Len(new)
    <2>2. changed = Take(ChangedWires(s, kind, c), left)
      BY <1>6
    <2> HIDE DEF left, both, changed, new
    <2>3. /\ changed \in Seq(C)
          /\ Len(changed) <= left /\ Len(changed) <= Cardinality(C)
          /\ changed = <<>> <=> left = 0 \/ C = {}
          /\ changed # <<>> => Last(changed) \in C
          /\ \A x \in C : changed # <<>> /\ ~After(Mark(x), Mark(Last(changed)))
                            => x \in Range(changed)
          /\ Cardinality(C) <= left =>
               \A x \in C : ~After(Mark(x), Mark(Last(changed)))
      BY <2>1, <2>2, ChangedTaken DEF left
    <2>4. QED BY <2>3 DEF left
  <1>7. changed # <<>> => both
    OBVIOUS
  <1>8. ~both => changed = <<>>
    OBVIOUS
  <1>9. both <=> Len(new) < limit /\ c.seen[kind] # 0
    OBVIOUS
  <1> HIDE DEF p, W, N, C, new, changed, both
  <1>10. /\ new \in Seq(W) /\ changed \in Seq(W)
         /\ Len(new) \in Nat /\ Len(changed) \in Nat
    <2>1. new \in Seq(W)
      BY <1>3, <1>5
    <2>2. changed \in Seq(W)
      <3>1. CASE both
        BY <1>3, <1>6, <3>1
      <3>2. CASE ~both
        <4>1. changed = <<>>
          BY <1>8, <3>2
        <4>2. <<>> \in Seq(W)
          OBVIOUS
        <4>3. QED BY <4>1, <4>2
      <3>3. QED BY <3>1, <3>2
    <2>3. QED BY <2>1, <2>2
  <1>11. Len(changed) <= limit - Len(new) /\ Len(changed) <= Cardinality(C)
    <2>1. CASE both
      BY <1>6, <2>1
    <2>2. CASE ~both
      <3>1. Len(changed) = 0
        BY <1>8, <2>2
      <3>2. QED BY <1>4, <1>5, <1>10, <3>1
    <2>3. QED BY <2>1, <2>2
  <1>12. /\ p.records \in Seq(W)
         /\ Len(p.records) = Len(new) + Len(changed)
         /\ \A x : x \in Range(p.records) <=> x \in Range(new) \/ x \in Range(changed)
         /\ new = <<>> /\ changed = <<>> => p.records = <<>>
    BY <1>1, <1>10, JoinedLists
  <1>13. Len(p.records) <= limit
    BY <1>5, <1>10, <1>11, <1>12
  <1>14. Len(p.records) <= 2 * Cardinality(Ids(kind))
    BY <1>4, <1>5, <1>10, <1>11, <1>12
  <1>15. p.seen \in Nat
    BY <1>1, <1>2, <1>3, <1>5
  <1>16. p.mark \in Nat \X Nat
    <2>1. \A w \in W : Mark(w) \in Nat \X Nat
      BY <1>3 DEF Mark
    <2>2. CASE changed = <<>>
      BY <1>1, <1>2, <2>2
    <2>3. CASE changed # <<>>
      <3>1. Last(changed) \in W
        BY <1>3, <1>6, <1>7, <2>3
      <3>2. QED BY <1>1, <2>1, <2>3, <3>1
    <2>4. QED BY <2>2, <2>3
  <1>17. ASSUME NEW w \in W, w.id <= p.seen, ~After(Mark(w), p.mark)
         PROVE  w \in Range(p.records) \/ Behind(w, c)
    <2>1. CASE w.id > c.seen[kind]
      <3>1. w \in N
        BY <1>3, <2>1
      <3>2. new # <<>>
        BY <1>1, <1>2, <1>3, <1>17, <2>1
      <3>3. w.id <= Last(new).id
        BY <1>1, <1>17, <3>2
      <3>4. QED BY <1>5, <1>12, <3>1, <3>2, <3>3
    <2>2. CASE w.id <= c.seen[kind] /\ ~After(Mark(w), c.mark[kind])
      BY <1>3, <2>2 DEF Behind
    <2>3. CASE w.id <= c.seen[kind] /\ After(Mark(w), c.mark[kind])
      <3>1. w \in C
        BY <1>3, <2>3
      <3>2. changed # <<>>
        BY <1>1, <1>17, <2>3
      <3>3. ~After(Mark(w), Mark(Last(changed)))
        BY <1>1, <1>17, <3>2
      <3>4. w \in Range(changed)
        BY <1>6, <1>7, <3>1, <3>2, <3>3
      <3>5. QED BY <1>12, <3>4
    <2>4. QED BY <1>2, <1>3, <2>1, <2>2, <2>3
  <1>18. ASSUME Cardinality(Ids(kind)) <= limit, NEW w \in W
         PROVE  w.id <= p.seen
    <2>1. Cardinality(N) <= limit
      BY <1>4, <1>18
    <2>2. CASE w.id > c.seen[kind]
      <3>1. w \in N
        BY <1>3, <2>2
      <3>2. Cardinality(N) # 0
        <4>1. IsFiniteSet(N)
          BY <1>3, WiresFinite, FS_Subset DEF W
        <4>2. QED BY <3>1, <4>1, FS_EmptySet
      <3>3. new # <<>>
        BY <1>4, <1>5, <2>1, <3>1, <3>2
      <3>4. QED BY <1>1, <1>5, <2>1, <3>1, <3>3
    <2>3. CASE ~(w.id > c.seen[kind])
      <3>1. CASE new = <<>>
        BY <1>1, <1>2, <1>3, <2>3, <3>1
      <3>2. CASE new # <<>>
        <4>1. Last(new) \in N /\ Last(new).id > c.seen[kind] /\ Last(new).id \in Nat
          BY <1>3, <1>5, <3>2
        <4>2. QED BY <1>1, <1>2, <1>3, <2>3, <3>2, <4>1
      <3>3. QED BY <3>1, <3>2
    <2>4. QED BY <2>2, <2>3
  <1>19. ASSUME Cardinality(Ids(kind)) <= limit, \A w \in W : w.id <= c.seen[kind]
         PROVE  /\ p.seen = c.seen[kind]
                /\ \A w \in W : ~After(Mark(w), p.mark)
    <2>1. N = {}
      BY <1>2, <1>3, <1>19
    <2>2. new = <<>> /\ Len(new) = 0
      BY <1>5, <2>1
    <2>3. p.seen = c.seen[kind]
      BY <1>1, <2>2
    <2>4. ASSUME NEW w \in W
          PROVE  ~After(Mark(w), p.mark)
      <3>1. c.seen[kind] # 0
        BY <1>3, <1>19
      <3>2. limit # 0
        <4>1. w.id \in Ids(kind)
          BY WiresTyped DEF W
        <4>2. Cardinality(Ids(kind)) # 0
          <5>1. IsFiniteSet(Ids(kind))
            BY IdsAssumption DEF Ids
          <5>2. QED BY <4>1, <5>1, FS_EmptySet
        <4>3. QED BY <1>4, <1>19, <4>2
      <3>3. both
        BY <1>9, <2>2, <3>1, <3>2
      <3>4. Cardinality(C) <= limit - Len(new)
        BY <1>4, <1>19, <2>2
      <3>5. CASE changed = <<>>
        <4>1. C = {}
          BY <1>6, <2>2, <3>2, <3>3, <3>5
        <4>2. ~After(Mark(w), c.mark[kind])
          BY <1>3, <1>19, <4>1
        <4>3. QED BY <1>1, <3>5, <4>2
      <3>6. CASE changed # <<>>
        <4> DEFINE l == Last(changed)
        <4>1. l \in C /\ l \in W /\ After(Mark(l), c.mark[kind])
          BY <1>3, <1>6, <3>3, <3>6
        <4>2. p.mark = Mark(l)
          BY <1>1, <3>6
        <4>3. CASE w \in C
          BY <1>6, <3>3, <3>4, <4>2, <4>3
        <4>4. CASE w \notin C
          <5>1. ~After(Mark(w), c.mark[kind])
            BY <1>3, <1>19, <4>4
          <5> HIDE DEF l
          <5>2. QED BY <1>2, <1>3, <4>1, <4>2, <5>1 DEF After, Mark
        <4>5. QED BY <4>3, <4>4
      <3>7. QED BY <3>5, <3>6
    <2>5. QED BY <2>3, <2>4
  <1>20. ASSUME \A w \in W : Behind(w, c)
         PROVE  p.records = <<>>
    <2>1. \A w \in W : w.id <= c.seen[kind] /\ ~After(Mark(w), c.mark[kind])
      BY <1>3, <1>20 DEF Behind
    <2>2. N = {} /\ C = {}
      BY <1>2, <1>3, <2>1
    <2>3. new = <<>> /\ changed = <<>>
      BY <1>5, <1>6, <1>8, <2>2
    <2>4. QED BY <1>12, <2>3
  <1>21. QED
    BY <1>12, <1>13, <1>14, <1>15, <1>16, <1>17, <1>18, <1>19, <1>20 DEF p, W

(* What a relation has.                                                    *)
LEMMA RelationTypes ==
  \A r \in Relations : /\ r.from \in EntityIds /\ r.to \in EntityIds
                       /\ r.from \in Nat /\ r.to \in Nat /\ r.at \in Nat
                       /\ r = [from |-> r.from, to |-> r.to, at |-> r.at]
  <1>1. \A r \in Relations : r.from \in EntityIds /\ r.to \in EntityIds /\ r.at \in Nat
    BY DEF Relations
  <1>2. \A r \in Relations : r = [from |-> r.from, to |-> r.to, at |-> r.at]
    BY DEF Relations
  <1>3. \A e \in EntityIds : e \in Nat
    BY IdsAssumption
  <1>4. QED BY <1>1, <1>2, <1>3

(* With one relation between two entities, there are finitely many.        *)
LEMMA RelationsFinite ==
  ASSUME NEW s \in Stores, RelationsDistinct(s)
  PROVE  /\ IsFiniteSet(s.relations)
         /\ Cardinality(s.relations) \in Nat
         /\ Cardinality(s.relations) <= Cardinality(EntityIds) * Cardinality(EntityIds)
  <1> DEFINE R == s.relations
             E == EntityIds \X EntityIds
             f == [r \in R |-> <<r.from, r.to>>]
  <1>1. R \in SUBSET Relations
    BY StoreTypes
  <1>2. IsFiniteSet(E) /\ Cardinality(E) = Cardinality(EntityIds) * Cardinality(EntityIds)
    BY IdsAssumption, FS_Product
  <1>3. \A r \in R : <<r.from, r.to>> \in E
    BY <1>1, RelationTypes
  <1>4. \A q, r \in R : q.from = r.from /\ q.to = r.to => q = r
    BY DEF RelationsDistinct
  <1> HIDE DEF R, E
  <1>5. f \in [R -> E]
    BY <1>3
  <1>6. \A q, r \in R : f[q] = f[r] => q = r
    BY <1>4
  <1> HIDE DEF f
  <1>7. f \in Injection(R, E)
    BY <1>5, <1>6 DEF Injection, IsInjective
  <1>8. IsFiniteSet(R) /\ Cardinality(R) <= Cardinality(E)
    BY <1>2, <1>7, FS_Injection
  <1>9. QED BY <1>2, <1>8, FS_CardinalityType DEF R

(* The order of a relation scan is total, and its keys are triples.        *)
LEMMA ScanOrder ==
  ASSUME NEW R \in SUBSET Relations
  PROVE  LET before == {p \in R \X R : Before(ScanKey(p[1]), ScanKey(p[2]))}
         IN  /\ TotalOn(R, before)
             /\ \A x, y \in R : <<x, y>> \in before <=> Before(ScanKey(x), ScanKey(y))
             /\ \A x, y \in R : ~Before(ScanKey(y), ScanKey(x)) =>
                  x = y \/ <<x, y>> \in before
             /\ \A x \in R : ScanKey(x) \in Nat \X Nat \X Nat
  <1> DEFINE before == {p \in R \X R : Before(ScanKey(p[1]), ScanKey(p[2]))}
  <1>1. \A x, y \in R : <<x, y>> \in before <=> Before(ScanKey(x), ScanKey(y))
    OBVIOUS
  <1> HIDE DEF before
  <1>2. \A x \in R : x.at \in Nat /\ x.from \in Nat /\ x.to \in Nat
    BY RelationTypes
  <1>3. \A x, y \in R : x.at = y.at /\ x.from = y.from /\ x.to = y.to => x = y
    BY RelationTypes
  <1>4. \A x, y \in R : Before(ScanKey(x), ScanKey(y)) <=>
          \/ x.at < y.at
          \/ x.at = y.at /\ x.from < y.from
          \/ x.at = y.at /\ x.from = y.from /\ x.to < y.to
    BY DEF Before, ScanKey
  <1>5. \A x, y \in R : x # y => Before(ScanKey(x), ScanKey(y)) \/ Before(ScanKey(y), ScanKey(x))
    BY <1>2, <1>3, <1>4
  <1>6. \A x, y, z \in R : Before(ScanKey(x), ScanKey(y)) /\ Before(ScanKey(y), ScanKey(z))
                             => Before(ScanKey(x), ScanKey(z))
    BY <1>2, <1>4
  <1>7. \A x \in R : ~Before(ScanKey(x), ScanKey(x))
    BY <1>2, <1>4
  <1>8. TotalOn(R, before)
    BY <1>1, <1>5, <1>6, <1>7 DEF TotalOn
  <1>9. \A x, y \in R : ~Before(ScanKey(y), ScanKey(x)) => x = y \/ <<x, y>> \in before
    BY <1>1, <1>5
  <1>10. \A x \in R : ScanKey(x) \in Nat \X Nat \X Nat
    BY <1>2 DEF ScanKey
  <1>11. QED BY <1>1, <1>8, <1>9, <1>10 DEF before

(* The relations on a page: all of them up to the last, in scan order.     *)
LEMMA RelationsTaken ==
  ASSUME NEW R \in SUBSET Relations, IsFiniteSet(R), NEW limit \in Nat
  PROVE  LET pending == Scanned(R)
             t == Take(pending, limit)
         IN  /\ t \in Seq(R)
             /\ Len(t) <= limit
             /\ R = {} => t = <<>>
             /\ Cardinality(R) <= limit => t = pending
             /\ t = pending => \A x \in R : x \in Range(t)
             /\ t # pending /\ limit > 0 => t # <<>> /\ Last(t) \in R
             /\ \A x \in R : t # <<>> /\ ~Before(ScanKey(Last(t)), ScanKey(x)) => x \in Range(t)
  <1> DEFINE before == {p \in R \X R : Before(ScanKey(p[1]), ScanKey(p[2]))}
             pending == Scanned(R)
             t == Take(pending, limit)
             k == Cardinality(R)
  <1>1. pending = Sorted(R, before)
    BY DEF Scanned
  <1>2. /\ TotalOn(R, before)
        /\ \A x, y \in R : ~Before(ScanKey(y), ScanKey(x)) => x = y \/ <<x, y>> \in before
    BY ScanOrder
  <1> HIDE DEF before
  <1>3. /\ pending \in Seq(R)
        /\ Len(pending) = k
        /\ \A x \in R : \E i \in 1..k : pending[i] = x
    <2>1. /\ Sorted(R, before) \in Seq(R)
          /\ Len(Sorted(R, before)) = k
          /\ \A x \in R : \E i \in 1..k : Sorted(R, before)[i] = x
      BY <1>2, SortedLists
    <2> HIDE DEF pending, k
    <2>2. QED BY <1>1, <2>1
  <1>4. k \in Nat
    BY FS_CardinalityType
  <1>5. /\ t \in Seq(R)
        /\ Len(t) <= limit
        /\ t = <<>> <=> limit = 0 \/ R = {}
        /\ t # <<>> => Last(t) \in R
        /\ \A x \in R : t # <<>> /\ (x = Last(t) \/ <<x, Last(t)>> \in before)
                          => x \in Range(t)
    <2>1. TakenUpTo(t, R, before, limit)
      BY <1>1, <1>2, FirstOfSorted
    <2> HIDE DEF t
    <2>2. QED BY <2>1 DEF TakenUpTo
  <1>6. /\ Len(t) = IF limit < k THEN limit ELSE k
        /\ \A i \in 1..Len(t) : t[i] = pending[i]
    BY <1>3, TakeOf
  <1> HIDE DEF pending, t, k
  <1>7. ASSUME k <= limit PROVE t = pending
    <2>1. Len(t) = Len(pending)
      <3>1. ~(limit < k)
        BY <1>4, <1>7
      <3>2. Len(pending) = k
        BY <1>3
      <3>3. Len(t) = IF limit < k THEN limit ELSE k
        BY <1>6
      <3>4. QED BY <3>1, <3>2, <3>3
    <2>2. t \in Seq(R) /\ pending \in Seq(R)
      BY <1>3, <1>5
    <2>3. \A i \in 1..Len(t) : t[i] = pending[i]
      BY <1>6
    <2>4. QED BY <2>1, <2>2, <2>3
  <1>8. ASSUME t = pending, NEW x \in R PROVE x \in Range(t)
    <2>1. PICK i \in 1..k : pending[i] = x
      BY <1>3
    <2>2. DOMAIN pending = 1..k
      BY <1>3
    <2>3. QED BY <1>8, <2>1, <2>2 DEF Range
  <1>9. ASSUME t # pending, limit > 0 PROVE t # <<>> /\ Last(t) \in R
    <2>1. R # {}
      <3>1. SUFFICES ASSUME R = {} PROVE FALSE
        OBVIOUS
      <3>2. k = 0
        BY <3>1, FS_EmptySet DEF k
      <3>3. QED BY <1>7, <1>9, <3>2
    <2>2. QED BY <1>5, <1>9, <2>1
  <1>10. \A x \in R : t # <<>> /\ ~Before(ScanKey(Last(t)), ScanKey(x)) => x \in Range(t)
    BY <1>2, <1>5
  <1>11. R = {} => t = <<>>
    BY <1>5
  <1>12. QED BY <1>5, <1>7, <1>8, <1>9, <1>10, <1>11 DEF pending, t, k

(* The scan of a cursor that reached this relation, or has ended.          *)
ScannedPast(scan, r) == scan = Nil \/ ~Before(scan, ScanKey(r))

(* What a page of relations sends, and what its scan has passed: relations *)
(* that are on it, or that the same scan passed before.                    *)
LEMMA RelationPageSends ==
  ASSUME NEW s \in Stores, RelationsDistinct(s), NEW c \in Cursors, NEW limit \in Nat
  PROVE  LET p == RelationPage(s, c, limit)
             same == c.generation = Generation(s)
         IN  /\ p.records \in Seq(RelationWires)
             /\ \A w \in Range(p.records) : w.record \in s.relations
             /\ p.generation \in Maybe(Generations)
             /\ p.scan \in Maybe(Nat \X Nat \X Nat)
             /\ limit = 0 => p.generation = c.generation /\ p.scan = c.scan
             /\ limit > 0 => p.generation = Generation(s)
             /\ limit > 0 =>
                  \A r \in s.relations : ScannedPast(p.scan, r) =>
                    \/ \E w \in Range(p.records) : w.record = r
                    \/ same /\ ScannedPast(c.scan, r)
             /\ limit > 0 /\ Cardinality(s.relations) <= limit => p.scan = Nil
             /\ s.relations = {} \/ (same /\ c.scan = Nil) =>
                  /\ p.records = <<>>
                  /\ limit > 0 => p.scan = Nil
  <1> DEFINE p == RelationPage(s, c, limit)
             same == c.generation = Generation(s)
             R == IF ~same THEN s.relations
                  ELSE IF c.scan = Nil THEN {}
                  ELSE {r \in s.relations : Before(c.scan, ScanKey(r))}
             pending == Scanned(R)
             page == Take(pending, limit)
             wires == [i \in DOMAIN page |->
                         [kind |-> "relation", id |-> 0, record |-> page[i]]]
  <1>1. /\ p.records = wires
        /\ p.generation = IF limit > 0 THEN Generation(s) ELSE c.generation
        /\ p.scan = IF limit = 0 THEN c.scan
                    ELSE IF page = pending THEN Nil ELSE ScanKey(Last(page))
    BY DEF RelationPage, Pending
  <1>2. s.relations \in SUBSET Relations
    BY StoreTypes
  <1>3. IsFiniteSet(s.relations) /\ Cardinality(s.relations) \in Nat
    BY RelationsFinite
  <1>4. R \in SUBSET s.relations
    OBVIOUS
  <1>5. \A r \in s.relations : r \notin R => same /\ ScannedPast(c.scan, r)
    BY DEF ScannedPast
  <1>6. s.relations = {} \/ (same /\ c.scan = Nil) => R = {}
    OBVIOUS
  <1>7. c.generation \in Maybe(Generations) /\ c.scan \in Maybe(Nat \X Nat \X Nat)
    BY DEF Cursors
  <1>8. Generation(s) \in Generations
    BY <1>2 DEF Generation, Generations
  <1> HIDE DEF R, same
  <1>9. IsFiniteSet(R) /\ Cardinality(R) <= Cardinality(s.relations) /\ Cardinality(R) \in Nat
    BY <1>3, <1>4, FS_Subset, FS_CardinalityType
  <1>10. /\ page \in Seq(R)
         /\ Len(page) <= limit
         /\ R = {} => page = <<>>
         /\ Cardinality(R) <= limit => page = pending
         /\ page = pending => \A x \in R : x \in Range(page)
         /\ page # pending /\ limit > 0 => page # <<>> /\ Last(page) \in R
         /\ \A x \in R : page # <<>> /\ ~Before(ScanKey(Last(page)), ScanKey(x))
                           => x \in Range(page)
    <2>1. R \in SUBSET Relations
      BY <1>2, <1>4
    <2> HIDE DEF page, pending
    <2>2. QED BY <1>9, <2>1, RelationsTaken DEF page, pending
  <1> HIDE DEF page, pending
  <1>11. /\ Len(page) \in Nat
         /\ DOMAIN page = 1..Len(page)
         /\ \A i \in 1..Len(page) : page[i] \in R
    BY <1>10
  <1>12. /\ \A i \in 1..Len(page) :
              /\ wires[i] \in RelationWires
              /\ wires[i].record = page[i]
         /\ DOMAIN wires = 1..Len(page)
         /\ wires \in Seq(RelationWires)
    <2>1. \A r \in R : [kind |-> "relation", id |-> 0, record |-> r] \in RelationWires
      BY <1>2, <1>4 DEF RelationWires
    <2>2. \A i \in 1..Len(page) : /\ wires[i] \in RelationWires
                                  /\ wires[i].record = page[i]
      BY <1>11, <2>1
    <2>3. DOMAIN wires = 1..Len(page)
      BY <1>11
    <2>4. wires \in [1..Len(page) -> RelationWires]
      BY <1>11, <2>2
    <2>5. wires \in Seq(RelationWires)
      BY <1>11, <2>4
    <2>6. QED BY <2>2, <2>3, <2>5
  <1> HIDE DEF wires, p
  <1>13. \A w \in Range(wires) : w.record \in s.relations
    BY <1>4, <1>11, <1>12 DEF Range
  <1>14. \A r \in Range(page) : \E w \in Range(wires) : w.record = r
    BY <1>11, <1>12 DEF Range
  <1>15. p.scan \in Maybe(Nat \X Nat \X Nat)
    <2>1. CASE limit = 0 \/ page = pending
      BY <1>1, <1>7, <2>1 DEF Maybe
    <2>2. CASE limit # 0 /\ page # pending
      <3>1. limit > 0
        BY <2>2
      <3>2. Last(page) \in Relations
        BY <1>2, <1>4, <1>10, <2>2, <3>1
      <3>3. ScanKey(Last(page)) \in Nat \X Nat \X Nat
        BY <3>2, RelationTypes DEF ScanKey
      <3>4. QED BY <1>1, <2>2, <3>3 DEF Maybe
    <2>3. QED BY <2>1, <2>2
  <1>16. ASSUME limit > 0, NEW r \in s.relations, ScannedPast(p.scan, r)
         PROVE  \/ \E w \in Range(p.records) : w.record = r
                \/ same /\ ScannedPast(c.scan, r)
    <2>1. CASE r \notin R
      BY <1>5, <2>1
    <2>2. CASE r \in R
      <3>1. CASE page = pending
        BY <1>1, <1>10, <1>14, <2>2, <3>1
      <3>2. CASE page # pending
        <4>1. limit # 0
          BY <1>16
        <4>2. p.scan = ScanKey(Last(page)) /\ page # <<>> /\ Last(page) \in R
          BY <1>1, <1>10, <1>16, <3>2, <4>1
        <4>3. p.scan # Nil
          <5>1. Last(page) \in Relations
            BY <1>2, <1>4, <4>2
          <5>2. ScanKey(Last(page)) \in Nat \X Nat \X Nat
            BY <5>1, RelationTypes DEF ScanKey
          <5>3. QED BY <4>2, <5>2, NilIsNoScan
        <4>4. r \in Range(page)
          BY <1>10, <1>16, <2>2, <4>2, <4>3 DEF ScannedPast
        <4>5. QED BY <1>1, <1>14, <4>4
      <3>3. QED BY <3>1, <3>2
    <2>3. QED BY <2>1, <2>2
  <1>17. ASSUME limit > 0, Cardinality(s.relations) <= limit
         PROVE  p.scan = Nil
    <2>1. Cardinality(R) <= limit
      BY <1>3, <1>9, <1>17
    <2>2. page = pending
      BY <1>10, <2>1
    <2>3. QED BY <1>1, <1>17, <2>2
  <1>18. ASSUME s.relations = {} \/ (same /\ c.scan = Nil)
         PROVE  p.records = <<>> /\ (limit > 0 => p.scan = Nil)
    <2>1. R = {} /\ page = <<>>
      BY <1>6, <1>10, <1>18
    <2>2. page = pending
      BY <1>9, <1>10, <2>1, FS_EmptySet
    <2>3. Len(page) = 0
      BY <2>1
    <2>4. wires = <<>>
      BY <1>12, <2>3
    <2>5. QED BY <1>1, <2>2, <2>4
  <1>19. p.generation \in Maybe(Generations)
    BY <1>1, <1>7, <1>8 DEF Maybe
  <1>20. limit = 0 => p.generation = c.generation /\ p.scan = c.scan
    BY <1>1
  <1>21. QED
    BY <1>1, <1>12, <1>13, <1>15, <1>16, <1>17, <1>18, <1>19, <1>20 DEF p, same

(* The three parts of an export, and the cursor it returns.                *)
LEMMA ExportParts ==
  ASSUME NEW s \in Stores, RelationsDistinct(s), NEW c \in Cursors, NEW limit \in Nat
  PROVE  LET x == Export(s, c, limit)
             e == Page(s, "entity", c, limit)
             f == Page(s, "fact", c, limit - Len(e.records))
             left == limit - Len(e.records) - Len(f.records)
             r == RelationPage(s, c, left)
         IN  /\ limit - Len(e.records) \in Nat /\ left \in Nat
             /\ e.records \in Seq(Wires(s, "entity"))
             /\ f.records \in Seq(Wires(s, "fact"))
             /\ r.records \in Seq(RelationWires)
             /\ x.records = e.records \o f.records \o r.records
             /\ x.next \in Cursors
             /\ x.next.seen["entity"] = e.seen /\ x.next.mark["entity"] = e.mark
             /\ x.next.seen["fact"] = f.seen /\ x.next.mark["fact"] = f.mark
             /\ x.next.generation = r.generation
             /\ x.next.scan = r.scan
  <1> DEFINE x == Export(s, c, limit)
             e == Page(s, "entity", c, limit)
             more == limit - Len(e.records)
             f == Page(s, "fact", c, more)
             left == limit - Len(e.records) - Len(f.records)
             r == RelationPage(s, c, left)
             page == [kind \in Kinds |-> IF kind = "entity" THEN e ELSE f]
             next == [seen |-> [kind \in Kinds |-> page[kind].seen],
                      mark |-> [kind \in Kinds |-> page[kind].mark],
                      generation |-> r.generation,
                      scan |-> r.scan]
  <1>1. x = [records |-> e.records \o f.records \o r.records, next |-> next]
    BY DEF Export
  <1>2. "entity" \in Kinds /\ "fact" \in Kinds /\ \A k \in Kinds : k = "entity" \/ k = "fact"
    BY DEF Kinds
  <1>3. /\ e.records \in Seq(Wires(s, "entity")) /\ Len(e.records) <= limit
        /\ e.seen \in Nat /\ e.mark \in Nat \X Nat
    BY <1>2, PageSends
  <1>4. more \in Nat /\ Len(e.records) \in Nat
    <2>1. Len(e.records) \in Nat
      BY <1>3
    <2>2. QED BY <1>3, <2>1
  <1>5. /\ f.records \in Seq(Wires(s, "fact")) /\ Len(f.records) <= more
        /\ f.seen \in Nat /\ f.mark \in Nat \X Nat
    <2> HIDE DEF more
    <2>1. QED BY <1>2, <1>4, PageSends
  <1>6. left \in Nat
    <2> DEFINE sent == f.records
    <2>1. sent \in Seq(Wires(s, "fact")) /\ Len(sent) <= more
      BY <1>5
    <2>2. left = more - Len(sent)
      OBVIOUS
    <2> HIDE DEF left, more, sent
    <2>3. QED BY <1>4, <2>1, <2>2
  <1>7. /\ r.records \in Seq(RelationWires)
        /\ r.generation \in Maybe(Generations)
        /\ r.scan \in Maybe(Nat \X Nat \X Nat)
    <2> HIDE DEF left
    <2>1. QED BY <1>6, RelationPageSends
  <1> HIDE DEF e, f, r, left, more
  <1>8. /\ next.seen["entity"] = e.seen /\ next.mark["entity"] = e.mark
        /\ next.seen["fact"] = f.seen /\ next.mark["fact"] = f.mark
    BY <1>2
  <1>9. next \in Cursors
    <2>1. next.seen \in [Kinds -> Nat]
      BY <1>2, <1>3, <1>5
    <2>2. \A k \in Kinds : page[k].mark \in Nat \X Nat
      BY <1>2, <1>3, <1>5
    <2>3. next.mark \in [Kinds -> Nat \X Nat]
      BY <2>2
    <2>4. QED BY <1>7, <2>1, <2>3 DEF Cursors
  <1>10. x.next = next /\ x.records = e.records \o f.records \o r.records
    <2> HIDE DEF x, next
    <2>1. QED BY <1>1
  <1> HIDE DEF x
  <1>11. /\ x.next \in Cursors
         /\ x.next.seen["entity"] = e.seen /\ x.next.mark["entity"] = e.mark
         /\ x.next.seen["fact"] = f.seen /\ x.next.mark["fact"] = f.mark
         /\ x.next.generation = r.generation
         /\ x.next.scan = r.scan
    BY <1>8, <1>9, <1>10
  <1>12. QED
    BY <1>3, <1>4, <1>5, <1>6, <1>7, <1>10, <1>11 DEF x, e, f, r, left, more

(* A cursor that has scanned all relations of a store.                     *)
ScannedAll(s, c) ==
  s.relations = {} \/ (c.generation = Generation(s) /\ c.scan = Nil)

(* A cursor that leaves nothing to export.                                 *)
Drained(s, c) == (\A w \in AllWires(s) : Behind(w, c)) /\ ScannedAll(s, c)

(* sync_export: the records of a page are those of the store, what the     *)
(* next cursor is past is on it or the old cursor was past it, and a       *)
(* drained cursor is sent nothing.                                         *)
LEMMA ExportSends ==
  ASSUME NEW s \in Stores, RelationsDistinct(s), NEW c \in Cursors, NEW limit \in Nat
  PROVE  LET x == Export(s, c, limit)
         IN  /\ x.records \in Seq(WireSet)
             /\ x.next \in Cursors
             /\ \A w \in Range(x.records) :
                  \/ w \in AllWires(s)
                  \/ w \in RelationWires /\ w.record \in s.relations
             /\ DistinctRelations(Range(x.records))
             /\ \A w \in AllWires(s) : Behind(w, x.next) =>
                  w \in Range(x.records) \/ Behind(w, c)
             /\ \/ x.next.generation = c.generation /\ x.next.scan = c.scan
                \/ /\ x.next.generation = Generation(s)
                   /\ \A r \in s.relations : ScannedPast(x.next.scan, r) =>
                        \/ \E w \in Range(x.records) \cap RelationWires : w.record = r
                        \/ c.generation = Generation(s) /\ ScannedPast(c.scan, r)
             /\ (\A w \in Wires(s, "entity") : Behind(w, c)) /\ ScannedAll(s, c) =>
                  x.records \in Seq(FactWires)
             /\ Drained(s, c) => x.records = <<>>
  <1> DEFINE x == Export(s, c, limit)
             e == Page(s, "entity", c, limit)
             more == limit - Len(e.records)
             f == Page(s, "fact", c, more)
             left == limit - Len(e.records) - Len(f.records)
             r == RelationPage(s, c, left)
             same == c.generation = Generation(s)
  <1>1. /\ more \in Nat /\ left \in Nat
        /\ e.records \in Seq(Wires(s, "entity"))
        /\ f.records \in Seq(Wires(s, "fact"))
        /\ r.records \in Seq(RelationWires)
        /\ x.records = e.records \o f.records \o r.records
        /\ x.next \in Cursors
        /\ x.next.seen["entity"] = e.seen /\ x.next.mark["entity"] = e.mark
        /\ x.next.seen["fact"] = f.seen /\ x.next.mark["fact"] = f.mark
        /\ x.next.generation = r.generation
        /\ x.next.scan = r.scan
    BY ExportParts
  <1>2. /\ \A w \in Wires(s, "entity") : w.id <= e.seen /\ ~After(Mark(w), e.mark) =>
              w \in Range(e.records) \/ Behind(w, c)
        /\ (\A w \in Wires(s, "entity") : Behind(w, c)) => e.records = <<>>
    BY PageSends DEF Kinds
  <1>3. /\ \A w \in Wires(s, "fact") : w.id <= f.seen /\ ~After(Mark(w), f.mark) =>
              w \in Range(f.records) \/ Behind(w, c)
        /\ (\A w \in Wires(s, "fact") : Behind(w, c)) => f.records = <<>>
    <2> HIDE DEF more
    <2>1. QED BY <1>1, PageSends DEF Kinds
  <1>4. /\ \A w \in Range(r.records) : w.record \in s.relations
        /\ left = 0 => r.generation = c.generation /\ r.scan = c.scan
        /\ left > 0 => r.generation = Generation(s)
        /\ left > 0 =>
             \A q \in s.relations : ScannedPast(r.scan, q) =>
               \/ \E w \in Range(r.records) : w.record = q
               \/ same /\ ScannedPast(c.scan, q)
        /\ ScannedAll(s, c) => r.records = <<>>
    <2>1. left \in Nat
      BY <1>1
    <2> HIDE DEF left, same
    <2>2. QED BY <2>1, RelationPageSends DEF ScannedAll, same
  <1> HIDE DEF e, f, r, left, more, same
  <1>5. /\ Wires(s, "entity") \in SUBSET WireSet
        /\ Wires(s, "fact") \in SUBSET WireSet
        /\ Wires(s, "fact") \in SUBSET FactWires
        /\ RelationWires \in SUBSET WireSet
        /\ \A w \in Wires(s, "entity") : w.kind = "entity" /\ w \notin RelationWires
        /\ \A w \in Wires(s, "fact") : w.kind = "fact" /\ w \notin RelationWires
    <2>1. Wires(s, "fact") \in SUBSET FactWires
      BY WiresOfStore
    <2>2. QED BY <2>1, WiresTyped DEF WireSet, Kinds
  <1>6. /\ e.records \in Seq(WireSet) /\ f.records \in Seq(WireSet)
        /\ r.records \in Seq(WireSet)
        /\ Range(e.records) \in SUBSET Wires(s, "entity")
        /\ Range(f.records) \in SUBSET Wires(s, "fact")
        /\ Range(r.records) \in SUBSET RelationWires
    <2>1. e.records \in Seq(WireSet) /\ f.records \in Seq(WireSet) /\ r.records \in Seq(WireSet)
      BY <1>1, <1>5
    <2>2. QED BY <1>1, <2>1, RecordsOf
  <1>7. /\ x.records \in Seq(WireSet)
        /\ \A w : w \in Range(x.records) <=>
                    w \in Range(e.records) \/ w \in Range(f.records) \/ w \in Range(r.records)
    <2> DEFINE ef == e.records \o f.records
    <2>1. /\ ef \in Seq(WireSet)
          /\ \A w : w \in Range(ef) <=> w \in Range(e.records) \/ w \in Range(f.records)
      BY <1>6, JoinedLists
    <2>2. x.records = ef \o r.records
      BY <1>1
    <2> HIDE DEF ef, x
    <2>3. /\ ef \o r.records \in Seq(WireSet)
          /\ \A w : w \in Range(ef \o r.records) <=> w \in Range(ef) \/ w \in Range(r.records)
      BY <1>6, <2>1, JoinedLists
    <2>4. QED BY <2>1, <2>2, <2>3
  <1> HIDE DEF x
  <1>8. \A w \in Range(x.records) : \/ w \in AllWires(s)
                                    \/ w \in RelationWires /\ w.record \in s.relations
    BY <1>4, <1>6, <1>7 DEF AllWires
  <1>9. DistinctRelations(Range(x.records))
    <2>1. \A w \in Range(x.records) \cap RelationWires : w.record \in s.relations
      BY <1>4, <1>5, <1>6, <1>7
    <2>2. QED BY <2>1 DEF DistinctRelations, RelationsDistinct
  <1>10. ASSUME NEW w \in AllWires(s), Behind(w, x.next)
         PROVE  w \in Range(x.records) \/ Behind(w, c)
    <2>1. CASE w \in Wires(s, "entity")
      <3>1. w.id <= e.seen /\ ~After(Mark(w), e.mark)
        BY <1>1, <1>5, <1>10, <2>1 DEF Behind
      <3>2. QED BY <1>2, <1>7, <2>1, <3>1
    <2>2. CASE w \in Wires(s, "fact")
      <3>1. w.id <= f.seen /\ ~After(Mark(w), f.mark)
        BY <1>1, <1>5, <1>10, <2>2 DEF Behind
      <3>2. QED BY <1>3, <1>7, <2>2, <3>1
    <2>3. QED BY <2>1, <2>2 DEF AllWires
  <1>11. \/ x.next.generation = c.generation /\ x.next.scan = c.scan
         \/ /\ x.next.generation = Generation(s)
            /\ \A q \in s.relations : ScannedPast(x.next.scan, q) =>
                 \/ \E w \in Range(x.records) \cap RelationWires : w.record = q
                 \/ c.generation = Generation(s) /\ ScannedPast(c.scan, q)
    <2>1. CASE left = 0
      BY <1>1, <1>4, <2>1
    <2>2. CASE left > 0
      <3>1. \A q \in s.relations : ScannedPast(r.scan, q) =>
               \/ \E w \in Range(r.records) : w.record = q
               \/ same /\ ScannedPast(c.scan, q)
        BY <1>4, <2>2
      <3>2. \A w \in Range(r.records) : w \in Range(x.records) \cap RelationWires
        BY <1>6, <1>7
      <3>3. x.next.generation = Generation(s)
        BY <1>1, <1>4, <2>2
      <3>4. \A q \in s.relations : ScannedPast(x.next.scan, q) =>
                 \/ \E w \in Range(x.records) \cap RelationWires : w.record = q
                 \/ c.generation = Generation(s) /\ ScannedPast(c.scan, q)
        BY <1>1, <3>1, <3>2 DEF same
      <3>5. QED BY <3>3, <3>4
    <2>3. left \in Nat
      BY <1>1
    <2>4. QED BY <2>1, <2>2, <2>3
  <1>12. ASSUME \A w \in Wires(s, "entity") : Behind(w, c), ScannedAll(s, c)
         PROVE  x.records \in Seq(FactWires)
    <2>1. e.records = <<>> /\ r.records = <<>>
      BY <1>2, <1>4, <1>12
    <2>2. f.records \in Seq(FactWires)
      BY <1>1, <1>5
    <2>3. <<>> \in Seq(FactWires)
      OBVIOUS
    <2>4. <<>> \o f.records \in Seq(FactWires)
      BY <2>2, <2>3, JoinedLists
    <2>5. (<<>> \o f.records) \o <<>> \in Seq(FactWires)
      BY <2>3, <2>4, JoinedLists
    <2>6. x.records = (<<>> \o f.records) \o <<>>
      BY <1>1, <2>1
    <2>7. QED BY <2>5, <2>6
  <1>13. ASSUME Drained(s, c)
         PROVE  x.records = <<>>
    <2>1. e.records = <<>> /\ f.records = <<>> /\ r.records = <<>>
      BY <1>2, <1>3, <1>4, <1>13 DEF Drained, AllWires
    <2>2. x.records = <<>> \o <<>> \o <<>>
      BY <1>1, <2>1
    <2>3. QED BY <2>2
  <1>14. QED
    BY <1>1, <1>7, <1>8, <1>9, <1>10, <1>11, <1>12, <1>13 DEF x

(* An unlimited page has room for every record of the store, whatever the  *)
(* other kinds took of it.                                                 *)
LEMMA LimitIsEnough ==
  /\ Cardinality(EntityIds) \in Nat /\ Cardinality(FactIds) \in Nat
  /\ Unlimited \in Nat
  /\ Cardinality(EntityIds) <= Unlimited
  /\ \A m \in Nat : m <= 2 * Cardinality(EntityIds) =>
       Cardinality(FactIds) <= Unlimited - m
  /\ \A m, n \in Nat : m <= 2 * Cardinality(EntityIds) /\ n <= 2 * Cardinality(FactIds) =>
       Cardinality(EntityIds) * Cardinality(EntityIds) <= Unlimited - m - n
  <1> DEFINE e == Cardinality(EntityIds)
             f == Cardinality(FactIds)
             square == e * e
  <1>1. e \in Nat /\ f \in Nat
    BY IdsAssumption, FS_CardinalityType
  <1>2. square \in Nat
    <2> HIDE DEF e
    <2>1. QED BY <1>1
  <1>3. Unlimited = 2 * (e + f) + square
    BY DEF Unlimited
  <1> HIDE DEF e, f, square
  <1>4. Unlimited \in Nat /\ e <= Unlimited
    BY <1>1, <1>2, <1>3
  <1>5. \A m \in Nat : m <= 2 * e => f <= Unlimited - m
    BY <1>1, <1>2, <1>3
  <1>6. \A m, n \in Nat : m <= 2 * e /\ n <= 2 * f => square <= Unlimited - m - n
    BY <1>1, <1>2, <1>3
  <1>7. QED BY <1>1, <1>4, <1>5, <1>6 DEF e, f, square

(* The cursor of a client that has pulled nothing.                         *)
LEMMA StartCursorTyped == StartCursor \in Cursors
  <1>1. <<0, 0>> \in Nat \X Nat
    OBVIOUS
  <1>2. [kind \in Kinds |-> <<0, 0>>] \in [Kinds -> Nat \X Nat]
    BY <1>1
  <1>3. [kind \in Kinds |-> 0] \in [Kinds -> Nat]
    OBVIOUS
  <1>4. QED BY <1>2, <1>3 DEF StartCursor, Cursors, Maybe

(* One unlimited export reaches every id and every relation, and a second  *)
(* one every stamp.                                                        *)
LEMMA UnlimitedExport ==
  ASSUME NEW s \in Stores, RelationsDistinct(s), NEW c \in Cursors
  PROVE  LET next == Export(s, c, Unlimited).next
             Reached(d) == \A kind \in Kinds : \A w \in Wires(s, kind) : w.id <= d.seen[kind]
         IN  /\ next \in Cursors
             /\ Reached(next)
             /\ ScannedAll(s, next)
             /\ Reached(c) => \A w \in AllWires(s) : Behind(w, next)
  <1> DEFINE x == Export(s, c, Unlimited)
             e == Page(s, "entity", c, Unlimited)
             more == Unlimited - Len(e.records)
             f == Page(s, "fact", c, more)
             left == Unlimited - Len(e.records) - Len(f.records)
             r == RelationPage(s, c, left)
             next == x.next
             Reached(d) == \A kind \in Kinds : \A w \in Wires(s, kind) : w.id <= d.seen[kind]
  <1>1. Unlimited \in Nat
    BY LimitIsEnough
  <1>2. /\ more \in Nat /\ left \in Nat
        /\ e.records \in Seq(Wires(s, "entity"))
        /\ f.records \in Seq(Wires(s, "fact"))
        /\ next \in Cursors
        /\ next.seen["entity"] = e.seen /\ next.mark["entity"] = e.mark
        /\ next.seen["fact"] = f.seen /\ next.mark["fact"] = f.mark
        /\ next.generation = r.generation
        /\ next.scan = r.scan
    BY <1>1, ExportParts
  <1>3. "entity" \in Kinds /\ "fact" \in Kinds /\ (\A k \in Kinds : k = "entity" \/ k = "fact")
        /\ Ids("entity") = EntityIds /\ Ids("fact") = FactIds
    BY DEF Kinds, Ids
  <1>4. /\ Len(e.records) <= 2 * Cardinality(EntityIds)
        /\ Cardinality(EntityIds) <= Unlimited => \A w \in Wires(s, "entity") : w.id <= e.seen
        /\ /\ Cardinality(EntityIds) <= Unlimited
           /\ \A w \in Wires(s, "entity") : w.id <= c.seen["entity"]
           => \A w \in Wires(s, "entity") : ~After(Mark(w), e.mark)
    BY <1>1, <1>3, PageSends
  <1>5. /\ Len(f.records) <= 2 * Cardinality(FactIds)
        /\ Cardinality(FactIds) <= more => \A w \in Wires(s, "fact") : w.id <= f.seen
        /\ /\ Cardinality(FactIds) <= more
           /\ \A w \in Wires(s, "fact") : w.id <= c.seen["fact"]
           => \A w \in Wires(s, "fact") : ~After(Mark(w), f.mark)
    <2> HIDE DEF more
    <2>1. QED BY <1>2, <1>3, PageSends
  <1>6. Len(e.records) \in Nat /\ Len(f.records) \in Nat
    BY <1>2
  <1>7. /\ left = 0 => r.generation = c.generation /\ r.scan = c.scan
        /\ left > 0 => r.generation = Generation(s)
        /\ left > 0 /\ Cardinality(s.relations) <= left => r.scan = Nil
    <2>1. left \in Nat
      BY <1>2
    <2> HIDE DEF left
    <2>2. QED BY <2>1, RelationPageSends
  <1> HIDE DEF e, f, r, left, x
  <1>8. Cardinality(EntityIds) <= Unlimited
    BY LimitIsEnough
  <1>9. Cardinality(FactIds) <= more
    BY <1>4, <1>6, LimitIsEnough
  <1>10. Cardinality(EntityIds) * Cardinality(EntityIds) <= left
    BY <1>4, <1>5, <1>6, LimitIsEnough DEF left
  <1> HIDE DEF more
  <1>11. Reached(next)
    <2>1. \A w \in Wires(s, "entity") : w.id <= next.seen["entity"]
      BY <1>2, <1>4, <1>8
    <2>2. \A w \in Wires(s, "fact") : w.id <= next.seen["fact"]
      BY <1>2, <1>5, <1>9
    <2>3. QED BY <1>3, <2>1, <2>2
  <1>12. ScannedAll(s, next)
    <2>1. /\ IsFiniteSet(s.relations) /\ Cardinality(s.relations) \in Nat
          /\ Cardinality(s.relations) <= Cardinality(EntityIds) * Cardinality(EntityIds)
      BY RelationsFinite
    <2> DEFINE square == Cardinality(EntityIds) * Cardinality(EntityIds)
    <2>a. square \in Nat
      <3> DEFINE n == Cardinality(EntityIds)
      <3>1. n \in Nat
        BY LimitIsEnough
      <3> HIDE DEF n
      <3>2. n * n \in Nat
        BY <3>1
      <3>3. QED BY <3>2 DEF n
    <2>b. square <= left /\ Cardinality(s.relations) <= square
      BY <1>10, <2>1
    <2> HIDE DEF square
    <2>2. Cardinality(s.relations) <= left
      BY <1>2, <2>1, <2>a, <2>b
    <2>3. CASE left > 0
      BY <1>2, <1>7, <2>2, <2>3 DEF ScannedAll
    <2>4. CASE left = 0
      <3>1. Cardinality(s.relations) = 0
        BY <2>1, <2>2, <2>4
      <3>2. QED BY <2>1, <3>1, FS_EmptySet DEF ScannedAll
    <2>5. QED BY <1>2, <2>3, <2>4
  <1>13. ASSUME Reached(c), NEW w \in AllWires(s)
         PROVE  Behind(w, next)
    <2>1. CASE w \in Wires(s, "entity")
      <3>1. \A v \in Wires(s, "entity") : v.id <= c.seen["entity"]
        BY <1>3, <1>13
      <3>2. ~After(Mark(w), next.mark["entity"]) /\ w.id <= next.seen["entity"]
        BY <1>2, <1>4, <1>8, <2>1, <3>1
      <3>3. w.kind = "entity"
        BY <1>3, <2>1, WiresTyped
      <3>4. QED BY <3>2, <3>3 DEF Behind
    <2>2. CASE w \in Wires(s, "fact")
      <3>1. \A v \in Wires(s, "fact") : v.id <= c.seen["fact"]
        BY <1>3, <1>13
      <3>2. ~After(Mark(w), next.mark["fact"]) /\ w.id <= next.seen["fact"]
        BY <1>2, <1>5, <1>9, <2>2, <3>1
      <3>3. w.kind = "fact"
        BY <1>3, <2>2, WiresTyped
      <3>4. QED BY <3>2, <3>3 DEF Behind
    <2>3. QED BY <2>1, <2>2 DEF AllWires
  <1>14. QED BY <1>2, <1>11, <1>12, <1>13 DEF x

(* Two unlimited exports drain a store: the cursor of a fork and of a      *)
(* backup's manifest leaves nothing of it to send.                         *)
LEMMA DrainedCursorDrains ==
  ASSUME NEW s \in Stores, RelationsDistinct(s)
  PROVE  DrainedCursor(s) \in Cursors /\ Drained(s, DrainedCursor(s))
  <1> DEFINE one == Export(s, StartCursor, Unlimited).next
             two == Export(s, one, Unlimited).next
             Reached(d) == \A kind \in Kinds : \A w \in Wires(s, kind) : w.id <= d.seen[kind]
  <1>1. one \in Cursors /\ Reached(one)
    BY StartCursorTyped, UnlimitedExport
  <1>2. DrainedCursor(s) = two
    BY DEF DrainedCursor
  <1> HIDE DEF one
  <1>3. two \in Cursors /\ ScannedAll(s, two) /\ \A w \in AllWires(s) : Behind(w, two)
    BY <1>1, UnlimitedExport
  <1>4. QED BY <1>2, <1>3 DEF Drained

-----------------------------------------------------------------------------
(* The writes of one store.                                                *)

(* What a transaction that writes one fact keeps, given what it leaves of  *)
(* the entity index.                                                       *)
WithFact(s, f, r, linked) ==
  [s EXCEPT !.facts = [s.facts EXCEPT ![f] = r], !.linked = linked]

(* A fact whose content is free is in its table once.                      *)
LEMMA FactWritten ==
  ASSUME NEW s \in Stores, NEW f \in FactIds, NEW r \in FactRecords, NEW linked,
         linked \in SUBSET (EntityIds \X FactIds), ContentFree(s, f, r.content),
         NEW new, new = WithFact(s, f, r, linked)
  PROVE  /\ new \in Stores
         /\ new.entities = s.entities
         /\ new.names = s.names
         /\ new.facts = [s.facts EXCEPT ![f] = r]
         /\ new.linked = linked
         /\ new.relations = s.relations
         /\ Facts(new) = Facts(s) \cup {f}
         /\ NamesAgree(s) => NamesAgree(new)
         /\ ContentsDistinct(s) => ContentsDistinct(new)
         /\ \A g \in FactIds : g # f => new.facts[g] = s.facts[g]
  <1>3. [s.facts EXCEPT ![f] = r] \in [FactIds -> Maybe(FactRecords)]
    BY StoreTypes DEF Maybe
  <1>4. /\ new \in Stores
        /\ new.entities = s.entities
        /\ new.names = s.names
        /\ new.facts = [s.facts EXCEPT ![f] = r]
        /\ new.linked = linked
        /\ new.relations = s.relations
    BY <1>3, StoreTypes DEF Stores, WithFact
  <1>5. NamesAgree(s) => NamesAgree(new)
    BY <1>4 DEF NamesAgree, Entities
  <1>6. /\ f \in Facts(new) /\ new.facts[f] = r
        /\ \A g \in FactIds : g # f => /\ new.facts[g] = s.facts[g]
                                       /\ g \in Facts(new) <=> g \in Facts(s)
    BY <1>4, StoreTypes, NilIsNoRecord DEF Facts
  <1>7. ASSUME ContentsDistinct(s)
        PROVE  ContentsDistinct(new)
    <2>1. \A g \in Facts(s) : g # f => s.facts[g].content # r.content
      BY DEF ContentFree, Holding
    <2>2. \A g \in Facts(new) : g \in FactIds
      BY DEF Facts
    <2>3. QED BY <1>6, <1>7, <2>1, <2>2 DEF ContentsDistinct
  <1>8. Facts(new) = Facts(s) \cup {f}
    <2>1. Facts(new) \in SUBSET FactIds /\ Facts(s) \in SUBSET FactIds
      BY DEF Facts
    <2>2. QED BY <1>6, <2>1
  <1>9. QED BY <1>4, <1>5, <1>6, <1>7, <1>8

(* fact_add of a new content.                                              *)
LEMMA InsertFactAgrees ==
  ASSUME NEW s \in Stores, NEW f \in FactIds, f \notin Facts(s), NEW r \in FactRecords,
         Holding(s, r.content) = {}
  PROVE  LET new == InsertFact(s, f, r)
         IN  /\ new \in Stores
             /\ new.entities = s.entities
             /\ new.relations = s.relations
             /\ Facts(new) = Facts(s) \cup {f}
             /\ NamesAgree(s) => NamesAgree(new)
             /\ ContentsDistinct(s) => ContentsDistinct(new)
             /\ \A deleted : LinksAgree(s, deleted) => LinksAgree(new, deleted)
  <1> DEFINE new == InsertFact(s, f, r)
             linked == s.linked \cup Links(f, r.links)
  <1>1. new = WithFact(s, f, r, linked)
    BY DEF InsertFact, WithFact
  <1>2. linked \in SUBSET (EntityIds \X FactIds)
    BY StoreTypes DEF Links, FactRecords
  <1>3. \A g \in FactIds, e \in EntityIds :
          <<e, g>> \in linked <=> <<e, g>> \in s.linked \/ (g = f /\ e \in r.links)
    BY DEF Links
  <1>4. ContentFree(s, f, r.content)
    BY DEF ContentFree
  <1> HIDE DEF linked, new
  <1>5. /\ new \in Stores
        /\ new.entities = s.entities
        /\ new.facts = [s.facts EXCEPT ![f] = r]
        /\ new.linked = linked
        /\ new.relations = s.relations
        /\ Facts(new) = Facts(s) \cup {f}
        /\ NamesAgree(s) => NamesAgree(new)
        /\ ContentsDistinct(s) => ContentsDistinct(new)
        /\ \A g \in FactIds : g # f => new.facts[g] = s.facts[g]
    BY <1>1, <1>2, <1>4, FactWritten
  <1>6. new.facts[f] = r
    BY <1>5, StoreTypes
  <1>7. ASSUME NEW deleted, LinksAgree(s, deleted)
        PROVE  LinksAgree(new, deleted)
    <2>1. ASSUME NEW g \in FactIds, NEW e \in EntityIds
          PROVE  /\ <<e, g>> \in new.linked => g \in Facts(new) /\ e \in new.facts[g].links
                 /\ g \in Facts(new) /\ e \in new.facts[g].links \ deleted
                      => <<e, g>> \in new.linked
      <3>1. CASE g = f
        <4>1. <<e, g>> \notin s.linked
          BY <1>7, <3>1 DEF LinksAgree
        <4>2. QED BY <1>3, <1>5, <1>6, <3>1, <4>1
      <3>2. CASE g # f
        BY <1>3, <1>5, <1>7, <3>2 DEF LinksAgree
      <3>3. QED BY <3>1, <3>2
    <2>2. QED BY <2>1 DEF LinksAgree
  <1>8. QED BY <1>5, <1>7 DEF new

(* fact_add of a known content: the fact gains entities.                   *)
LEMMA MergedFactAgrees ==
  ASSUME NEW s \in Stores, ContentsDistinct(s), NEW f \in Facts(s),
         NEW links \in SUBSET EntityIds
  PROVE  LET new == MergedFact(s, f, links)
         IN  /\ new \in Stores
             /\ new.entities = s.entities
             /\ new.relations = s.relations
             /\ Facts(new) = Facts(s)
             /\ NamesAgree(s) => NamesAgree(new)
             /\ ContentsDistinct(new)
             /\ \A deleted : LinksAgree(s, deleted) => LinksAgree(new, deleted)
  <1> DEFINE new == MergedFact(s, f, links)
             r == [s.facts[f] EXCEPT !.links = s.facts[f].links \cup links]
             linked == s.linked \cup Links(f, links)
  <1>1. f \in FactIds /\ s.facts[f] \in FactRecords /\ s.facts \in [FactIds -> Maybe(FactRecords)]
    BY StoreTypes
  <1>2. /\ r \in FactRecords /\ r.links = s.facts[f].links \cup links
        /\ r.content = s.facts[f].content
    BY <1>1 DEF FactRecords
  <1>3. new = WithFact(s, f, r, linked)
    <2>1. new = [s EXCEPT !.facts = [s.facts EXCEPT ![f] =
                   [s.facts[f] EXCEPT !.links = s.facts[f].links \cup links]], !.linked = linked]
      BY DEF MergedFact
    <2>2. QED BY <2>1 DEF WithFact
  <1>4. linked \in SUBSET (EntityIds \X FactIds)
    BY <1>1, StoreTypes DEF Links
  <1>5. \A g \in FactIds, e \in EntityIds :
          <<e, g>> \in linked <=> <<e, g>> \in s.linked \/ (g = f /\ e \in links)
    BY DEF Links
  <1>6. ContentFree(s, f, r.content)
    BY <1>2 DEF ContentFree, Holding, ContentsDistinct
  <1> HIDE DEF linked, new, r
  <1>7. /\ new \in Stores
        /\ new.entities = s.entities
        /\ new.facts = [s.facts EXCEPT ![f] = r]
        /\ new.linked = linked
        /\ new.relations = s.relations
        /\ Facts(new) = Facts(s) \cup {f}
        /\ NamesAgree(s) => NamesAgree(new)
        /\ ContentsDistinct(s) => ContentsDistinct(new)
        /\ \A g \in FactIds : g # f => new.facts[g] = s.facts[g]
    BY <1>1, <1>2, <1>3, <1>4, <1>6, FactWritten
  <1>8. new.facts[f] = r
    BY <1>1, <1>7
  <1>9. ASSUME NEW deleted, LinksAgree(s, deleted)
        PROVE  LinksAgree(new, deleted)
    <2>1. ASSUME NEW g \in FactIds, NEW e \in EntityIds
          PROVE  /\ <<e, g>> \in new.linked => g \in Facts(new) /\ e \in new.facts[g].links
                 /\ g \in Facts(new) /\ e \in new.facts[g].links \ deleted
                      => <<e, g>> \in new.linked
      <3>1. CASE g = f
        BY <1>2, <1>5, <1>7, <1>8, <1>9, <3>1 DEF LinksAgree
      <3>2. CASE g # f
        BY <1>5, <1>7, <1>9, <3>2 DEF LinksAgree
      <3>3. QED BY <3>1, <3>2
    <2>2. QED BY <2>1 DEF LinksAgree
  <1>10. QED BY <1>7, <1>9 DEF new

(* fact_update, fact_supersede and fact_feedback: the entities of the fact *)
(* stay.                                                                   *)
LEMMA UpdateFactAgrees ==
  ASSUME NEW s \in Stores, NEW f \in Facts(s), NEW r \in FactRecords,
         r.links = s.facts[f].links, ContentFree(s, f, r.content)
  PROVE  LET new == UpdateFact(s, f, r)
         IN  /\ new \in Stores
             /\ new.entities = s.entities
             /\ new.relations = s.relations
             /\ Facts(new) = Facts(s)
             /\ NamesAgree(s) => NamesAgree(new)
             /\ ContentsDistinct(s) => ContentsDistinct(new)
             /\ \A deleted : LinksAgree(s, deleted) => LinksAgree(new, deleted)
  <1> DEFINE new == UpdateFact(s, f, r)
  <1>1. f \in FactIds /\ s.facts[f] \in FactRecords /\ s.facts \in [FactIds -> Maybe(FactRecords)]
        /\ s.linked \in SUBSET (EntityIds \X FactIds)
    BY StoreTypes
  <1>3. new = WithFact(s, f, r, s.linked)
    BY DEF UpdateFact, Stores, WithFact
  <1> HIDE DEF new
  <1>7. /\ new \in Stores
        /\ new.entities = s.entities
        /\ new.facts = [s.facts EXCEPT ![f] = r]
        /\ new.linked = s.linked
        /\ new.relations = s.relations
        /\ Facts(new) = Facts(s) \cup {f}
        /\ NamesAgree(s) => NamesAgree(new)
        /\ ContentsDistinct(s) => ContentsDistinct(new)
        /\ \A g \in FactIds : g # f => new.facts[g] = s.facts[g]
    BY <1>1, <1>3, FactWritten
  <1>8. new.facts[f] = r
    BY <1>1, <1>7
  <1>9. ASSUME NEW deleted, LinksAgree(s, deleted)
        PROVE  LinksAgree(new, deleted)
    <2>1. ASSUME NEW g \in FactIds, NEW e \in EntityIds
          PROVE  /\ <<e, g>> \in new.linked => g \in Facts(new) /\ e \in new.facts[g].links
                 /\ g \in Facts(new) /\ e \in new.facts[g].links \ deleted
                      => <<e, g>> \in new.linked
      <3>1. CASE g = f
        BY <1>7, <1>8, <1>9, <3>1 DEF LinksAgree
      <3>2. CASE g # f
        BY <1>7, <1>9, <3>2 DEF LinksAgree
      <3>3. QED BY <3>1, <3>2
    <2>2. QED BY <2>1 DEF LinksAgree
  <1>10. QED BY <1>7, <1>9 DEF new

(* fact_delete.                                                            *)
LEMMA WithoutFactAgrees ==
  ASSUME NEW s \in Stores, NEW f \in FactIds
  PROVE  LET new == WithoutFact(s, f)
         IN  /\ new \in Stores
             /\ new.entities = s.entities
             /\ new.relations = s.relations
             /\ Facts(new) = Facts(s) \ {f}
             /\ NamesAgree(s) => NamesAgree(new)
             /\ ContentsDistinct(s) => ContentsDistinct(new)
             /\ \A deleted : LinksAgree(s, deleted) => LinksAgree(new, deleted)
  <1> DEFINE new == WithoutFact(s, f)
             linked == {l \in s.linked : l[2] # f}
             facts == [s.facts EXCEPT ![f] = Nil]
  <1>1. new = [s EXCEPT !.facts = facts, !.linked = linked]
    BY DEF WithoutFact
  <1>2. linked \in SUBSET (EntityIds \X FactIds)
    BY StoreTypes
  <1>3. facts \in [FactIds -> Maybe(FactRecords)]
    BY StoreTypes DEF Maybe
  <1>4. \A g \in FactIds, e \in EntityIds : <<e, g>> \in linked <=> <<e, g>> \in s.linked /\ g # f
    OBVIOUS
  <1>5. \A g \in FactIds : facts[g] = IF g = f THEN Nil ELSE s.facts[g]
    BY StoreTypes
  <1> HIDE DEF linked, facts
  <1>6. /\ new \in Stores
        /\ new.entities = s.entities
        /\ new.names = s.names
        /\ new.facts = facts
        /\ new.linked = linked
        /\ new.relations = s.relations
    BY <1>1, <1>2, <1>3, StoreTypes DEF Stores
  <1> HIDE DEF new
  <1>7. NamesAgree(s) => NamesAgree(new)
    BY <1>6 DEF NamesAgree, Entities
  <1>8. /\ Facts(new) = Facts(s) \ {f}
        /\ \A g \in Facts(new) : g \in FactIds /\ g # f /\ new.facts[g] = s.facts[g]
    BY <1>5, <1>6 DEF Facts
  <1>9. ContentsDistinct(s) => ContentsDistinct(new)
    BY <1>8 DEF ContentsDistinct
  <1>10. ASSUME NEW deleted, LinksAgree(s, deleted)
         PROVE  LinksAgree(new, deleted)
    BY <1>4, <1>6, <1>8, <1>10 DEF LinksAgree
  <1>11. QED BY <1>6, <1>7, <1>8, <1>9, <1>10 DEF new

(* entity_delete: the index loses its rows, the facts keep the id.         *)
LEMMA WithoutEntityAgrees ==
  ASSUME NEW s \in Stores, NEW e \in EntityIds
  PROVE  LET new == WithoutEntity(s, e)
         IN  /\ new \in Stores
             /\ new.entities = [s.entities EXCEPT ![e] = Nil]
             /\ Entities(new) = Entities(s) \ {e}
             /\ new.relations \in SUBSET s.relations
             /\ Facts(new) = Facts(s)
             /\ NamesAgree(s) => NamesAgree(new)
             /\ ContentsDistinct(s) => ContentsDistinct(new)
             /\ \A deleted : LinksAgree(s, deleted) => LinksAgree(new, deleted \cup {e})
  <1> DEFINE new == WithoutEntity(s, e)
             linked == {l \in s.linked : l[1] # e}
             entities == [s.entities EXCEPT ![e] = Nil]
             names == [n \in Names |-> IF s.names[n] = e THEN Nil ELSE s.names[n]]
             relations == {r \in s.relations : e \notin {r.from, r.to}}
  <1>1. new = [s EXCEPT !.entities = entities, !.names = names,
                        !.linked = linked, !.relations = relations]
    BY DEF WithoutEntity
  <1>2. linked \in SUBSET (EntityIds \X FactIds)
    BY StoreTypes
  <1>3. entities \in [EntityIds -> Maybe(EntityRecords)]
    BY StoreTypes DEF Maybe
  <1>4. names \in [Names -> Maybe(EntityIds)]
    BY StoreTypes DEF Maybe
  <1>5. relations \in SUBSET Relations /\ relations \in SUBSET s.relations
    BY StoreTypes
  <1>6. \A g \in FactIds, d \in EntityIds : <<d, g>> \in linked <=> <<d, g>> \in s.linked /\ d # e
    OBVIOUS
  <1>7. \A d \in EntityIds : entities[d] = IF d = e THEN Nil ELSE s.entities[d]
    BY StoreTypes
  <1>8. \A n \in Names : names[n] = IF s.names[n] = e THEN Nil ELSE s.names[n]
    OBVIOUS
  <1> HIDE DEF linked, entities, names, relations
  <1>9. /\ new \in Stores
        /\ new.entities = entities
        /\ new.names = names
        /\ new.facts = s.facts
        /\ new.linked = linked
        /\ new.relations = relations
    BY <1>1, <1>2, <1>3, <1>4, <1>5, StoreTypes DEF Stores
  <1> HIDE DEF new
  <1>10. Entities(new) = Entities(s) \ {e}
    BY <1>7, <1>9 DEF Entities
  <1>11. ASSUME NamesAgree(s) PROVE NamesAgree(new)
    <2>1. ASSUME NEW n \in Names, NEW d \in EntityIds
          PROVE  new.names[n] = d <=> d \in Entities(new) /\ n \in NamesOf(new.entities[d])
      <3>1. s.names[n] = d <=> d \in Entities(s) /\ n \in NamesOf(s.entities[d])
        BY <1>11 DEF NamesAgree
      <3>2. CASE d = e
        <4>1. d \notin Entities(new)
          BY <1>10, <3>2
        <4>2. new.names[n] # d
          BY <1>8, <1>9, <3>2, NilIsNoRecord
        <4>3. QED BY <4>1, <4>2
      <3>3. CASE d # e
        <4>1. new.names[n] = d <=> s.names[n] = d
          BY <1>8, <1>9, <3>3, NilIsNoRecord
        <4>2. new.entities[d] = s.entities[d]
          BY <1>7, <1>9, <3>3
        <4>3. QED BY <1>10, <3>1, <3>3, <4>1, <4>2
      <3>4. QED BY <3>2, <3>3
    <2>2. QED BY <2>1 DEF NamesAgree
  <1>12. ContentsDistinct(s) => ContentsDistinct(new)
    BY <1>9 DEF ContentsDistinct, Facts
  <1>13. ASSUME NEW deleted, LinksAgree(s, deleted)
         PROVE  LinksAgree(new, deleted \cup {e})
    <2>1. Facts(new) = Facts(s)
      BY <1>9 DEF Facts
    <2>2. QED BY <1>6, <1>9, <1>13, <2>1 DEF LinksAgree
  <1>14. Facts(new) = Facts(s)
    BY <1>9 DEF Facts
  <1>15. QED BY <1>5, <1>9, <1>10, <1>11, <1>12, <1>13, <1>14 DEF new, entities

(* A record with another stamp.                                            *)
LEMMA RestampedTypes ==
  ASSUME NEW t \in Nat
  PROVE  /\ \A r \in EntityRecords : /\ [r EXCEPT !.at = t] \in EntityRecords
                                     /\ [r EXCEPT !.at = t].at = t
                                     /\ NamesOf([r EXCEPT !.at = t]) = NamesOf(r)
         /\ \A r \in FactRecords : /\ [r EXCEPT !.at = t] \in FactRecords
                                   /\ [r EXCEPT !.at = t].at = t
                                   /\ [r EXCEPT !.at = t].content = r.content
                                   /\ [r EXCEPT !.at = t].links = r.links
  BY DEF EntityRecords, FactRecords, NamesOf

(* A store that loses relations.                                           *)
LEMMA FewerRelationsAgree ==
  ASSUME NEW s \in Stores, NEW relations \in SUBSET s.relations
  PROVE  LET new == [s EXCEPT !.relations = relations]
         IN  /\ new \in Stores
             /\ new.entities = s.entities
             /\ new.facts = s.facts
             /\ new.relations = relations
             /\ NamesAgree(s) => NamesAgree(new)
             /\ ContentsDistinct(s) => ContentsDistinct(new)
             /\ \A deleted : LinksAgree(s, deleted) => LinksAgree(new, deleted)
  <1> DEFINE new == [s EXCEPT !.relations = relations]
  <1>1. relations \in SUBSET Relations
    BY StoreTypes
  <1>2. /\ new \in Stores
        /\ new.entities = s.entities
        /\ new.names = s.names
        /\ new.facts = s.facts
        /\ new.linked = s.linked
        /\ new.relations = relations
    BY <1>1, StoreTypes DEF Stores
  <1> HIDE DEF new
  <1>3. NamesAgree(s) => NamesAgree(new)
    BY <1>2 DEF NamesAgree, Entities
  <1>4. ContentsDistinct(s) => ContentsDistinct(new)
    BY <1>2 DEF ContentsDistinct, Facts
  <1>5. \A deleted : LinksAgree(s, deleted) => LinksAgree(new, deleted)
    BY <1>2 DEF LinksAgree, Facts
  <1>6. QED BY <1>2, <1>3, <1>4, <1>5 DEF new

-----------------------------------------------------------------------------
(* The inductive invariant, and what every write has in common.            *)

(* What entity_add, a pull, a branch and a merge hold.                     *)
Waitings == [id : EntityIds, record : EntityRecords]

Listings == [EntityIds -> Maybe(EntityRecords)]

Pulls ==
  [records : Seq(WireSet), next : Cursors, applied : BOOLEAN,
   taken : SUBSET WireSet]

Agents == [store : Stores, since : Cursors]

Merges ==
  [listed : Maybe(Listings), before : Maybe(SUBSET (EntityWires \cup FactWires)),
   left : Seq(Seq(FactWires)), todo : SUBSET (EntityWires \cup FactWires)]

(* The entities that a merge has listed or has still to write again: they  *)
(* may have been deleted since.                                            *)
Held ==
  IF merge = Nil THEN {}
  ELSE {w.id : w \in merge.todo \cap EntityWires}
         \cup (IF merge.listed = Nil THEN {}
               ELSE {e \in EntityIds : merge.listed[e] # Nil})

(* Their ids are issued, and no entity_add has one.                        *)
HeldFine ==
  \A e \in Held : e <= issued["entity"] /\ (waiting # Nil => e # waiting.id)

(* The canonical store and its archive: their tables agree, no fact or     *)
(* entity is there under an id that was not issued, an entity_add holds an *)
(* id that no store has, and what is archived or kept is there.            *)
CanonTypes ==
  /\ scenario \in Scenarios
  /\ up \in Stores /\ cold \in Stores
  /\ now \in Nat
  /\ issued \in [Kinds -> Nat]
  /\ waiting = Nil \/ waiting \in Waitings
  /\ moving \in Maybe(FactIds)
  /\ kept \in SUBSET FactIds
  /\ gone \in SUBSET EntityIds

(* The canonical store and its archive: their tables agree, no fact or     *)
(* entity is there under an id that was not issued, an entity_add holds an *)
(* id that no store has, and what is archived or kept is there.            *)
CanonFine ==
  /\ CanonTypes
  /\ Agrees(up, gone)
  /\ Agrees(cold, gone)
  /\ RelationsDistinct(up)
  /\ \A r \in up.relations : r.at <= now
  /\ \A e \in Entities(up) : e <= issued["entity"]
  /\ \A f \in Facts(up) : f <= issued["fact"]
  /\ waiting # Nil => waiting.id <= issued["entity"] /\ waiting.id \notin Entities(up)
  /\ HeldFine
  /\ FactsAddressable
  /\ moving # Nil => moving \in Facts(cold)

(* The ids of a segment are issued.                                        *)
AllIssued(records, last) == \A w \in Range(records) : w.id <= last

(* What a merge found before it is finite, and the facts that it brings or *)
(* is to write again have ids that were issued.                            *)
MergeFine ==
  merge # Nil =>
    /\ merge \in Merges
    /\ merge.before # Nil => IsFiniteSet(merge.before)
    /\ \A i \in DOMAIN merge.left : AllIssued(merge.left[i], issued["fact"])
    /\ \A w \in merge.todo \cap FactWires : w.id <= issued["fact"]

(* The branch: what it exports are facts, because its cursor was drained.  *)
BranchFine ==
  /\ agent = Nil \/ agent \in Agents
  /\ segments \in Seq(Seq(FactWires))
  /\ agent # Nil =>
       /\ \A f \in Facts(agent.store) : f <= issued["fact"]
       /\ RelationsDistinct(agent.store)
       /\ \A w \in Wires(agent.store, "entity") : Behind(w, agent.since)
       /\ ScannedAll(agent.store, agent.since)
  /\ \A i \in DOMAIN segments : AllIssued(segments[i], issued["fact"])
  /\ MergeFine

(* The cache, its cursor and a pull.                                       *)
PullTypes ==
  /\ cache \in Stores
  /\ cursor \in Cursors
  /\ listing = Nil \/ listing \in Listings
  /\ pull = Nil \/ pull \in Pulls

(* What a page under way has.                                              *)
Sent == IF pull = Nil THEN {} ELSE Range(pull.records)

(* A version that is as new by its stamp is the record itself.             *)
VersionsFine ==
  \A w \in AllWires(up), v \in AllWires(cache) \cup Sent :
    Key(v) = Key(w) /\ v.record.at >= w.record.at => v = w \/ Key(w) \in late

(* What the cursor of a pull has passed is on its page, or was covered.    *)
PullCovered ==
  pull # Nil =>
    \A w \in AllWires(up) : Behind(w, pull.next) =>
      \/ w \in AllWires(cache) \/ Key(w) \in late \/ w \in skipped
      \/ w \in IF pull.applied THEN pull.taken ELSE Range(pull.records)

(* Two relations between the same entities.                                *)
SameEnds(q, r) == q.from = r.from /\ q.to = r.to

(* The stamps of the relations, and those of a page against the cache's.   *)
RelationsFine ==
  /\ \A q \in cache.relations : q.at <= now
  /\ \A w \in Sent \cap RelationWires : w.record.at <= now
  /\ DistinctRelations(Sent)
  /\ \A r \in up.relations, q \in cache.relations : SameEnds(q, r) => q.at <= r.at
  /\ \A r \in up.relations, w \in Sent \cap RelationWires :
       SameEnds(w.record, r) => w.record.at <= r.at
  /\ pull # Nil /\ ~pull.applied =>
       \A w \in Sent \cap RelationWires, q \in cache.relations :
         SameEnds(q, w.record) => q.at <= w.record.at

(* What a cursor's scan has passed is in the cache, or on the page that is *)
(* being applied, or was replaced by a later one.                          *)
ScanCovered(c, wires) ==
  c.generation # Nil =>
    \A r \in c.generation.hash : ScannedPast(c.scan, r) =>
      \/ r \in cache.relations
      \/ \E w \in wires \cap RelationWires : w.record = r
      \/ \E q \in cache.relations : SameEnds(q, r) /\ q.at > r.at

(* The scans of the saved cursor and of the one that is to be saved.       *)
ScansCovered ==
  /\ ScanCovered(cursor, {})
  /\ pull # Nil => ScanCovered(pull.next, IF pull.applied THEN {} ELSE Sent)

(* The records of entities and facts, stamped.                             *)
RecordsFine == VersionsFine /\ RecordsCovered /\ PullCovered

(* The read cache and its pull.                                            *)
PullFine ==
  /\ PullTypes
  /\ Agrees(cache, gone)
  /\ RecordsFine
  /\ RelationsFine
  /\ ScansCovered

(* The inductive invariant of the store, its branch and its pulls.         *)
MemoryFine == CanonFine /\ BranchFine /\ PullFine

(* What the steps that write the canonical store, its archive or a branch  *)
(* have in common.                                                         *)
WaitingStep ==
  \/ waiting' = Nil
  \/ waiting' = waiting /\ Entities(up') \subseteq Entities(up) \cup Held
  \/ /\ waiting' \in Waitings
     /\ waiting'.id > issued["entity"] /\ waiting'.id <= issued'["entity"]
     /\ Entities(up') \subseteq Entities(up)

(* A write of the canonical store.                                         *)
UpStep ==
  /\ up' \in Stores
  /\ gone' \in SUBSET EntityIds /\ gone \subseteq gone'
  /\ Agrees(up', gone')
  /\ Commit(up') \/ (up' = up /\ late' = late)
  /\ RelationsDistinct(up')
  /\ \A r \in up'.relations : r \in up.relations \/ r.at = now'
  /\ \A e \in Entities(up') :
       e \in Entities(up) \/ e \in Held \/ (waiting # Nil /\ e = waiting.id)
  /\ \A f \in Facts(up') : f \in Facts(up) \/ f <= issued'["fact"]

(* A write of the archive, and what is due to be found.                    *)
ColdStep ==
  /\ cold' \in Stores
  /\ Agrees(cold', gone)
  /\ Facts(cold) \subseteq Facts(cold')
  /\ moving' \in Maybe(FactIds)
  /\ moving' # Nil => moving' \in Facts(cold')
  /\ kept' \in SUBSET FactIds
  /\ \A f \in kept' : f \in Facts(up') \/ f \in Facts(cold')
  /\ \A f \in kept' : f \in kept \/ (f > issued["fact"] /\ f <= issued'["fact"])

(* What a step does to the branch and its merge.                           *)
BranchStep == BranchFine' /\ Held' \subseteq Held \cup Entities(up)

(* A step of a writer, an archiver, an agent or a merge.                   *)
WriteStep ==
  /\ UpStep
  /\ ColdStep
  /\ WaitingStep
  /\ now' \in Nat /\ now' >= now
  /\ issued' \in [Kinds -> Nat]
  /\ issued'["entity"] >= issued["entity"] /\ issued'["fact"] >= issued["fact"]
  /\ BranchStep
  /\ UNCHANGED <<scenario, cache, cursor, listing, pull, skipped>>

(* What was deleted stays deleted: the tables agree no less.               *)
LEMMA AgreesMore ==
  ASSUME NEW s, NEW d, NEW e, d \subseteq e, Agrees(s, d)
  PROVE  Agrees(s, e)
  BY DEF Agrees, LinksAgree

(* A commit marks what it changes as late unless a cursor is yet to pass   *)
(* it: what was covered stays so.                                          *)
LEMMA CommitKeeps ==
  ASSUME RecordsFine, Commit(up') \/ (up' = up /\ late' = late),
         UNCHANGED <<cache, cursor, pull, skipped>>
  PROVE  RecordsFine'
  <1>1. CASE up' = up /\ late' = late
    BY <1>1 DEF RecordsFine, VersionsFine, RecordsCovered, PullCovered, Sent
  <1>2. CASE Commit(up')
    <2>1. \A w \in AllWires(up') :
            /\ w \in AllWires(up) /\ Key(w) \in late => Key(w) \in late'
            /\ w \notin AllWires(up) /\ (Passed(w) \/ Exported(w)) => Key(w) \in late'
      BY <1>2 DEF Commit
    <2>2. VersionsFine'
      <3>1. SUFFICES ASSUME NEW w \in AllWires(up'), NEW v \in AllWires(cache) \cup Sent,
                            Key(v) = Key(w), v.record.at >= w.record.at,
                            Key(w) \notin late'
                     PROVE  v = w
        BY DEF VersionsFine, Sent
      <3>2. CASE w \in AllWires(up)
        BY <2>1, <3>1, <3>2 DEF RecordsFine, VersionsFine
      <3>3. CASE w \notin AllWires(up)
        <4>1. Exported(w)
          BY <3>1 DEF Exported, Sent
        <4>2. QED BY <2>1, <3>1, <3>3, <4>1
      <3>4. QED BY <3>2, <3>3
    <2>3. RecordsCovered'
      <3>1. SUFFICES ASSUME NEW w \in AllWires(up'), Behind(w, cursor)
                     PROVE  w \in AllWires(cache) \/ Key(w) \in late' \/ w \in skipped
        BY DEF RecordsCovered
      <3>2. CASE w \in AllWires(up)
        BY <2>1, <3>1, <3>2 DEF RecordsFine, RecordsCovered
      <3>3. CASE w \notin AllWires(up)
        BY <2>1, <3>1, <3>3 DEF Passed
      <3>4. QED BY <3>2, <3>3
    <2>4. PullCovered'
      <3>1. SUFFICES ASSUME pull # Nil, NEW w \in AllWires(up'), Behind(w, pull.next)
                     PROVE  \/ w \in AllWires(cache) \/ Key(w) \in late' \/ w \in skipped
                            \/ w \in IF pull.applied THEN pull.taken ELSE Range(pull.records)
        BY DEF PullCovered
      <3>2. CASE w \in AllWires(up)
        BY <2>1, <3>1, <3>2 DEF RecordsFine, PullCovered
      <3>3. CASE w \notin AllWires(up)
        BY <2>1, <3>1, <3>3 DEF Passed
      <3>4. QED BY <3>2, <3>3
    <2>5. QED BY <2>2, <2>3, <2>4 DEF RecordsFine
  <1>3. QED BY <1>1, <1>2

(* Stamps are numbers, and records are those of their kind.                *)
LEMMA StampsTyped ==
  ASSUME MemoryFine
  PROVE  /\ \A e \in Entities(up) : e \in EntityIds /\ e \in Nat
                                   /\ up.entities[e] \in EntityRecords
                                   /\ up.entities[e].at \in Nat
         /\ \A f \in Facts(up) : f \in FactIds /\ f \in Nat
         /\ \A r \in up.relations \cup cache.relations : r \in Relations /\ r.at \in Nat
         /\ \A w \in Sent \cap RelationWires : w.record.at \in Nat
         /\ listing # Nil => \A e \in EntityIds : listing[e] # Nil =>
              listing[e] \in EntityRecords /\ listing[e].at \in Nat
         /\ issued["entity"] \in Nat /\ issued["fact"] \in Nat /\ now \in Nat
  <1>1. up \in Stores /\ cache \in Stores /\ issued \in [Kinds -> Nat] /\ now \in Nat
    BY DEF MemoryFine, CanonFine, CanonTypes, PullFine, PullTypes
  <1>2. /\ up.relations \in SUBSET Relations /\ cache.relations \in SUBSET Relations
        /\ \A e \in Entities(up) : e \in EntityIds /\ up.entities[e] \in EntityRecords
        /\ \A f \in Facts(up) : f \in FactIds
    BY <1>1, StoreTypes
  <1>3. \A r \in EntityRecords : r.at \in Nat
    BY NamesTyped
  <1>4. EntityIds \subseteq Nat /\ FactIds \subseteq Nat
    BY IdsAssumption
  <1>5. listing # Nil => \A e \in EntityIds : listing[e] # Nil => listing[e] \in EntityRecords
    <2>1. listing = Nil \/ listing \in Listings
      BY DEF MemoryFine, PullFine, PullTypes
    <2>2. QED BY <2>1 DEF Listings, Maybe
  <1>6. issued["entity"] \in Nat /\ issued["fact"] \in Nat
    BY <1>1 DEF Kinds
  <1>7. QED BY <1>1, <1>2, <1>3, <1>4, <1>5, <1>6, RelationTypes, WireTypes

(* What a merge holds, and what the store has, are ids.                    *)
LEMMA HeldIds == Held \subseteq Nat /\ Entities(up) \subseteq Nat
  <1>1. \A w \in EntityWires : w.id \in Nat
    BY WireTypes
  <1>2. EntityIds \subseteq Nat
    BY IdsAssumption
  <1>3. QED BY <1>1, <1>2 DEF Held, Entities

(* A write keeps the canonical store and the archive.                      *)
LEMMA WritesKeepCanon ==
  ASSUME MemoryFine, WriteStep
  PROVE  CanonFine'
  <1>1. CanonTypes /\ CanonFine
    BY DEF MemoryFine, CanonFine
  <1>2. CanonTypes'
    BY <1>1 DEF CanonTypes, WriteStep, UpStep, ColdStep, WaitingStep
  <1>3. Agrees(up', gone') /\ RelationsDistinct(up')
    BY DEF WriteStep, UpStep
  <1>4. Agrees(cold', gone')
    BY AgreesMore DEF WriteStep, UpStep, ColdStep
  <1>5. /\ now' \in Nat /\ now' >= now
        /\ issued'["entity"] \in Nat /\ issued'["fact"] \in Nat
        /\ issued'["entity"] >= issued["entity"] /\ issued'["fact"] >= issued["fact"]
    BY DEF WriteStep, Kinds
  <1>6. \A r \in up'.relations : r.at <= now'
    <2>1. SUFFICES ASSUME NEW r \in up'.relations PROVE r.at <= now'
      OBVIOUS
    <2>2. CASE r \in up.relations
      BY <1>1, <1>5, <2>2, StampsTyped DEF CanonFine
    <2>3. CASE r.at = now'
      BY <1>5, <2>3
    <2>4. QED BY <2>2, <2>3 DEF WriteStep, UpStep
  <1>7. \A e \in Entities(up') : e <= issued'["entity"]
    <2>1. SUFFICES ASSUME NEW e \in Entities(up') PROVE e <= issued'["entity"]
      OBVIOUS
    <2>2. e \in Nat
      BY IdsAssumption DEF Entities
    <2>3. e \in Entities(up) \/ e \in Held \/ (waiting # Nil /\ e = waiting.id)
      BY DEF WriteStep, UpStep
    <2>4. e <= issued["entity"]
      BY <1>1, <2>3 DEF CanonFine, HeldFine
    <2>5. QED BY <1>5, <2>2, <2>4, StampsTyped
  <1>8. \A f \in Facts(up') : f <= issued'["fact"]
    <2>1. SUFFICES ASSUME NEW f \in Facts(up') PROVE f <= issued'["fact"]
      OBVIOUS
    <2>2. f \in Nat
      BY IdsAssumption DEF Facts
    <2>3. f \in Facts(up) \/ f <= issued'["fact"]
      BY DEF WriteStep, UpStep
    <2>4. f \in Facts(up) => f <= issued["fact"]
      BY <1>1 DEF CanonFine
    <2>5. QED BY <1>5, <2>2, <2>3, <2>4, StampsTyped
  <1>9. waiting' # Nil => waiting'.id <= issued'["entity"] /\ waiting'.id \notin Entities(up')
    <2>1. CASE waiting' = Nil
      BY <2>1
    <2>2. CASE /\ waiting' = waiting /\ waiting # Nil
               /\ Entities(up') \subseteq Entities(up) \cup Held
      <3>1. waiting.id \in Nat
        BY <1>1, <2>2, IdsAssumption DEF CanonTypes, Waitings
      <3>2. waiting.id <= issued["entity"] /\ waiting.id \notin Entities(up) \cup Held
        BY <1>1, <2>2 DEF CanonFine, HeldFine
      <3>3. QED BY <1>5, <2>2, <3>1, <3>2, StampsTyped
    <2>3. CASE /\ waiting' \in Waitings
               /\ waiting'.id > issued["entity"] /\ waiting'.id <= issued'["entity"]
               /\ Entities(up') \subseteq Entities(up)
      <3>1. waiting'.id \in Nat
        BY <2>3, IdsAssumption DEF Waitings
      <3>2. waiting'.id \notin Entities(up)
        BY <1>1, <2>3, <3>1, StampsTyped DEF CanonFine
      <3>3. QED BY <2>3, <3>2
    <2>4. QED BY <2>1, <2>2, <2>3 DEF WriteStep, WaitingStep
  <1>10. FactsAddressable'
    BY DEF WriteStep, ColdStep, FactsAddressable
  <1>11. moving' # Nil => moving' \in Facts(cold')
    BY DEF WriteStep, ColdStep
  <1>12. HeldFine'
    <2>1. SUFFICES ASSUME NEW e \in Held'
                   PROVE  e <= issued'["entity"] /\ (waiting' # Nil => e # waiting'.id)
      BY DEF HeldFine
    <2>2. e \in Held \/ e \in Entities(up)
      BY DEF WriteStep, BranchStep
    <2>3. e \in Nat
      BY <2>2, HeldIds
    <2>4. /\ e <= issued["entity"]
          /\ waiting # Nil => e # waiting.id
      BY <1>1, <2>2 DEF CanonFine, HeldFine
    <2>5. waiting' = Nil \/ waiting' = waiting \/ waiting'.id > issued["entity"]
      BY DEF WriteStep, WaitingStep
    <2>6. waiting' \in Waitings => waiting'.id \in Nat
      BY IdsAssumption DEF Waitings
    <2>7. waiting' = Nil \/ waiting' \in Waitings
      BY <1>2 DEF CanonTypes
    <2>8. QED BY <1>5, <2>3, <2>4, <2>5, <2>6, <2>7, StampsTyped
  <1>13. QED
    BY <1>2, <1>3, <1>4, <1>6, <1>7, <1>8, <1>9, <1>10, <1>11, <1>12 DEF CanonFine

(* A write makes no relation older than the one that was sent.             *)
LEMMA WritesKeepRelations ==
  ASSUME MemoryFine, WriteStep
  PROVE  RelationsFine' /\ ScansCovered'
  <1>1. UNCHANGED <<cache, cursor, pull>>
    BY DEF WriteStep
  <1>2. RelationsFine /\ ScansCovered
    BY DEF MemoryFine, PullFine
  <1>3. ScansCovered'
    BY <1>1, <1>2 DEF ScansCovered, ScanCovered, Sent
  <1>4. Sent' = Sent
    BY <1>1 DEF Sent
  <1>5. now' \in Nat /\ now' >= now
    BY DEF WriteStep
  <1>6. \A q \in cache.relations : q.at <= now'
    BY <1>2, <1>5, StampsTyped DEF RelationsFine
  <1>7. \A w \in Sent \cap RelationWires : w.record.at <= now'
    BY <1>2, <1>5, StampsTyped DEF RelationsFine
  <1>8. \A r \in up'.relations : r \in up.relations \/ r.at = now'
    BY DEF WriteStep, UpStep
  <1>9. \A r \in up'.relations, q \in cache.relations : SameEnds(q, r) => q.at <= r.at
    BY <1>2, <1>6, <1>8 DEF RelationsFine
  <1>10. \A r \in up'.relations, w \in Sent \cap RelationWires :
           SameEnds(w.record, r) => w.record.at <= r.at
    BY <1>2, <1>7, <1>8 DEF RelationsFine
  <1>11. DistinctRelations(Sent)
    BY <1>2 DEF RelationsFine
  <1>12. pull # Nil /\ ~pull.applied =>
           \A w \in Sent \cap RelationWires, q \in cache.relations :
             SameEnds(q, w.record) => q.at <= w.record.at
    BY <1>2 DEF RelationsFine
  <1>13. QED
    BY <1>1, <1>3, <1>4, <1>6, <1>7, <1>9, <1>10, <1>11, <1>12 DEF RelationsFine

(* Every write keeps the invariant.                                        *)
LEMMA WritesKeep ==
  ASSUME MemoryFine, WriteStep
  PROVE  MemoryFine'
  <1>1. CanonFine'
    BY WritesKeepCanon
  <1>2. BranchFine'
    BY DEF WriteStep, BranchStep
  <1>3. PullTypes' /\ Agrees(cache, gone)'
    <2>1. PullTypes /\ Agrees(cache, gone)
      BY DEF MemoryFine, PullFine
    <2>2. UNCHANGED <<cache, cursor, listing, pull>> /\ gone \subseteq gone'
      BY DEF WriteStep, UpStep
    <2>3. PullTypes'
      BY <2>1, <2>2 DEF PullTypes
    <2>4. Agrees(cache, gone')
      BY <2>1, <2>2, AgreesMore
    <2>5. QED BY <2>2, <2>3, <2>4
  <1>4. RecordsFine'
    <2>1. RecordsFine
      BY DEF MemoryFine, PullFine
    <2>2. Commit(up') \/ (up' = up /\ late' = late)
      BY DEF WriteStep, UpStep
    <2>3. UNCHANGED <<cache, cursor, pull, skipped>>
      BY DEF WriteStep
    <2>4. QED BY <2>1, <2>2, <2>3, CommitKeeps
  <1>5. RelationsFine' /\ ScansCovered'
    BY WritesKeepRelations
  <1>6. QED BY <1>1, <1>2, <1>3, <1>4, <1>5 DEF MemoryFine, PullFine

-----------------------------------------------------------------------------
(* The canonical store's writers.                                          *)

(* What almost every write of the canonical store leaves as it is.         *)
Aside == UNCHANGED <<scenario, cache, cursor, listing, pull, skipped>>

(* What the writes need of the invariant.                                  *)
LEMMA CanonFacts ==
  ASSUME MemoryFine
  PROVE  /\ up \in Stores /\ cold \in Stores /\ cache \in Stores
         /\ NamesAgree(up) /\ ContentsDistinct(up) /\ LinksAgree(up, gone)
         /\ RelationsDistinct(up)
         /\ gone \in SUBSET EntityIds /\ kept \in SUBSET FactIds
         /\ FactsAddressable
  BY DEF MemoryFine, CanonFine, CanonTypes, PullFine, PullTypes, Agrees

(* An id that is issued is new.                                            *)
LEMMA IssuedFresh ==
  ASSUME MemoryFine, NEW kind \in Kinds, NEW i, Fresh(kind, i)
  PROVE  /\ issued' \in [Kinds -> Nat]
         /\ issued'["entity"] >= issued["entity"] /\ issued'["fact"] >= issued["fact"]
         /\ i > issued[kind] /\ i = issued'[kind] /\ i \in Ids(kind)
  <1>1. issued \in [Kinds -> Nat]
    BY DEF MemoryFine, CanonFine, CanonTypes
  <1>2. i = issued[kind] + 1 /\ issued' = [issued EXCEPT ![kind] = i] /\ i \in Ids(kind)
    BY DEF Fresh
  <1>3. QED BY <1>1, <1>2 DEF Kinds

(* A step that issues no id.                                               *)
LEMMA IssuedStays ==
  ASSUME MemoryFine, UNCHANGED issued
  PROVE  /\ issued' \in [Kinds -> Nat]
         /\ issued'["entity"] >= issued["entity"] /\ issued'["fact"] >= issued["fact"]
  BY StampsTyped DEF MemoryFine, CanonFine, CanonTypes

(* The clock stands or goes on.                                            *)
LEMMA ClockGoesOn ==
  ASSUME MemoryFine, now' \in {now, now + 1}
  PROVE  now' \in Nat /\ now' >= now
  BY StampsTyped

(* Issued ids stay issued.                                                 *)
LEMMA AllIssuedLater ==
  ASSUME NEW S \in Seq(FactWires), NEW m \in Nat, NEW n \in Nat, m <= n, AllIssued(S, m)
  PROVE  AllIssued(S, n)
  <1>1. SUFFICES ASSUME NEW w \in Range(S) PROVE w.id <= n
    BY DEF AllIssued
  <1>2. w \in FactWires
    BY RecordsOf
  <1>3. w.id \in Nat
    BY <1>2, WireTypes
  <1>4. w.id <= m
    BY DEF AllIssued
  <1>5. QED BY <1>3, <1>4

(* A step that leaves the merge.                                           *)
LEMMA MergeStays ==
  ASSUME MemoryFine, UNCHANGED merge, issued' \in [Kinds -> Nat],
         issued'["fact"] >= issued["fact"]
  PROVE  MergeFine' /\ Held' = Held
  <1>1. MergeFine /\ issued["fact"] \in Nat /\ issued'["fact"] \in Nat
    BY StampsTyped DEF MemoryFine, BranchFine, Kinds
  <1>2. MergeFine'
    <2>1. SUFFICES ASSUME merge # Nil
                   PROVE  /\ \A i \in DOMAIN merge.left :
                               AllIssued(merge.left[i], issued'["fact"])
                          /\ \A w \in merge.todo \cap FactWires : w.id <= issued'["fact"]
      BY <1>1 DEF MergeFine
    <2>2. merge \in Merges /\ merge.left \in Seq(Seq(FactWires))
      BY <1>1, <2>1 DEF MergeFine, Merges
    <2>3. ASSUME NEW i \in DOMAIN merge.left
          PROVE  AllIssued(merge.left[i], issued'["fact"])
      <3>1. merge.left[i] \in Seq(FactWires) /\ AllIssued(merge.left[i], issued["fact"])
        BY <1>1, <2>1, <2>2 DEF MergeFine
      <3>2. QED BY <1>1, <3>1, AllIssuedLater
    <2>4. ASSUME NEW w \in merge.todo \cap FactWires
          PROVE  w.id <= issued'["fact"]
      <3>1. w.id <= issued["fact"] /\ w.id \in Nat
        BY <1>1, <2>1, WireTypes DEF MergeFine
      <3>2. QED BY <1>1, <3>1
    <2>5. QED BY <2>3, <2>4
  <1>3. Held' = Held
    BY DEF Held
  <1>4. QED BY <1>2, <1>3

(* A step that leaves the branch.                                          *)
LEMMA BranchStays ==
  ASSUME MemoryFine, UNCHANGED branch, issued' \in [Kinds -> Nat],
         issued'["fact"] >= issued["fact"]
  PROVE  BranchStep
  <1>1. BranchFine /\ issued["fact"] \in Nat /\ issued'["fact"] \in Nat
    BY StampsTyped DEF MemoryFine, Kinds
  <1>2. UNCHANGED <<agent, segments, merge>>
    BY DEF branch
  <1>3. agent # Nil => \A f \in Facts(agent.store) : f <= issued'["fact"]
    <2>1. SUFFICES ASSUME agent # Nil, NEW f \in Facts(agent.store)
                   PROVE  f <= issued'["fact"]
      OBVIOUS
    <2>2. f <= issued["fact"]
      BY <1>1, <2>1 DEF BranchFine
    <2>3. f \in Nat
      BY IdsAssumption DEF Facts
    <2>4. QED BY <1>1, <2>2, <2>3
  <1>4. \A i \in DOMAIN segments : AllIssued(segments[i], issued'["fact"])
    <2>1. SUFFICES ASSUME NEW i \in DOMAIN segments
                   PROVE  AllIssued(segments[i], issued'["fact"])
      OBVIOUS
    <2>2. segments[i] \in Seq(FactWires) /\ AllIssued(segments[i], issued["fact"])
      BY <1>1 DEF BranchFine
    <2>3. QED BY <1>1, <2>2, AllIssuedLater
  <1>5. MergeFine' /\ Held' = Held
    BY <1>2, MergeStays
  <1>6. BranchFine'
    BY <1>1, <1>2, <1>3, <1>4, <1>5 DEF BranchFine
  <1>7. QED BY <1>5, <1>6 DEF BranchStep

(* A step that leaves the canonical store.                                 *)
LEMMA UpStays ==
  ASSUME MemoryFine, UNCHANGED <<up, late, gone>>
  PROVE  UpStep
  BY DEF UpStep, MemoryFine, CanonFine, CanonTypes

(* A step that leaves the archive, and adds what it keeps.                 *)
LEMMA ColdStays ==
  ASSUME MemoryFine, UNCHANGED <<cold, moving>>, kept' \in SUBSET FactIds,
         \A f \in kept' : \/ f \in kept /\ (f \in Facts(up) => f \in Facts(up'))
                          \/ /\ f \in Facts(up')
                             /\ f > issued["fact"] /\ f <= issued'["fact"]
  PROVE  ColdStep
  BY DEF ColdStep, MemoryFine, CanonFine, CanonTypes, FactsAddressable

(* A write that leaves the entities as they are.                           *)
LEMMA UpWritten ==
  ASSUME MemoryFine, NEW new \in Stores, Commit(new), UNCHANGED gone,
         NamesAgree(new), ContentsDistinct(new), LinksAgree(new, gone),
         RelationsDistinct(new), new.entities = up.entities,
         \A r \in new.relations : r \in up.relations \/ r.at = now',
         \A f \in Facts(new) : f \in Facts(up) \/ f <= issued'["fact"]
  PROVE  UpStep /\ Entities(up') = Entities(up)
  <1>1. up' = new
    BY DEF Commit
  <1>2. Commit(up')
    BY <1>1
  <1>3. Entities(up') = Entities(up)
    BY <1>1 DEF Entities
  <1>4. Agrees(up', gone')
    BY <1>1 DEF Agrees
  <1>5. gone' \in SUBSET EntityIds /\ gone \subseteq gone'
    BY CanonFacts
  <1>6. QED BY <1>1, <1>2, <1>3, <1>4, <1>5 DEF UpStep

(* entity_add takes its id and stamp before its transaction.               *)
LEMMA EntityStampWrites ==
  ASSUME MemoryFine, NEW e \in EntityIds, NEW n \in Names, NEW aliases \in SUBSET Names,
         EntityStamp(e, n, aliases)
  PROVE  WriteStep
  <1>1. /\ now' \in {now, now + 1}
        /\ Fresh("entity", e)
        /\ waiting' = [id |-> e, record |-> [name |-> n, aliases |-> aliases, at |-> now']]
        /\ UNCHANGED <<up, late, gone, cold, moving, kept, branch>>
        /\ Aside
    BY DEF EntityStamp, Writing, Aside, download, sides
  <1>2. now' \in Nat /\ now' >= now
    BY <1>1, ClockGoesOn
  <1>3. /\ issued' \in [Kinds -> Nat]
        /\ issued'["entity"] >= issued["entity"] /\ issued'["fact"] >= issued["fact"]
        /\ e > issued["entity"] /\ e = issued'["entity"]
    BY <1>1, IssuedFresh DEF Kinds
  <1>4. UpStep
    BY <1>1, UpStays
  <1>5. ColdStep
    BY <1>1, ColdStays, CanonFacts
  <1>6. BranchStep
    BY <1>1, <1>3, BranchStays
  <1>7. WaitingStep
    <2>1. [name |-> n, aliases |-> aliases, at |-> now'] \in EntityRecords
      BY <1>2 DEF EntityRecords
    <2>2. waiting' \in Waitings /\ waiting'.id = e
      BY <1>1, <2>1 DEF Waitings
    <2>3. issued'["entity"] \in Nat
      BY <1>3 DEF Kinds
    <2>4. QED BY <1>1, <1>3, <2>2, <2>3 DEF WaitingStep
  <1>8. QED BY <1>1, <1>2, <1>3, <1>4, <1>5, <1>6, <1>7 DEF WriteStep, Aside

(* entity_add inserts under the id it took.                                *)
LEMMA EntityInsertWrites ==
  ASSUME MemoryFine, EntityInsert
  PROVE  WriteStep
  <1>1. /\ waiting # Nil /\ waiting' = Nil
        /\ UNCHANGED <<now, issued, gone, cold, moving, kept, branch>>
        /\ Aside
    BY DEF EntityInsert, Aside, download, sides
  <1>2. now' \in Nat /\ now' >= now
    BY <1>1, ClockGoesOn
  <1>3. /\ issued' \in [Kinds -> Nat]
        /\ issued'["entity"] >= issued["entity"] /\ issued'["fact"] >= issued["fact"]
    BY <1>1, IssuedStays
  <1>4. BranchStep
    BY <1>1, <1>3, BranchStays
  <1>5. WaitingStep
    BY <1>1 DEF WaitingStep
  <1>6. UpStep /\ Facts(up) \subseteq Facts(up')
    <2>1. CASE UNCHANGED <<up, late>>
      BY <1>1, <2>1, UpStays
    <2>2. CASE /\ NamesFree(up, waiting.id, waiting.record)
               /\ Commit(PutEntity(up, waiting.id, waiting.record))
      <3> DEFINE e == waiting.id
      <3> DEFINE r == waiting.record
      <3> DEFINE new == PutEntity(up, e, r)
      <3>1. e \in EntityIds /\ r \in EntityRecords /\ e \notin Entities(up)
        BY <1>1 DEF MemoryFine, CanonFine, CanonTypes, Waitings
      <3>2. /\ new \in Stores
            /\ new.entities = [up.entities EXCEPT ![e] = r]
            /\ new.facts = up.facts
            /\ new.relations = up.relations
            /\ NamesAgree(new) /\ ContentsDistinct(new) /\ LinksAgree(new, gone)
        BY <2>2, <3>1, CanonFacts, PutEntityAgrees
      <3>3. up' = new /\ Commit(new)
        BY <2>2 DEF Commit
      <3>4. up.entities \in [EntityIds -> Maybe(EntityRecords)]
        BY CanonFacts, StoreTypes
      <3> HIDE DEF new, r
      <3>5. \A d \in Entities(up') : d \in Entities(up) \/ d = e
        BY <3>1, <3>2, <3>3, <3>4 DEF Entities
      <3>6. Facts(up') = Facts(up)
        BY <3>2, <3>3 DEF Facts
      <3>7. RelationsDistinct(up') /\ up'.relations = up.relations
        BY <3>2, <3>3, CanonFacts DEF RelationsDistinct
      <3>8. Commit(up') /\ up' \in Stores
        BY <3>2, <3>3
      <3>9. Agrees(up', gone') /\ gone' \in SUBSET EntityIds /\ gone \subseteq gone'
        BY <1>1, <3>2, <3>3, CanonFacts DEF Agrees
      <3>10. QED BY <1>1, <3>5, <3>6, <3>7, <3>8, <3>9 DEF UpStep
    <2>3. QED BY <2>1, <2>2 DEF EntityInsert
  <1>7. ColdStep
    BY <1>1, <1>6, ColdStays, CanonFacts
  <1>8. QED BY <1>1, <1>2, <1>3, <1>4, <1>5, <1>6, <1>7 DEF WriteStep, Aside

(* A renamed entity is an entity.                                          *)
LEMMA RenamedTypes ==
  ASSUME NEW r \in EntityRecords, NEW n \in Names, NEW t \in Nat
  PROVE  Renamed(r, n, t) \in EntityRecords
  <1> DEFINE stamp == Stamped(r, t)
  <1>1. stamp \in Nat
    BY NamesTyped DEF Stamped, Larger
  <1>2. Renamed(r, n, t) = [r EXCEPT !.name = n, !.at = stamp]
    BY DEF Renamed
  <1> HIDE DEF stamp
  <1>3. [r EXCEPT !.name = n, !.at = stamp] \in EntityRecords
    BY <1>1 DEF EntityRecords
  <1>4. QED BY <1>2, <1>3

(* entity_update is a write.                                               *)
LEMMA EntityUpdateWrites ==
  ASSUME MemoryFine, NEW e \in EntityIds, NEW n \in Names, EntityUpdate(e, n)
  PROVE  WriteStep
  <1> DEFINE r == Renamed(up.entities[e], n, now')
  <1> DEFINE new == PutEntity(up, e, r)
  <1>1. /\ now' \in {now, now + 1}
        /\ e \in Entities(up)
        /\ NamesFree(up, e, r)
        /\ Commit(new)
        /\ UNCHANGED <<issued, waiting, gone, cold, moving, kept, branch>>
        /\ Aside
    BY DEF EntityUpdate, Writing, Aside, download, sides
  <1>2. now' \in Nat /\ now' >= now
    BY <1>1, ClockGoesOn
  <1>3. /\ issued' \in [Kinds -> Nat]
        /\ issued'["entity"] >= issued["entity"] /\ issued'["fact"] >= issued["fact"]
    BY <1>1, IssuedStays
  <1>4. BranchStep
    BY <1>1, <1>3, BranchStays
  <1>5. r \in EntityRecords
    BY <1>1, <1>2, StampsTyped, RenamedTypes
  <1>6. /\ new \in Stores
        /\ new.entities = [up.entities EXCEPT ![e] = r]
        /\ new.facts = up.facts
        /\ new.relations = up.relations
        /\ NamesAgree(new) /\ ContentsDistinct(new) /\ LinksAgree(new, gone)
    BY <1>1, <1>5, CanonFacts, PutEntityAgrees
  <1>7. up' = new
    BY <1>1 DEF Commit
  <1>8. up.entities \in [EntityIds -> Maybe(EntityRecords)]
    BY CanonFacts, StoreTypes
  <1> HIDE DEF new, r
  <1>9. Entities(up') = Entities(up)
    BY <1>1, <1>5, <1>6, <1>7, <1>8, NilIsNoRecord DEF Entities
  <1>10. Facts(up') = Facts(up)
    BY <1>6, <1>7 DEF Facts
  <1>11. RelationsDistinct(up') /\ up'.relations = up.relations
    BY <1>6, <1>7, CanonFacts DEF RelationsDistinct
  <1>12. Agrees(up', gone') /\ gone' \in SUBSET EntityIds /\ gone \subseteq gone'
    BY <1>1, <1>6, <1>7, CanonFacts DEF Agrees
  <1>13. Commit(up') /\ up' \in Stores
    BY <1>1, <1>6, <1>7
  <1>14. UpStep
    BY <1>9, <1>10, <1>11, <1>12, <1>13 DEF UpStep
  <1>15. ColdStep
    BY <1>1, <1>10, ColdStays, CanonFacts
  <1>16. WaitingStep
    BY <1>1, <1>9 DEF WaitingStep
  <1>17. QED BY <1>1, <1>2, <1>3, <1>4, <1>14, <1>15, <1>16 DEF WriteStep, Aside

(* entity_delete is a write.                                               *)
LEMMA EntityDeleteWrites ==
  ASSUME MemoryFine, NEW e \in EntityIds, EntityDelete(e)
  PROVE  WriteStep
  <1> DEFINE new == WithoutEntity(up, e)
  <1>1. /\ now' \in {now, now + 1}
        /\ Commit(new)
        /\ gone' = gone \cup {e}
        /\ UNCHANGED <<issued, waiting, cold, moving, kept, branch>>
        /\ Aside
    BY DEF EntityDelete, Writing, Aside, download, sides
  <1>2. now' \in Nat /\ now' >= now
    BY <1>1, ClockGoesOn
  <1>3. /\ issued' \in [Kinds -> Nat]
        /\ issued'["entity"] >= issued["entity"] /\ issued'["fact"] >= issued["fact"]
    BY <1>1, IssuedStays
  <1>4. BranchStep
    BY <1>1, <1>3, BranchStays
  <1>5. /\ new \in Stores
        /\ new.entities = [up.entities EXCEPT ![e] = Nil]
        /\ Entities(new) = Entities(up) \ {e}
        /\ new.relations \in SUBSET up.relations
        /\ Facts(new) = Facts(up)
        /\ NamesAgree(new) /\ ContentsDistinct(new) /\ LinksAgree(new, gone \cup {e})
    BY CanonFacts, WithoutEntityAgrees
  <1>6. up' = new
    BY <1>1 DEF Commit
  <1>7. up.entities \in [EntityIds -> Maybe(EntityRecords)]
    BY CanonFacts, StoreTypes
  <1> HIDE DEF new
  <1>8. \A d \in Entities(up') : d \in Entities(up)
    BY <1>5, <1>6
  <1>9. RelationsDistinct(up')
    BY <1>5, <1>6, CanonFacts DEF RelationsDistinct
  <1>10. Agrees(up', gone') /\ gone' \in SUBSET EntityIds /\ gone \subseteq gone'
    BY <1>1, <1>5, <1>6, CanonFacts DEF Agrees
  <1>11. Commit(up') /\ up' \in Stores
    BY <1>1, <1>5, <1>6
  <1>12. UpStep
    BY <1>5, <1>6, <1>8, <1>9, <1>10, <1>11 DEF UpStep
  <1>13. ColdStep
    BY <1>1, <1>5, <1>6, ColdStays, CanonFacts
  <1>14. WaitingStep
    BY <1>1, <1>8 DEF WaitingStep
  <1>15. QED BY <1>1, <1>2, <1>3, <1>4, <1>12, <1>13, <1>14 DEF WriteStep, Aside

(* The records that the updates of a fact write.                           *)
LEMMA FactRecordsWritten ==
  ASSUME NEW r \in FactRecords, NEW t \in Nat
  PROVE  /\ r.content \in Contents /\ r.links \in SUBSET EntityIds /\ r.at \in Nat
         /\ \A g \in FactIds :
              /\ [r EXCEPT !.by = g, !.at = t] \in FactRecords
              /\ [r EXCEPT !.by = g, !.at = t].links = r.links
              /\ [r EXCEPT !.by = g, !.at = t].content = r.content
         /\ /\ [r EXCEPT !.at = t] \in FactRecords
            /\ [r EXCEPT !.at = t].links = r.links
            /\ [r EXCEPT !.at = t].content = r.content
         /\ Stamped(r, t) \in Nat
  <1>1. r.content \in Contents /\ r.links \in SUBSET EntityIds /\ r.at \in Nat
    BY DEF FactRecords
  <1>2. Stamped(r, t) \in Nat
    BY <1>1 DEF Stamped, Larger
  <1>4. ASSUME NEW g \in FactIds
        PROVE  /\ [r EXCEPT !.by = g, !.at = t] \in FactRecords
               /\ [r EXCEPT !.by = g, !.at = t].links = r.links
               /\ [r EXCEPT !.by = g, !.at = t].content = r.content
    BY DEF FactRecords, Maybe
  <1>5. /\ [r EXCEPT !.at = t] \in FactRecords
        /\ [r EXCEPT !.at = t].links = r.links
        /\ [r EXCEPT !.at = t].content = r.content
    BY RestampedTypes
  <1>6. QED BY <1>1, <1>2, <1>4, <1>5

(* A fact's own content is free for it.                                    *)
LEMMA OwnContentFree ==
  ASSUME NEW s \in Stores, ContentsDistinct(s), NEW f \in Facts(s)
  PROVE  ContentFree(s, f, s.facts[f].content)
  BY DEF ContentFree, ContentsDistinct, Holding

(* A write that replaces the record of one fact.                           *)
LEMMA FactRewritten ==
  ASSUME MemoryFine, now' \in {now, now + 1}, NEW f \in Facts(up), NEW r \in FactRecords,
         r.links = up.facts[f].links, ContentFree(up, f, r.content),
         Commit(UpdateFact(up, f, r)),
         UNCHANGED <<issued, waiting, gone, cold, moving, kept, branch>>, Aside
  PROVE  WriteStep
  <1> DEFINE new == UpdateFact(up, f, r)
  <1>1. now' \in Nat /\ now' >= now
    BY ClockGoesOn
  <1>2. /\ issued' \in [Kinds -> Nat]
        /\ issued'["entity"] >= issued["entity"] /\ issued'["fact"] >= issued["fact"]
    BY IssuedStays
  <1>3. BranchStep
    BY <1>2, BranchStays
  <1>4. /\ new \in Stores
        /\ new.entities = up.entities
        /\ new.relations = up.relations
        /\ Facts(new) = Facts(up)
        /\ NamesAgree(new) /\ ContentsDistinct(new) /\ LinksAgree(new, gone)
    BY CanonFacts, UpdateFactAgrees
  <1>5. Commit(new) /\ up' = new
    BY DEF Commit
  <1> HIDE DEF new
  <1>6. RelationsDistinct(new)
    BY <1>4, CanonFacts DEF RelationsDistinct
  <1>7. UpStep /\ Entities(up') = Entities(up)
    BY <1>4, <1>5, <1>6, UpWritten
  <1>8. ColdStep
    BY <1>4, <1>5, ColdStays, CanonFacts
  <1>9. WaitingStep
    BY <1>7 DEF WaitingStep
  <1>10. QED BY <1>1, <1>2, <1>3, <1>7, <1>8, <1>9 DEF WriteStep, Aside

(* fact_update is a write.                                                 *)
LEMMA FactUpdateWrites ==
  ASSUME MemoryFine, NEW f \in FactIds, NEW c \in Contents, FactUpdate(f, c)
  PROVE  WriteStep
  <1> DEFINE r == [up.facts[f] EXCEPT !.content = c, !.at = now']
  <1>1. /\ now' \in {now, now + 1}
        /\ f \in Facts(up)
        /\ ContentFree(up, f, c)
        /\ Commit(UpdateFact(up, f, r))
        /\ UNCHANGED <<issued, waiting, gone, cold, moving, kept, branch>>
        /\ Aside
    BY DEF FactUpdate, Writing, Aside, download, sides
  <1>2. now' \in Nat /\ up.facts[f] \in FactRecords
    BY <1>1, ClockGoesOn, CanonFacts, StoreTypes
  <1>3. r \in FactRecords /\ r.links = up.facts[f].links /\ r.content = c
    <2> DEFINE old == up.facts[f]
    <2> DEFINE t == now'
    <2>1. old \in FactRecords /\ t \in Nat
      BY <1>2
    <2> HIDE DEF old, t
    <2>2. /\ [old EXCEPT !.content = c, !.at = t] \in FactRecords
          /\ [old EXCEPT !.content = c, !.at = t].links = old.links
          /\ [old EXCEPT !.content = c, !.at = t].content = c
      BY <2>1 DEF FactRecords
    <2>3. QED BY <2>2 DEF old, t
  <1> HIDE DEF r
  <1>4. QED BY <1>1, <1>3, FactRewritten

(* fact_supersede is a write.                                              *)
LEMMA FactSupersedeWrites ==
  ASSUME MemoryFine, NEW f \in FactIds, NEW g \in FactIds, FactSupersede(f, g)
  PROVE  WriteStep
  <1> DEFINE r == [up.facts[f] EXCEPT !.by = g, !.at = now']
  <1>1. /\ now' \in {now, now + 1}
        /\ f \in Facts(up)
        /\ Commit(UpdateFact(up, f, r))
        /\ UNCHANGED <<issued, waiting, gone, cold, moving, kept, branch>>
        /\ Aside
    BY DEF FactSupersede, Writing, Aside, download, sides
  <1>2. now' \in Nat /\ up.facts[f] \in FactRecords
    BY <1>1, ClockGoesOn, CanonFacts, StoreTypes
  <1>3. /\ r \in FactRecords /\ r.links = up.facts[f].links
        /\ r.content = up.facts[f].content
    <2> DEFINE old == up.facts[f]
    <2> DEFINE t == now'
    <2>1. old \in FactRecords /\ t \in Nat
      BY <1>2
    <2> HIDE DEF old, t
    <2>2. /\ [old EXCEPT !.by = g, !.at = t] \in FactRecords
          /\ [old EXCEPT !.by = g, !.at = t].links = old.links
          /\ [old EXCEPT !.by = g, !.at = t].content = old.content
      BY <2>1, FactRecordsWritten
    <2>3. QED BY <2>2 DEF old, t
  <1>4. ContentFree(up, f, up.facts[f].content)
    BY <1>1, CanonFacts, OwnContentFree
  <1> HIDE DEF r
  <1>5. QED BY <1>1, <1>3, <1>4, FactRewritten

(* fact_feedback is a write.                                               *)
LEMMA FactFeedbackWrites ==
  ASSUME MemoryFine, NEW f \in FactIds, FactFeedback(f)
  PROVE  WriteStep
  <1> DEFINE stamp == Stamped(up.facts[f], now')
  <1> DEFINE r == [up.facts[f] EXCEPT !.at = stamp]
  <1>1. /\ now' \in {now, now + 1}
        /\ f \in Facts(up)
        /\ Commit(UpdateFact(up, f, r))
        /\ UNCHANGED <<issued, waiting, gone, cold, moving, kept, branch>>
        /\ Aside
    BY DEF FactFeedback, Writing, Aside, download, sides
  <1>2. now' \in Nat /\ up.facts[f] \in FactRecords
    BY <1>1, ClockGoesOn, CanonFacts, StoreTypes
  <1>3. stamp \in Nat
    BY <1>2, FactRecordsWritten
  <1> HIDE DEF stamp
  <1>4. /\ r \in FactRecords /\ r.links = up.facts[f].links
        /\ r.content = up.facts[f].content
    BY <1>2, <1>3, FactRecordsWritten
  <1>5. ContentFree(up, f, up.facts[f].content)
    BY <1>1, CanonFacts, OwnContentFree
  <1> HIDE DEF r
  <1>6. QED BY <1>1, <1>4, <1>5, FactRewritten

(* fact_delete is a write: the fact is no longer due.                      *)
LEMMA FactDeleteWrites ==
  ASSUME MemoryFine, NEW f \in FactIds, FactDelete(f)
  PROVE  WriteStep
  <1> DEFINE new == WithoutFact(up, f)
  <1>1. /\ now' \in {now, now + 1}
        /\ Commit(new)
        /\ kept' = kept \ {f}
        /\ UNCHANGED <<issued, waiting, gone, cold, moving, branch>>
        /\ Aside
    BY DEF FactDelete, Writing, Aside, download, sides
  <1>2. now' \in Nat /\ now' >= now
    BY <1>1, ClockGoesOn
  <1>3. /\ issued' \in [Kinds -> Nat]
        /\ issued'["entity"] >= issued["entity"] /\ issued'["fact"] >= issued["fact"]
    BY <1>1, IssuedStays
  <1>4. BranchStep
    BY <1>1, <1>3, BranchStays
  <1>5. /\ new \in Stores
        /\ new.entities = up.entities
        /\ new.relations = up.relations
        /\ Facts(new) = Facts(up) \ {f}
        /\ NamesAgree(new) /\ ContentsDistinct(new) /\ LinksAgree(new, gone)
    BY CanonFacts, WithoutFactAgrees
  <1>6. up' = new
    BY <1>1 DEF Commit
  <1> HIDE DEF new
  <1>7. RelationsDistinct(new)
    BY <1>5, CanonFacts DEF RelationsDistinct
  <1>8. UpStep /\ Entities(up') = Entities(up)
    BY <1>1, <1>5, <1>7, UpWritten
  <1>9. ColdStep
    <2>1. kept' \in SUBSET FactIds
      BY <1>1, CanonFacts
    <2>2. \A g \in kept' : g \in kept /\ (g \in Facts(up) => g \in Facts(up'))
      BY <1>1, <1>5, <1>6
    <2>3. QED BY <1>1, <2>1, <2>2, ColdStays
  <1>10. WaitingStep
    BY <1>1, <1>8 DEF WaitingStep
  <1>11. QED BY <1>1, <1>2, <1>3, <1>4, <1>8, <1>9, <1>10 DEF WriteStep, Aside

(* fact_add is a write, of a new fact or of a known one.                   *)
LEMMA FactAddWrites ==
  ASSUME MemoryFine, NEW c \in Contents, NEW links \in SUBSET Entities(up),
         FactAdd(c, links)
  PROVE  WriteStep
  <1>1. /\ now' \in {now, now + 1}
        /\ UNCHANGED <<waiting, gone, cold, moving, branch>>
        /\ Aside
    BY DEF FactAdd, Writing, Aside, download, sides
  <1>2. now' \in Nat /\ now' >= now
    BY <1>1, ClockGoesOn
  <1>3. links \in SUBSET EntityIds
    BY DEF Entities
  <1>4. ASSUME NEW f \in Holding(up, c), Commit(MergedFact(up, f, links)),
               UNCHANGED <<issued, kept>>
        PROVE  WriteStep
    <2> DEFINE new == MergedFact(up, f, links)
    <2>1. /\ issued' \in [Kinds -> Nat]
          /\ issued'["entity"] >= issued["entity"] /\ issued'["fact"] >= issued["fact"]
      BY <1>4, IssuedStays
    <2>2. BranchStep
      BY <1>1, <2>1, BranchStays
    <2>3. f \in Facts(up)
      BY DEF Holding
    <2>4. /\ new \in Stores
          /\ new.entities = up.entities
          /\ new.relations = up.relations
          /\ Facts(new) = Facts(up)
          /\ NamesAgree(new) /\ ContentsDistinct(new) /\ LinksAgree(new, gone)
      BY <1>3, <2>3, CanonFacts, MergedFactAgrees
    <2>5. up' = new /\ Commit(new)
      BY <1>4 DEF Commit
    <2> HIDE DEF new
    <2>6. RelationsDistinct(new)
      BY <2>4, CanonFacts DEF RelationsDistinct
    <2>7. UpStep /\ Entities(up') = Entities(up)
      BY <1>1, <2>4, <2>5, <2>6, UpWritten
    <2>8. ColdStep
      BY <1>1, <1>4, <2>4, <2>5, ColdStays, CanonFacts
    <2>9. WaitingStep
      BY <1>1, <2>7 DEF WaitingStep
    <2>10. QED BY <1>1, <1>2, <2>1, <2>2, <2>7, <2>8, <2>9 DEF WriteStep, Aside
  <1>5. ASSUME Holding(up, c) = {}, NEW f \in FactIds, Fresh("fact", f),
               Commit(InsertFact(up, f, NewFact(c, links, now'))), kept' = kept \cup {f}
        PROVE  WriteStep
    <2> DEFINE r == NewFact(c, links, now')
    <2> DEFINE new == InsertFact(up, f, r)
    <2>1. /\ issued' \in [Kinds -> Nat]
          /\ issued'["entity"] >= issued["entity"] /\ issued'["fact"] >= issued["fact"]
          /\ f > issued["fact"] /\ f = issued'["fact"]
      BY <1>5, IssuedFresh DEF Kinds
    <2>2. BranchStep
      BY <1>1, <2>1, BranchStays
    <2>3. r \in FactRecords /\ r.content = c
      BY <1>2, <1>3 DEF NewFact, FactRecords, Maybe
    <2>4. f \notin Facts(up)
      <3>1. f \in Nat /\ issued["fact"] \in Nat
        BY IdsAssumption, StampsTyped
      <3>2. \A g \in Facts(up) : g <= issued["fact"]
        BY DEF MemoryFine, CanonFine
      <3>3. QED BY <2>1, <3>1, <3>2
    <2> HIDE DEF r
    <2>5. /\ new \in Stores
          /\ new.entities = up.entities
          /\ new.relations = up.relations
          /\ Facts(new) = Facts(up) \cup {f}
          /\ NamesAgree(new) /\ ContentsDistinct(new) /\ LinksAgree(new, gone)
      BY <1>5, <2>3, <2>4, CanonFacts, InsertFactAgrees
    <2>6. up' = new /\ Commit(new)
      BY <1>5 DEF Commit, r
    <2> HIDE DEF new
    <2>7. RelationsDistinct(new)
      BY <2>5, CanonFacts DEF RelationsDistinct
    <2>8. \A g \in Facts(new) : g \in Facts(up) \/ g <= issued'["fact"]
      <3>1. f <= issued'["fact"]
        BY <2>1, IdsAssumption
      <3>2. QED BY <2>5, <3>1
    <2>9. UpStep /\ Entities(up') = Entities(up)
      BY <1>1, <2>5, <2>6, <2>7, <2>8, UpWritten
    <2>10. ColdStep
      <3>1. kept' \in SUBSET FactIds
        BY <1>5, CanonFacts
      <3>2. \A g \in kept' : \/ g \in kept /\ (g \in Facts(up) => g \in Facts(up'))
                             \/ /\ g \in Facts(up')
                                /\ g > issued["fact"] /\ g <= issued'["fact"]
        BY <1>5, <2>1, <2>5, <2>6, IdsAssumption
      <3>3. QED BY <1>1, <3>1, <3>2, ColdStays
    <2>11. WaitingStep
      BY <1>1, <2>9 DEF WaitingStep
    <2>12. QED BY <1>1, <1>2, <2>1, <2>2, <2>9, <2>10, <2>11 DEF WriteStep, Aside
  <1>6. QED BY <1>4, <1>5 DEF FactAdd

(* relation_add is a write, stamped with the clock.                        *)
LEMMA RelationAddWrites ==
  ASSUME MemoryFine, NEW d \in EntityIds, NEW e \in EntityIds, RelationAdd(d, e)
  PROVE  WriteStep
  <1> DEFINE r == [from |-> d, to |-> e, at |-> now']
  <1> DEFINE new == PutRelation(up, r)
  <1>1. /\ now' \in {now, now + 1}
        /\ Commit(new)
        /\ UNCHANGED <<issued, waiting, gone, cold, moving, kept, branch>>
        /\ Aside
    BY DEF RelationAdd, Writing, Aside, download, sides
  <1>2. now' \in Nat /\ now' >= now
    BY <1>1, ClockGoesOn
  <1>3. /\ issued' \in [Kinds -> Nat]
        /\ issued'["entity"] >= issued["entity"] /\ issued'["fact"] >= issued["fact"]
    BY <1>1, IssuedStays
  <1>4. BranchStep
    BY <1>1, <1>3, BranchStays
  <1>5. r \in Relations /\ r.at = now'
    BY <1>2 DEF Relations
  <1> HIDE DEF r
  <1>6. /\ new \in Stores
        /\ new.entities = up.entities
        /\ new.facts = up.facts
        /\ new.relations = {q \in up.relations : q.from # r.from \/ q.to # r.to} \cup {r}
        /\ NamesAgree(new) /\ ContentsDistinct(new) /\ LinksAgree(new, gone)
    BY <1>5, CanonFacts, PutRelationAgrees
  <1>7. up' = new
    BY <1>1 DEF Commit
  <1> HIDE DEF new
  <1>8. RelationsDistinct(new)
    BY <1>6, CanonFacts DEF RelationsDistinct
  <1>9. \A q \in new.relations : q \in up.relations \/ q.at = now'
    BY <1>5, <1>6
  <1>10. Facts(new) = Facts(up)
    BY <1>6 DEF Facts
  <1>11. UpStep /\ Entities(up') = Entities(up)
    BY <1>1, <1>6, <1>8, <1>9, <1>10, UpWritten
  <1>12. ColdStep
    BY <1>1, <1>7, <1>10, ColdStays, CanonFacts
  <1>13. WaitingStep
    BY <1>1, <1>11 DEF WaitingStep
  <1>14. QED BY <1>1, <1>2, <1>3, <1>4, <1>11, <1>12, <1>13 DEF WriteStep, Aside

(* relation_remove is a write.                                             *)
LEMMA RelationRemoveWrites ==
  ASSUME MemoryFine, NEW r \in up.relations, RelationRemove(r)
  PROVE  WriteStep
  <1> DEFINE fewer == up.relations \ {r}
  <1> DEFINE new == [up EXCEPT !.relations = fewer]
  <1>1. /\ now' \in {now, now + 1}
        /\ Commit(new)
        /\ UNCHANGED <<issued, waiting, gone, cold, moving, kept, branch>>
        /\ Aside
    BY DEF RelationRemove, Writing, Aside, download, sides
  <1>2. now' \in Nat /\ now' >= now
    BY <1>1, ClockGoesOn
  <1>3. /\ issued' \in [Kinds -> Nat]
        /\ issued'["entity"] >= issued["entity"] /\ issued'["fact"] >= issued["fact"]
    BY <1>1, IssuedStays
  <1>4. BranchStep
    BY <1>1, <1>3, BranchStays
  <1>5. fewer \in SUBSET up.relations
    OBVIOUS
  <1> HIDE DEF fewer
  <1>6. /\ new \in Stores
        /\ new.entities = up.entities
        /\ new.facts = up.facts
        /\ new.relations = fewer
        /\ NamesAgree(new) /\ ContentsDistinct(new) /\ LinksAgree(new, gone)
    BY <1>5, CanonFacts, FewerRelationsAgree
  <1>7. up' = new
    BY <1>1 DEF Commit
  <1> HIDE DEF new
  <1>8. RelationsDistinct(new)
    BY <1>5, <1>6, CanonFacts DEF RelationsDistinct
  <1>9. Facts(new) = Facts(up)
    BY <1>6 DEF Facts
  <1>10. UpStep /\ Entities(up') = Entities(up)
    BY <1>1, <1>5, <1>6, <1>8, <1>9, UpWritten
  <1>11. ColdStep
    BY <1>1, <1>7, <1>9, ColdStays, CanonFacts
  <1>12. WaitingStep
    BY <1>1, <1>10 DEF WaitingStep
  <1>13. QED BY <1>1, <1>2, <1>3, <1>4, <1>10, <1>11, <1>12 DEF WriteStep, Aside

-----------------------------------------------------------------------------
(* The archiver, branches and merges.                                      *)

(* A step that writes neither the canonical store nor its archive.         *)
LEMMA CanonStays ==
  ASSUME MemoryFine, UNCHANGED <<up, late, gone, cold, moving, kept, waiting>>
  PROVE  UpStep /\ ColdStep /\ WaitingStep
  <1>1. UpStep
    BY UpStays
  <1>2. ColdStep
    BY ColdStays, CanonFacts
  <1>3. Entities(up') \subseteq Entities(up)
    OBVIOUS
  <1>4. QED BY <1>1, <1>2, <1>3 DEF WaitingStep

(* A fact is stored only if its content is free.                           *)
LEMMA StoredIsFree ==
  ASSUME NEW s, NEW f, NEW r, FactOutcome(s, f, r) = "stored"
  PROVE  ContentFree(s, f, r.content)
  BY DEF FactOutcome

(* The archiver copies a fact to the cold tier and verifies it.            *)
LEMMA ArchiveCopyWrites ==
  ASSUME MemoryFine, NEW f \in FactIds, ArchiveCopy(f)
  PROVE  WriteStep
  <1>1. /\ now' \in {now, now + 1}
        /\ f \in Facts(up)
        /\ UNCHANGED <<up, late, issued, waiting, kept, gone, branch>>
        /\ Aside
    BY DEF ArchiveCopy, Writing, Aside, download, others
  <1>2. now' \in Nat /\ now' >= now
    BY <1>1, ClockGoesOn
  <1>3. /\ issued' \in [Kinds -> Nat]
        /\ issued'["entity"] >= issued["entity"] /\ issued'["fact"] >= issued["fact"]
    BY <1>1, IssuedStays
  <1>4. BranchStep
    BY <1>1, <1>3, BranchStays
  <1>5. UpStep
    BY <1>1, UpStays
  <1>6. WaitingStep
    BY <1>1 DEF WaitingStep
  <1>7. /\ cold \in Stores /\ Agrees(cold, gone)
        /\ \A g \in kept : g \in Facts(up) \/ g \in Facts(cold)
        /\ kept \in SUBSET FactIds
    BY DEF MemoryFine, CanonFine, CanonTypes, FactsAddressable
  <1>8. CASE /\ FactOutcome(cold, f, up.facts[f]) = "stored"
             /\ cold' = PutFact(cold, f, up.facts[f])
             /\ moving' = f
    <2> DEFINE r == up.facts[f]
    <2> DEFINE new == PutFact(cold, f, r)
    <2>1. r \in FactRecords
      BY <1>1, CanonFacts, StoreTypes
    <2>2. ContentFree(cold, f, r.content)
      BY <1>8, StoredIsFree
    <2>3. cold' = new
      BY <1>8
    <2> HIDE DEF r
    <2>4. /\ new \in Stores
          /\ new.facts = [cold.facts EXCEPT ![f] = r]
          /\ NamesAgree(cold) => NamesAgree(new)
          /\ ContentsDistinct(cold) => ContentsDistinct(new)
          /\ LinksAgree(cold, gone) => LinksAgree(new, gone)
      BY <1>7, <2>1, <2>2, PutFactAgrees
    <2> HIDE DEF new
    <2>5. Agrees(cold', gone)
      BY <1>7, <2>3, <2>4 DEF Agrees
    <2>6. cold.facts \in [FactIds -> Maybe(FactRecords)]
      BY <1>7, StoreTypes
    <2>7. Facts(cold) \subseteq Facts(cold') /\ f \in Facts(cold')
      BY <2>1, <2>3, <2>4, <2>6, NilIsNoRecord DEF Facts
    <2>8. ColdStep
      BY <1>1, <1>7, <1>8, <2>3, <2>4, <2>5, <2>7 DEF ColdStep, Maybe
    <2>9. QED BY <1>1, <1>2, <1>3, <1>4, <1>5, <1>6, <2>8 DEF WriteStep, Aside
  <1>9. CASE cold' = cold /\ moving' \in {f, Nil} /\ (moving' = f => f \in Facts(cold))
    <2>1. ColdStep
      BY <1>1, <1>7, <1>9, NilIsNoRecord DEF ColdStep, Maybe
    <2>2. QED BY <1>1, <1>2, <1>3, <1>4, <1>5, <1>6, <2>1 DEF WriteStep, Aside
  <1>10. QED BY <1>8, <1>9, NilIsNoRecord DEF ArchiveCopy

(* The archiver drops a fact that is in the cold tier.                     *)
LEMMA ArchiveDropWrites ==
  ASSUME MemoryFine, ArchiveDrop
  PROVE  WriteStep
  <1>1. /\ moving # Nil /\ moving' = Nil
        /\ UNCHANGED <<now, issued, waiting, cold, kept, gone, branch>>
        /\ Aside
    BY DEF ArchiveDrop, Aside, download, others
  <1>2. now' \in Nat /\ now' >= now
    BY <1>1, ClockGoesOn
  <1>3. /\ issued' \in [Kinds -> Nat]
        /\ issued'["entity"] >= issued["entity"] /\ issued'["fact"] >= issued["fact"]
    BY <1>1, IssuedStays
  <1>4. BranchStep
    BY <1>1, <1>3, BranchStays
  <1>5. /\ cold \in Stores /\ Agrees(cold, gone)
        /\ \A g \in kept : g \in Facts(up) \/ g \in Facts(cold)
        /\ kept \in SUBSET FactIds
        /\ moving \in Facts(cold)
    BY <1>1 DEF MemoryFine, CanonFine, CanonTypes, FactsAddressable
  <1>6. UpStep /\ Entities(up') = Entities(up) /\ Facts(up) \ {moving} \subseteq Facts(up')
    <2>1. CASE UNCHANGED <<up, late>>
      BY <1>1, <2>1, UpStays
    <2>2. CASE moving \in Facts(up) /\ Commit(WithoutFact(up, moving))
      <3> DEFINE new == WithoutFact(up, moving)
      <3>1. moving \in FactIds
        BY <2>2 DEF Facts
      <3>2. /\ new \in Stores
            /\ new.entities = up.entities
            /\ new.relations = up.relations
            /\ Facts(new) = Facts(up) \ {moving}
            /\ NamesAgree(new) /\ ContentsDistinct(new) /\ LinksAgree(new, gone)
        BY <3>1, CanonFacts, WithoutFactAgrees
      <3>3. up' = new /\ Commit(new)
        BY <2>2 DEF Commit
      <3> HIDE DEF new
      <3>4. RelationsDistinct(new)
        BY <3>2, CanonFacts DEF RelationsDistinct
      <3>5. UpStep /\ Entities(up') = Entities(up)
        BY <1>1, <3>2, <3>3, <3>4, UpWritten
      <3>6. QED BY <3>2, <3>3, <3>5
    <2>3. QED BY <2>1, <2>2 DEF ArchiveDrop
  <1>7. ColdStep
    BY <1>1, <1>5, <1>6 DEF ColdStep, Maybe
  <1>8. WaitingStep
    BY <1>1, <1>6 DEF WaitingStep
  <1>9. QED BY <1>1, <1>2, <1>3, <1>4, <1>6, <1>7, <1>8 DEF WriteStep, Aside

(* The archiver dies between the two.                                      *)
LEMMA ArchiveStopWrites ==
  ASSUME MemoryFine, ArchiveStop
  PROVE  WriteStep
  <1>1. /\ moving' = Nil
        /\ UNCHANGED <<up, late, issued, waiting, now, cold, kept, gone, branch>>
        /\ Aside
    BY DEF ArchiveStop, Aside, download, others, hot
  <1>2. now' \in Nat /\ now' >= now
    BY <1>1, ClockGoesOn
  <1>3. /\ issued' \in [Kinds -> Nat]
        /\ issued'["entity"] >= issued["entity"] /\ issued'["fact"] >= issued["fact"]
    BY <1>1, IssuedStays
  <1>4. BranchStep
    BY <1>1, <1>3, BranchStays
  <1>5. UpStep
    BY <1>1, UpStays
  <1>6. WaitingStep
    BY <1>1 DEF WaitingStep
  <1>7. ColdStep
    BY <1>1 DEF ColdStep, Maybe, MemoryFine, CanonFine, CanonTypes, FactsAddressable
  <1>8. QED BY <1>1, <1>2, <1>3, <1>4, <1>5, <1>6, <1>7 DEF WriteStep, Aside

(* The store of an agent, when it forks and when it writes.                *)
AgentFine(a, last) ==
  /\ a \in Agents
  /\ \A f \in Facts(a.store) : f <= last
  /\ RelationsDistinct(a.store)
  /\ \A w \in Wires(a.store, "entity") : Behind(w, a.since)
  /\ ScannedAll(a.store, a.since)

(* A step that writes the agent's store and no other.                      *)
LEMMA AgentWrites ==
  ASSUME MemoryFine, AgentFine(agent', issued'["fact"]), now' \in {now, now + 1},
         issued' \in [Kinds -> Nat],
         issued'["entity"] >= issued["entity"], issued'["fact"] >= issued["fact"],
         UNCHANGED <<up, late, segments, merge, local>>
  PROVE  WriteStep
  <1>1. now' \in Nat /\ now' >= now
    BY ClockGoesOn
  <1>2. UNCHANGED <<gone, cold, moving, kept, waiting>> /\ Aside
    BY DEF local, download, Aside
  <1>3. UpStep /\ ColdStep /\ WaitingStep
    BY <1>2, CanonStays
  <1>4. BranchStep
    <2>1. BranchFine /\ issued["fact"] \in Nat /\ issued'["fact"] \in Nat
      BY StampsTyped DEF MemoryFine, Kinds
    <2>2. \A i \in DOMAIN segments : AllIssued(segments[i], issued'["fact"])
      <3>1. SUFFICES ASSUME NEW i \in DOMAIN segments
                     PROVE  AllIssued(segments[i], issued'["fact"])
        OBVIOUS
      <3>2. segments[i] \in Seq(FactWires) /\ AllIssued(segments[i], issued["fact"])
        BY <2>1 DEF BranchFine
      <3>3. QED BY <2>1, <3>2, AllIssuedLater
    <2>3. MergeFine' /\ Held' = Held
      BY MergeStays
    <2>4. BranchFine'
      BY <2>1, <2>2, <2>3 DEF BranchFine, AgentFine
    <2>5. QED BY <2>3, <2>4 DEF BranchStep
  <1>5. QED BY <1>1, <1>2, <1>3, <1>4 DEF WriteStep, Aside

(* A branch starts as a copy with a drained cursor.                        *)
LEMMA ForkWrites ==
  ASSUME MemoryFine, Fork
  PROVE  WriteStep
  <1> DEFINE c == DrainedCursor(up)
  <1>1. /\ now' \in {now, now + 1}
        /\ agent' = [store |-> up, since |-> c]
        /\ UNCHANGED <<up, late, issued, segments, merge, local>>
    BY DEF Fork, Writing
  <1>2. /\ issued' \in [Kinds -> Nat]
        /\ issued'["entity"] >= issued["entity"] /\ issued'["fact"] >= issued["fact"]
    BY <1>1, IssuedStays
  <1>3. c \in Cursors /\ Drained(up, c)
    BY CanonFacts, DrainedCursorDrains
  <1> HIDE DEF c
  <1>4. \A f \in Facts(up) : f <= issued'["fact"]
    BY <1>1 DEF MemoryFine, CanonFine
  <1>5. (\A w \in Wires(up, "entity") : Behind(w, c)) /\ ScannedAll(up, c)
    BY <1>3 DEF Drained, AllWires
  <1>6. agent'.store = up /\ agent'.since = c /\ agent' \in Agents
    BY <1>1, <1>3, CanonFacts DEF Agents
  <1>7. AgentFine(agent', issued'["fact"])
    BY <1>4, <1>5, <1>6, CanonFacts DEF AgentFine
  <1>8. QED BY <1>1, <1>2, <1>7, AgentWrites

(* An agent's write of one fact.                                           *)
LEMMA AgentKeeps ==
  ASSUME MemoryFine, agent # Nil, NEW new \in Stores, new.entities = agent.store.entities,
         new.relations = agent.store.relations, NEW last \in Nat, last >= issued["fact"],
         \A f \in Facts(new) : f \in Facts(agent.store) \/ f <= last
  PROVE  AgentFine([agent EXCEPT !.store = new], last)
  <1> DEFINE a == [agent EXCEPT !.store = new]
  <1>1. /\ agent \in Agents
        /\ \A f \in Facts(agent.store) : f <= issued["fact"]
        /\ RelationsDistinct(agent.store)
        /\ \A w \in Wires(agent.store, "entity") : Behind(w, agent.since)
        /\ ScannedAll(agent.store, agent.since)
    BY DEF MemoryFine, BranchFine
  <1>2. a.store = new /\ a.since = agent.since /\ a \in Agents
    BY <1>1 DEF Agents
  <1> HIDE DEF a
  <1>3. \A f \in Facts(new) : f <= last
    <2>1. SUFFICES ASSUME NEW f \in Facts(new) PROVE f <= last
      OBVIOUS
    <2>2. f \in Nat /\ issued["fact"] \in Nat
      BY IdsAssumption, StampsTyped DEF Facts
    <2>3. QED BY <1>1, <2>2
  <1>4. Wires(new, "entity") = Wires(agent.store, "entity")
    BY DEF Wires
  <1>5. RelationsDistinct(new)
    BY <1>1 DEF RelationsDistinct
  <1>6. ScannedAll(new, agent.since)
    BY <1>1 DEF ScannedAll, Generation
  <1>7. AgentFine(a, last)
    BY <1>1, <1>2, <1>3, <1>4, <1>5, <1>6 DEF AgentFine
  <1>8. QED BY <1>7 DEF a

(* An agent's fact_add is a write.                                         *)
LEMMA BranchFactAddWrites ==
  ASSUME MemoryFine, NEW f \in FactIds, NEW c \in Contents, BranchFactAdd(f, c)
  PROVE  WriteStep
  <1> DEFINE s == agent.store
  <1> DEFINE r == NewFact(c, {}, now')
  <1> DEFINE new == InsertFact(s, f, r)
  <1>1. /\ now' \in {now, now + 1}
        /\ agent # Nil /\ Holding(s, c) = {}
        /\ Fresh("fact", f)
        /\ agent' = [agent EXCEPT !.store = new]
        /\ UNCHANGED <<up, late, segments, merge, local>>
    BY DEF BranchFactAdd, Writing
  <1>2. /\ issued' \in [Kinds -> Nat]
        /\ issued'["entity"] >= issued["entity"] /\ issued'["fact"] >= issued["fact"]
        /\ f > issued["fact"] /\ f = issued'["fact"]
    BY <1>1, IssuedFresh DEF Kinds
  <1>3. now' \in Nat
    BY <1>1, ClockGoesOn
  <1>4. r \in FactRecords /\ r.content = c
    BY <1>3 DEF NewFact, FactRecords, Maybe
  <1>5. s \in Stores /\ \A g \in Facts(s) : g <= issued["fact"]
    BY <1>1 DEF MemoryFine, BranchFine, Agents
  <1>6. f \notin Facts(s) /\ f <= issued'["fact"]
    <2>1. f \in Nat /\ issued["fact"] \in Nat
      BY IdsAssumption, StampsTyped
    <2>2. QED BY <1>2, <1>5, <2>1
  <1> HIDE DEF r
  <1>7. /\ new \in Stores
        /\ new.entities = s.entities
        /\ new.relations = s.relations
        /\ Facts(new) = Facts(s) \cup {f}
    BY <1>1, <1>4, <1>5, <1>6, InsertFactAgrees
  <1> HIDE DEF new
  <1>8. AgentFine([agent EXCEPT !.store = new], issued'["fact"])
    <2>1. issued'["fact"] \in Nat
      BY <1>2 DEF Kinds
    <2>2. QED BY <1>1, <1>2, <1>6, <1>7, <2>1, AgentKeeps
  <1>9. QED BY <1>1, <1>2, <1>8, AgentWrites

(* An agent's fact_update is a write.                                      *)
LEMMA BranchFactUpdateWrites ==
  ASSUME MemoryFine, NEW f \in FactIds, NEW c \in Contents, BranchFactUpdate(f, c)
  PROVE  WriteStep
  <1> DEFINE s == agent.store
  <1> DEFINE r == [s.facts[f] EXCEPT !.content = c, !.at = now']
  <1> DEFINE new == UpdateFact(s, f, r)
  <1>1. /\ now' \in {now, now + 1}
        /\ agent # Nil /\ f \in Facts(s) /\ ContentFree(s, f, c)
        /\ agent' = [agent EXCEPT !.store = new]
        /\ UNCHANGED <<up, late, issued, segments, merge, local>>
    BY DEF BranchFactUpdate, Writing
  <1>2. /\ issued' \in [Kinds -> Nat]
        /\ issued'["entity"] >= issued["entity"] /\ issued'["fact"] >= issued["fact"]
    BY <1>1, IssuedStays
  <1>3. now' \in Nat
    BY <1>1, ClockGoesOn
  <1>4. s \in Stores /\ s.facts[f] \in FactRecords
    <2>1. s \in Stores
      BY <1>1 DEF MemoryFine, BranchFine, Agents
    <2>2. QED BY <1>1, <2>1, StoreTypes
  <1>5. r \in FactRecords /\ r.links = s.facts[f].links /\ r.content = c
    <2> DEFINE old == s.facts[f]
    <2> DEFINE t == now'
    <2>1. old \in FactRecords /\ t \in Nat
      BY <1>3, <1>4
    <2> HIDE DEF old, t
    <2>2. /\ [old EXCEPT !.content = c, !.at = t] \in FactRecords
          /\ [old EXCEPT !.content = c, !.at = t].links = old.links
          /\ [old EXCEPT !.content = c, !.at = t].content = c
      BY <2>1 DEF FactRecords
    <2>3. QED BY <2>2 DEF old, t
  <1> HIDE DEF r
  <1>6. /\ new \in Stores
        /\ new.entities = s.entities
        /\ new.relations = s.relations
        /\ Facts(new) = Facts(s)
    BY <1>1, <1>4, <1>5, UpdateFactAgrees
  <1> HIDE DEF new
  <1>7. AgentFine([agent EXCEPT !.store = new], issued'["fact"])
    <2>1. issued'["fact"] \in Nat
      BY <1>2 DEF Kinds
    <2>2. QED BY <1>1, <1>2, <1>6, <2>1, AgentKeeps
  <1>8. QED BY <1>1, <1>2, <1>7, AgentWrites

(* A push exports facts only: the entities were drained.                   *)
LEMMA PushWrites ==
  ASSUME MemoryFine, Push
  PROVE  WriteStep
  <1> DEFINE s == agent.store
  <1> DEFINE records == Export(s, agent.since, Unlimited).records
  <1>1. /\ now' \in {now, now + 1}
        /\ agent # Nil
        /\ segments' = Append(segments, records)
        /\ UNCHANGED <<up, late, issued, agent, merge, local>>
    BY DEF Push, Writing
  <1>2. /\ issued' \in [Kinds -> Nat]
        /\ issued'["entity"] >= issued["entity"] /\ issued'["fact"] >= issued["fact"]
    BY <1>1, IssuedStays
  <1>3. now' \in Nat /\ now' >= now
    BY <1>1, ClockGoesOn
  <1>4. UNCHANGED <<gone, cold, moving, kept, waiting>> /\ Aside
    BY <1>1 DEF local, download, Aside
  <1>5. UpStep /\ ColdStep /\ WaitingStep
    BY <1>1, <1>4, CanonStays
  <1>6. /\ s \in Stores /\ agent.since \in Cursors
        /\ \A f \in Facts(s) : f <= issued["fact"]
        /\ RelationsDistinct(s)
        /\ \A w \in Wires(s, "entity") : Behind(w, agent.since)
        /\ ScannedAll(s, agent.since)
    BY <1>1 DEF MemoryFine, BranchFine, Agents
  <1>7. Unlimited \in Nat
    BY LimitIsEnough
  <1>8. /\ records \in Seq(FactWires)
        /\ \A w \in Range(records) :
             w \in AllWires(s) \/ (w \in RelationWires /\ w.record \in s.relations)
    BY <1>6, <1>7, ExportSends
  <1> HIDE DEF records
  <1>9. AllIssued(records, issued["fact"])
    <2>1. SUFFICES ASSUME NEW w \in Range(records) PROVE w.id <= issued["fact"]
      BY DEF AllIssued
    <2>2. w \in FactWires
      BY <1>8, RecordsOf
    <2>3. w \in AllWires(s)
      BY <1>8, <2>2, WireTypes
    <2>4. s.facts[w.id] = w.record
      BY <1>6, <2>2, <2>3, WiresOfStore, WireTypes
    <2>5. w.id \in Facts(s)
      BY <2>2, <2>4, WireTypes, NilIsNoRecord DEF Facts
    <2>6. QED BY <1>6, <2>5
  <1>10. BranchStep
    <2>1. BranchFine
      BY DEF MemoryFine
    <2>2. segments \in Seq(Seq(FactWires))
      BY <2>1 DEF BranchFine
    <2>3. segments' \in Seq(Seq(FactWires))
      BY <1>1, <1>8, <2>2
    <2>4. \A i \in DOMAIN segments' : AllIssued(segments'[i], issued["fact"])
      <3>1. SUFFICES ASSUME NEW i \in DOMAIN segments'
                     PROVE  AllIssued(segments'[i], issued["fact"])
        OBVIOUS
      <3>2. \/ i \in DOMAIN segments /\ segments'[i] = segments[i]
            \/ segments'[i] = records
        BY <1>1, <1>8, <2>2
      <3>3. QED BY <1>9, <2>1, <3>2 DEF BranchFine
    <2>5. UNCHANGED <<agent, issued>>
      BY <1>1
    <2>6. MergeFine' /\ Held' = Held
      BY <1>1, <1>2, MergeStays
    <2>7. BranchFine'
      BY <2>1, <2>3, <2>4, <2>5, <2>6 DEF BranchFine
    <2>8. QED BY <2>6, <2>7 DEF BranchStep
  <1>11. QED BY <1>1, <1>2, <1>3, <1>4, <1>5, <1>10 DEF WriteStep, Aside

(* What a page or a merge reads: each entity as it was listed, or as it is *)
(* now.                                                                    *)
LEMMA ReadingTypes ==
  ASSUME MemoryFine, NEW listed, listed = Nil \/ listed \in Listings,
         NEW read \in Readings(listed)
  PROVE  /\ read \in Listings
         /\ ReadStore(read) \in Stores
         /\ ReadStore(read).entities = read
         /\ ReadStore(read).facts = up.facts
         /\ ReadStore(read).relations = up.relations
         /\ RelationsDistinct(ReadStore(read))
         /\ \A e \in EntityIds : \/ read[e] = up.entities[e]
                                 \/ listed # Nil /\ read[e] = listed[e]
  <1>1. up \in Stores /\ up.entities \in Listings
    BY CanonFacts, StoreTypes DEF Listings
  <1>2. /\ read \in Listings
        /\ \A e \in EntityIds : read[e] = up.entities[e] \/ (listed # Nil /\ read[e] = listed[e])
    <2>1. CASE listed = Nil
      BY <1>1, <2>1 DEF Readings
    <2>2. CASE listed # Nil
      <3>1. PICK old \in SUBSET EntityIds :
              read = [e \in EntityIds |->
                        IF listed[e] = Nil \/ e \in old THEN listed[e] ELSE up.entities[e]]
        BY <2>2 DEF Readings
      <3>2. QED BY <1>1, <2>2, <3>1 DEF Listings
    <2>3. QED BY <2>1, <2>2
  <1> DEFINE s == [up EXCEPT !.entities = read]
  <1>3. /\ s \in Stores /\ s.entities = read /\ s.facts = up.facts
        /\ s.relations = up.relations
    BY <1>1, <1>2 DEF Stores, Listings
  <1>4. RelationsDistinct(s)
    BY <1>3, CanonFacts DEF RelationsDistinct
  <1>5. QED BY <1>2, <1>3, <1>4 DEF ReadStore

(* A step of a merge that leaves the store.                                *)
LEMMA MergeMoves ==
  ASSUME MemoryFine, now' \in {now, now + 1}, MergeFine',
         Held' \subseteq Held \cup Entities(up),
         UNCHANGED <<up, late, issued, agent, segments, local>>
  PROVE  WriteStep
  <1>1. /\ issued' \in [Kinds -> Nat]
        /\ issued'["entity"] >= issued["entity"] /\ issued'["fact"] >= issued["fact"]
    BY IssuedStays
  <1>2. now' \in Nat /\ now' >= now
    BY ClockGoesOn
  <1>3. UNCHANGED <<gone, cold, moving, kept, waiting>> /\ Aside
    BY DEF local, download, Aside
  <1>4. UpStep /\ ColdStep /\ WaitingStep
    BY <1>3, CanonStays
  <1>5. BranchStep
    BY DEF MemoryFine, BranchFine, BranchStep
  <1>6. QED BY <1>1, <1>2, <1>3, <1>4, <1>5 DEF WriteStep, Aside

(* A merge begins with a listing of the entities.                          *)
LEMMA MergeBeginWrites ==
  ASSUME MemoryFine, MergeBegin
  PROVE  WriteStep
  <1>1. /\ now' \in {now, now + 1}
        /\ merge' = [listed |-> up.entities, before |-> Nil, left |-> segments,
                     todo |-> {}]
        /\ UNCHANGED <<up, late, issued, agent, segments, local>>
    BY DEF MergeBegin, Writing
  <1>2. up.entities \in Listings
    BY CanonFacts, StoreTypes DEF Listings
  <1>3. BranchFine
    BY DEF MemoryFine
  <1>4. /\ merge'.before = Nil /\ merge'.left = segments /\ merge'.todo = {}
        /\ merge'.listed = up.entities
    BY <1>1
  <1>5. merge' \in Merges
    BY <1>1, <1>2, <1>3 DEF Merges, Maybe, BranchFine
  <1>6. MergeFine'
    BY <1>1, <1>3, <1>4, <1>5 DEF MergeFine, BranchFine
  <1>7. Held' \subseteq Entities(up)
    BY <1>4 DEF Held, Entities
  <1>8. QED BY <1>1, <1>6, <1>7, MergeMoves

(* It lists them again after its segments.                                 *)
LEMMA MergeListWrites ==
  ASSUME MemoryFine, MergeList
  PROVE  WriteStep
  <1>1. /\ merge # Nil
        /\ merge' = [merge EXCEPT !.listed = up.entities]
        /\ UNCHANGED <<up, late, now, issued, agent, segments, local>>
    BY DEF MergeList
  <1>2. up.entities \in Listings
    BY CanonFacts, StoreTypes DEF Listings
  <1>3. MergeFine /\ merge \in Merges
    BY <1>1 DEF MemoryFine, BranchFine, MergeFine
  <1>4. /\ merge'.before = merge.before /\ merge'.left = merge.left
        /\ merge'.todo = merge.todo /\ merge'.listed = up.entities
        /\ merge' \in Merges
    BY <1>1, <1>2, <1>3 DEF Merges, Maybe
  <1>5. MergeFine'
    BY <1>1, <1>3, <1>4 DEF MergeFine
  <1>6. Held' \subseteq Held \cup Entities(up)
    BY <1>1, <1>4 DEF Held, Entities
  <1>7. QED BY <1>1, <1>5, <1>6, MergeMoves

(* A merge that ends holds nothing.                                        *)
LEMMA MergeEnds ==
  ASSUME MemoryFine, merge' = Nil, now' \in {now, now + 1},
         UNCHANGED <<up, late, issued, agent, segments, local>>
  PROVE  WriteStep
  <1>1. MergeFine' /\ Held' = {}
    BY DEF MergeFine, Held
  <1>2. QED BY <1>1, MergeMoves

(* What a merge reads are records, finitely many, of ids that are issued.  *)
LEMMA MergeReads ==
  ASSUME MemoryFine, merge # Nil, merge.listed # Nil, NEW read \in Readings(merge.listed)
  PROVE  LET after == AllWires(ReadStore(read))
         IN  /\ after \in SUBSET (EntityWires \cup FactWires)
             /\ IsFiniteSet(after)
             /\ \A w \in after \cap FactWires : w.id <= issued["fact"]
             /\ \A w \in after \cap EntityWires : w.id \in Held \cup Entities(up)
  <1> DEFINE s == ReadStore(read)
  <1>1. merge.listed \in Listings
    BY DEF MemoryFine, BranchFine, MergeFine, Merges, Maybe
  <1>2. /\ s \in Stores /\ s.entities = read /\ s.facts = up.facts
        /\ \A e \in EntityIds : read[e] = up.entities[e] \/ read[e] = merge.listed[e]
    BY <1>1, ReadingTypes
  <1> HIDE DEF s
  <1>3. AllWires(s) \in SUBSET (EntityWires \cup FactWires)
    BY <1>2, WiresOfStore
  <1>4. IsFiniteSet(AllWires(s))
    BY <1>2, WiresFinite, FS_Union DEF AllWires, Kinds
  <1>5. ASSUME NEW w \in AllWires(s) \cap FactWires
        PROVE  w.id <= issued["fact"]
    <2>1. up.facts[w.id] = w.record
      BY <1>2, WiresOfStore, WireTypes
    <2>2. w.id \in Facts(up)
      BY <2>1, WireTypes, NilIsNoRecord DEF Facts
    <2>3. QED BY <2>2 DEF MemoryFine, CanonFine
  <1>6. ASSUME NEW w \in AllWires(s) \cap EntityWires
        PROVE  w.id \in Held \cup Entities(up)
    <2>1. read[w.id] = w.record /\ w.id \in EntityIds /\ w.record # Nil
      BY <1>2, WiresOfStore, WireTypes, NilIsNoRecord
    <2>2. CASE read[w.id] = up.entities[w.id]
      BY <2>1, <2>2 DEF Entities
    <2>3. CASE read[w.id] = merge.listed[w.id]
      BY <2>1, <2>3 DEF Held
    <2>4. QED BY <1>2, <2>1, <2>2, <2>3
  <1>7. QED BY <1>3, <1>4, <1>5, <1>6 DEF s

(* The first reading of a merge.                                           *)
LEMMA MergeFoundWrites ==
  ASSUME MemoryFine, merge # Nil, merge.listed # Nil,
         NEW read \in Readings(merge.listed), MergeFound(read)
  PROVE  WriteStep
  <1> DEFINE after == AllWires(ReadStore(read))
  <1>1. /\ merge' = [merge EXCEPT !.listed = Nil, !.before = after]
        /\ UNCHANGED <<up, late, now, issued, agent, segments, local>>
    BY DEF MergeFound
  <1>2. after \in SUBSET (EntityWires \cup FactWires) /\ IsFiniteSet(after)
    BY MergeReads
  <1> HIDE DEF after
  <1>3. MergeFine /\ merge \in Merges
    BY DEF MemoryFine, BranchFine, MergeFine
  <1>4. /\ merge'.before = after /\ merge'.left = merge.left
        /\ merge'.todo = merge.todo /\ merge'.listed = Nil
        /\ merge' \in Merges
    BY <1>1, <1>2, <1>3 DEF Merges, Maybe
  <1>5. MergeFine'
    BY <1>1, <1>2, <1>3, <1>4 DEF MergeFine
  <1>6. Held' \subseteq Held
    BY <1>4 DEF Held
  <1>7. QED BY <1>1, <1>5, <1>6, MergeMoves

(* A merge leaves the entities and adds no relation.                       *)
LEMMA SegmentImported ==
  ASSUME NEW s \in Stores, NEW records \in Seq(FactWires), NEW failed, NEW last,
         AllIssued(records, last)
  PROVE  LET new == Import(s, records, failed).store
         IN  /\ new \in Stores
             /\ new.entities = s.entities
             /\ new.relations \subseteq s.relations
             /\ Facts(s) \subseteq Facts(new)
             /\ \A f \in Facts(new) : f \in Facts(s) \/ f <= last
             /\ NamesAgree(s) => NamesAgree(new)
             /\ ContentsDistinct(s) => ContentsDistinct(new)
             /\ \A deleted : LinksAgree(s, deleted) => LinksAgree(new, deleted)
  <1> DEFINE new == Import(s, records, failed).store
  <1> DEFINE W == Range(records)
  <1>1. records \in Seq(WireSet)
    BY DEF WireSet
  <1>2. W \in SUBSET FactWires
    BY RecordsOf
  <1>3. W \cap RelationWires = {} /\ W \cap EntityWires = {}
    BY <1>2, WireTypes
  <1>4. DistinctRelations(W)
    BY <1>3 DEF DistinctRelations
  <1>5. Absorbs(s, new, W)
    BY <1>1, <1>4, ImportKeeps
  <1> HIDE DEF new
  <1>6. new \in Stores
    BY <1>5 DEF Absorbs
  <1>7. \A f \in Facts(new) : f \in Facts(s) \/ f <= last
    <2>1. SUFFICES ASSUME NEW f \in Facts(new) PROVE f \in Facts(s) \/ f <= last
      OBVIOUS
    <2> DEFINE w == [kind |-> "fact", id |-> f, record |-> new.facts[f]]
    <2>2. f \in FactIds /\ new.facts[f] \in FactRecords
      BY <1>6, StoreTypes
    <2>3. w \in FactWires /\ w.id = f /\ w.record = new.facts[f]
      BY <2>2 DEF FactWires
    <2> HIDE DEF w
    <2>4. w \in AllWires(new)
      BY <1>6, <2>3, WiresOfStore
    <2>5. CASE w \in AllWires(s)
      <3>1. s.facts[f] = w.record
        BY <2>3, <2>5, WiresOfStore, WireTypes
      <3>2. QED BY <2>2, <2>3, <3>1, NilIsNoRecord DEF Facts
    <2>6. CASE w \in W
      BY <2>3, <2>6 DEF AllIssued
    <2>7. QED BY <1>5, <2>4, <2>5, <2>6 DEF Absorbs
  <1>8. new.entities = s.entities /\ new.relations \subseteq s.relations
    BY <1>3, <1>5 DEF Absorbs
  <1>9. /\ Facts(s) \subseteq Facts(new)
        /\ NamesAgree(s) => NamesAgree(new)
        /\ ContentsDistinct(s) => ContentsDistinct(new)
        /\ \A deleted : LinksAgree(s, deleted) => LinksAgree(new, deleted)
    BY <1>5 DEF Absorbs
  <1>10. QED BY <1>6, <1>7, <1>8, <1>9 DEF new

(* A merge imports one segment, or part of it.                             *)
LEMMA MergeSegmentWrites ==
  ASSUME MemoryFine, NEW failed, MergeSegment(failed)
  PROVE  WriteStep
  <1> DEFINE records == Head(merge.left)
  <1> DEFINE new == Import(up, records, failed).store
  <1>1. /\ merge # Nil /\ merge.left # <<>>
        /\ Commit(new)
        /\ merge' = [merge EXCEPT !.left = Tail(merge.left)]
        /\ UNCHANGED <<now, issued, agent, segments, local>>
    BY DEF MergeSegment
  <1>2. /\ issued' \in [Kinds -> Nat]
        /\ issued'["entity"] >= issued["entity"] /\ issued'["fact"] >= issued["fact"]
    BY <1>1, IssuedStays
  <1>3. now' \in Nat /\ now' >= now
    BY <1>1, ClockGoesOn
  <1>4. UNCHANGED <<gone, cold, moving, kept, waiting>> /\ Aside
    BY <1>1 DEF local, download, Aside
  <1>5. /\ BranchFine /\ MergeFine
        /\ merge \in Merges /\ merge.left \in Seq(Seq(FactWires))
        /\ \A i \in DOMAIN merge.left : AllIssued(merge.left[i], issued["fact"])
    BY <1>1 DEF MemoryFine, BranchFine, MergeFine, Merges
  <1>6. records \in Seq(FactWires) /\ AllIssued(records, issued["fact"])
    BY <1>1, <1>5
  <1> HIDE DEF records
  <1>7. /\ new \in Stores
        /\ new.entities = up.entities
        /\ new.relations \subseteq up.relations
        /\ Facts(up) \subseteq Facts(new)
        /\ \A f \in Facts(new) : f \in Facts(up) \/ f <= issued["fact"]
        /\ NamesAgree(new) /\ ContentsDistinct(new) /\ LinksAgree(new, gone)
    BY <1>6, CanonFacts, SegmentImported
  <1>8. up' = new
    BY <1>1 DEF Commit
  <1> HIDE DEF new
  <1>9. RelationsDistinct(new)
    BY <1>7, CanonFacts DEF RelationsDistinct
  <1>10. UpStep /\ Entities(up') = Entities(up)
    BY <1>1, <1>4, <1>7, <1>9, UpWritten
  <1>11. ColdStep
    BY <1>4, <1>7, <1>8, ColdStays, CanonFacts
  <1>12. WaitingStep
    BY <1>4, <1>10 DEF WaitingStep
  <1>13. BranchStep
    <2> DEFINE rest == Tail(merge.left)
    <2>1. rest \in Seq(Seq(FactWires))
      BY <1>1, <1>5
    <2>2. \A i \in DOMAIN rest : AllIssued(rest[i], issued["fact"])
      <3>1. SUFFICES ASSUME NEW i \in DOMAIN rest PROVE AllIssued(rest[i], issued["fact"])
        OBVIOUS
      <3>2. i + 1 \in DOMAIN merge.left /\ rest[i] = merge.left[i + 1]
        BY <1>1, <1>5
      <3>3. QED BY <1>5, <3>2
    <2>3. merge' = [merge EXCEPT !.left = rest]
      BY <1>1
    <2> HIDE DEF rest
    <2>4. /\ merge'.before = merge.before /\ merge'.left = rest
          /\ merge'.todo = merge.todo /\ merge'.listed = merge.listed
          /\ merge' \in Merges
      BY <1>5, <2>1, <2>3 DEF Merges
    <2>5. UNCHANGED <<agent, segments, issued>>
      BY <1>1
    <2>6. MergeFine' /\ Held' \subseteq Held
      BY <1>1, <1>5, <2>2, <2>4, <2>5 DEF MergeFine, Held
    <2>7. BranchFine'
      BY <1>5, <2>5, <2>6 DEF BranchFine
    <2>8. QED BY <2>6, <2>7 DEF BranchStep
  <1>14. QED BY <1>1, <1>2, <1>3, <1>4, <1>10, <1>11, <1>12, <1>13 DEF WriteStep, Aside

(* The newest stamp of records is a number.                                *)
LEMMA NewestTypes ==
  ASSUME NEW W \in SUBSET (EntityWires \cup FactWires), IsFiniteSet(W)
  PROVE  Newest(W) \in Nat
  <1> DEFINE Stamps == {w.record.at : w \in W}
  <1>1. \A w \in W : w.record.at \in Nat
    BY WireTypes
  <1>2. IsFiniteSet(Stamps)
    <2> DEFINE at == [w \in W |-> w.record.at]
    <2>1. at \in Surjection(W, Stamps)
      <3>1. at \in [W -> Stamps]
        OBVIOUS
      <3>2. \A n \in Stamps : \E w \in W : at[w] = n
        OBVIOUS
      <3>3. QED BY <3>1, <3>2 DEF Surjection
    <2>2. QED BY <2>1, FS_Surjection
  <1>3. Stamps \cup {0} \in SUBSET Nat /\ IsFiniteSet(Stamps \cup {0})
    BY <1>1, <1>2, FS_AddElement
  <1>4. Newest(W) = Max(Stamps \cup {0})
    BY DEF Newest
  <1> HIDE DEF Stamps
  <1>5. Max(Stamps \cup {0}) \in Stamps \cup {0}
    BY <1>3, GreatestIsMax
  <1>6. QED BY <1>3, <1>4, <1>5

(* A record that travels, under another stamp.                             *)
LEMMA RestampedWires ==
  ASSUME NEW t \in Nat
  PROVE  /\ \A w \in EntityWires : Restamped(w, t) \in EntityWires /\ Restamped(w, t).id = w.id
         /\ \A w \in FactWires : Restamped(w, t) \in FactWires /\ Restamped(w, t).id = w.id
  <1>1. ASSUME NEW w \in EntityWires
        PROVE  Restamped(w, t) \in EntityWires /\ Restamped(w, t).id = w.id
    <2> DEFINE r == [w.record EXCEPT !.at = t]
    <2>1. r \in EntityRecords
      BY WireTypes, RestampedTypes
    <2>2. Restamped(w, t) = [w EXCEPT !.record = r]
      BY DEF Restamped
    <2> HIDE DEF r
    <2>3. QED BY <2>1, <2>2 DEF EntityWires
  <1>2. ASSUME NEW w \in FactWires
        PROVE  Restamped(w, t) \in FactWires /\ Restamped(w, t).id = w.id
    <2> DEFINE r == [w.record EXCEPT !.at = t]
    <2>1. r \in FactRecords
      BY WireTypes, RestampedTypes
    <2>2. Restamped(w, t) = [w EXCEPT !.record = r]
      BY DEF Restamped
    <2> HIDE DEF r
    <2>3. QED BY <2>1, <2>2 DEF FactWires
  <1>3. QED BY <1>1, <1>2

(* The second reading of a merge, and the records that it is to write.     *)
LEMMA MergeChangedWrites ==
  ASSUME MemoryFine, merge # Nil, merge.listed # Nil,
         NEW read \in Readings(merge.listed), MergeChanged(read)
  PROVE  WriteStep
  <1> DEFINE after == AllWires(ReadStore(read))
  <1> DEFINE changed == after \ merge.before
  <1> DEFINE stamp == Larger(Newest(merge.before \cup after) + 1, now')
  <1> DEFINE todo == {Restamped(w, stamp) : w \in changed}
  <1>1. /\ merge.before # Nil
        /\ now' \in {now, now + 1}
        /\ merge' = IF changed = {} THEN Nil
                    ELSE [merge EXCEPT !.listed = Nil, !.todo = todo]
        /\ UNCHANGED <<up, late, issued, agent, segments, local>>
    BY DEF MergeChanged
  <1>2. /\ after \in SUBSET (EntityWires \cup FactWires)
        /\ IsFiniteSet(after)
        /\ \A w \in after \cap FactWires : w.id <= issued["fact"]
        /\ \A w \in after \cap EntityWires : w.id \in Held \cup Entities(up)
    BY MergeReads
  <1> HIDE DEF after
  <1>3. MergeFine /\ merge \in Merges
    BY DEF MemoryFine, BranchFine, MergeFine
  <1>4. merge.before \in SUBSET (EntityWires \cup FactWires) /\ IsFiniteSet(merge.before)
    BY <1>1, <1>3 DEF MergeFine, Merges, Maybe
  <1>5. Newest(merge.before \cup after) \in Nat
    BY <1>2, <1>4, FS_Union, NewestTypes
  <1>6. stamp \in Nat
    BY <1>1, <1>5, ClockGoesOn DEF Larger
  <1> HIDE DEF stamp
  <1>7. /\ todo \in SUBSET (EntityWires \cup FactWires)
        /\ \A w \in todo \cap FactWires : w.id <= issued["fact"]
        /\ \A w \in todo \cap EntityWires : w.id \in Held \cup Entities(up)
    <2>1. SUFFICES ASSUME NEW w \in changed
                   PROVE  LET v == Restamped(w, stamp)
                          IN  /\ v \in EntityWires \cup FactWires
                              /\ v \in FactWires => v.id <= issued["fact"]
                              /\ v \in EntityWires => v.id \in Held \cup Entities(up)
      OBVIOUS
    <2> DEFINE v == Restamped(w, stamp)
    <2>2. CASE w \in EntityWires
      <3>1. v \in EntityWires /\ v.id = w.id
        BY <1>6, <2>2, RestampedWires
      <3> HIDE DEF v
      <3>2. v \notin FactWires
        BY <3>1, WireTypes
      <3>3. QED BY <1>2, <2>1, <2>2, <3>1, <3>2 DEF v
    <2>3. CASE w \in FactWires
      <3>1. v \in FactWires /\ v.id = w.id
        BY <1>6, <2>3, RestampedWires
      <3> HIDE DEF v
      <3>2. v \notin EntityWires
        BY <3>1, WireTypes
      <3>3. QED BY <1>2, <2>1, <2>3, <3>1, <3>2 DEF v
    <2>4. QED BY <1>2, <2>1, <2>2, <2>3
  <1> HIDE DEF todo
  <1>8. CASE changed = {}
    BY <1>1, <1>8, MergeEnds
  <1>9. CASE changed # {}
    <2>1. merge' = [merge EXCEPT !.listed = Nil, !.todo = todo]
      BY <1>1, <1>9
    <2>2. /\ merge'.before = merge.before /\ merge'.left = merge.left
          /\ merge'.todo = todo /\ merge'.listed = Nil
          /\ merge' \in Merges
      BY <1>3, <1>7, <2>1 DEF Merges, Maybe
    <2>3. MergeFine'
      BY <1>1, <1>3, <1>7, <2>2 DEF MergeFine
    <2>4. Held' \subseteq Held \cup Entities(up)
      BY <1>7, <2>2 DEF Held
    <2>5. QED BY <1>1, <2>3, <2>4, MergeMoves
  <1>10. QED BY <1>8, <1>9

(* A merge writes one record again.                                        *)
LEMMA MergeUpsertWrites ==
  ASSUME MemoryFine, NEW w, MergeUpsert(w)
  PROVE  WriteStep
  <1> DEFINE new == Upsert(up, w).store
  <1>1. /\ merge # Nil /\ w \in merge.todo
        /\ Commit(new)
        /\ merge' = Nil \/ merge' = [merge EXCEPT !.todo = merge.todo \ {w}]
        /\ UNCHANGED <<now, issued, agent, segments, local>>
    BY DEF MergeUpsert
  <1>2. /\ issued' \in [Kinds -> Nat]
        /\ issued'["entity"] >= issued["entity"] /\ issued'["fact"] >= issued["fact"]
    BY <1>1, IssuedStays
  <1>3. now' \in Nat /\ now' >= now
    BY <1>1, ClockGoesOn
  <1>4. UNCHANGED <<gone, cold, moving, kept, waiting>> /\ Aside
    BY <1>1 DEF local, download, Aside
  <1>5. BranchFine /\ MergeFine /\ merge \in Merges
    BY <1>1 DEF MemoryFine, BranchFine, MergeFine
  <1>6. /\ w \in EntityWires \cup FactWires
        /\ w \in FactWires => w.id <= issued["fact"]
        /\ w \in EntityWires => w.id \in Held
    BY <1>1, <1>5 DEF MergeFine, Merges, Held
  <1>7. w \in WireSet /\ w \notin RelationWires
    BY <1>6, WireTypes DEF WireSet
  <1>8. /\ new \in Stores
        /\ NamesAgree(new) /\ ContentsDistinct(new) /\ LinksAgree(new, gone)
        /\ Facts(up) \subseteq Facts(new)
        /\ \A v \in AllWires(new) : v \in AllWires(up) \/ v = w
        /\ new.relations = up.relations
    BY <1>7, CanonFacts, UpsertKeeps
  <1>9. up' = new
    BY <1>1 DEF Commit
  <1> HIDE DEF new
  <1>10. \A e \in Entities(new) : e \in Entities(up) \/ e \in Held
    <2>1. SUFFICES ASSUME NEW e \in Entities(new) PROVE e \in Entities(up) \cup Held
      OBVIOUS
    <2> DEFINE v == [kind |-> "entity", id |-> e, record |-> new.entities[e]]
    <2>2. e \in EntityIds /\ new.entities[e] \in EntityRecords
      BY <1>8, StoreTypes
    <2>3. v \in EntityWires /\ v.id = e /\ v.record = new.entities[e]
      BY <2>2 DEF EntityWires
    <2> HIDE DEF v
    <2>4. v \in AllWires(new)
      BY <1>8, <2>3, WiresOfStore
    <2>5. CASE v \in AllWires(up)
      <3>1. up.entities[e] = v.record
        BY <2>3, <2>5, CanonFacts, WiresOfStore, WireTypes
      <3>2. QED BY <2>2, <2>3, <3>1, NilIsNoRecord DEF Entities
    <2>6. CASE v = w
      BY <1>6, <2>3, <2>6
    <2>7. QED BY <1>8, <2>4, <2>5, <2>6
  <1>11. \A f \in Facts(new) : f \in Facts(up) \/ f <= issued["fact"]
    <2>1. SUFFICES ASSUME NEW f \in Facts(new)
                   PROVE  f \in Facts(up) \/ f <= issued["fact"]
      OBVIOUS
    <2> DEFINE v == [kind |-> "fact", id |-> f, record |-> new.facts[f]]
    <2>2. f \in FactIds /\ new.facts[f] \in FactRecords
      BY <1>8, StoreTypes
    <2>3. v \in FactWires /\ v.id = f /\ v.record = new.facts[f]
      BY <2>2 DEF FactWires
    <2> HIDE DEF v
    <2>4. v \in AllWires(new)
      BY <1>8, <2>3, WiresOfStore
    <2>5. CASE v \in AllWires(up)
      <3>1. up.facts[f] = v.record
        BY <2>3, <2>5, CanonFacts, WiresOfStore, WireTypes
      <3>2. QED BY <2>2, <2>3, <3>1, NilIsNoRecord DEF Facts
    <2>6. CASE v = w
      BY <1>6, <2>3, <2>6
    <2>7. QED BY <1>8, <2>4, <2>5, <2>6
  <1>12. UpStep
    <2>1. Commit(up') /\ up' \in Stores
      BY <1>1, <1>8, <1>9
    <2>2. Agrees(up', gone') /\ gone' \in SUBSET EntityIds /\ gone \subseteq gone'
      BY <1>4, <1>8, <1>9, CanonFacts DEF Agrees
    <2>3. RelationsDistinct(up') /\ up'.relations = up.relations
      BY <1>8, <1>9, CanonFacts DEF RelationsDistinct
    <2>4. \A f \in Facts(up') : f \in Facts(up) \/ f <= issued'["fact"]
      BY <1>1, <1>9, <1>11
    <2>5. \A e \in Entities(up') : e \in Entities(up) \/ e \in Held
      BY <1>9, <1>10
    <2>6. QED BY <2>1, <2>2, <2>3, <2>4, <2>5 DEF UpStep
  <1>13. ColdStep
    BY <1>4, <1>8, <1>9, ColdStays, CanonFacts
  <1>14. WaitingStep
    BY <1>4, <1>9, <1>10 DEF WaitingStep
  <1>15. MergeFine' /\ Held' \subseteq Held
    <2>1. CASE merge' = Nil
      BY <2>1 DEF MergeFine, Held
    <2>2. CASE merge' = [merge EXCEPT !.todo = merge.todo \ {w}]
      <3>1. /\ merge'.before = merge.before /\ merge'.left = merge.left
            /\ merge'.todo = merge.todo \ {w} /\ merge'.listed = merge.listed
            /\ merge' \in Merges
        BY <1>5, <2>2 DEF Merges
      <3>2. MergeFine'
        BY <1>1, <1>5, <3>1 DEF MergeFine
      <3>3. Held' \subseteq Held
        BY <1>1, <3>1 DEF Held
      <3>4. QED BY <3>2, <3>3
    <2>3. QED BY <1>1, <2>1, <2>2
  <1>16. BranchStep
    BY <1>1, <1>5, <1>15 DEF BranchFine, BranchStep
  <1>17. QED BY <1>1, <1>2, <1>3, <1>4, <1>12, <1>13, <1>14, <1>16 DEF WriteStep, Aside

(* Every step of a merge is a write, or leaves the store.                  *)
LEMMA MergeWrites ==
  ASSUME MemoryFine,
         \/ MergeBegin \/ MergeList \/ MergeCapture \/ MergeLost \/ MergeStop
         \/ merge # Nil /\ \E w \in merge.todo : MergeUpsert(w)
  PROVE  WriteStep
  <1>1. MergeBegin \/ MergeList => WriteStep
    BY MergeBeginWrites, MergeListWrites
  <1>2. ASSUME MergeCapture PROVE WriteStep
    <2>1. PICK read \in Readings(merge.listed) : MergeFound(read) \/ MergeChanged(read)
      BY <1>2 DEF MergeCapture
    <2>2. merge # Nil /\ merge.listed # Nil
      BY <1>2 DEF MergeCapture
    <2>3. QED BY <2>1, <2>2, MergeFoundWrites, MergeChangedWrites
  <1>3. ASSUME MergeLost \/ MergeStop PROVE WriteStep
    <2>1. /\ merge' = Nil
          /\ UNCHANGED <<now, up, late, issued, agent, segments, local>>
      BY <1>3 DEF MergeLost, MergeStop
    <2>2. QED BY <2>1, MergeEnds
  <1>4. (\E w \in merge.todo : MergeUpsert(w)) => WriteStep
    BY MergeUpsertWrites
  <1>5. QED BY <1>1, <1>2, <1>3, <1>4

-----------------------------------------------------------------------------
(* Pull-only sync.                                                         *)

(* A step of a pull leaves the canonical store as it is.                   *)
LEMMA CanonKept ==
  ASSUME MemoryFine, UNCHANGED canonical
  PROVE  CanonFine' /\ BranchFine'
  <1>1. /\ UNCHANGED <<scenario, up, cold, now, issued, waiting, moving, kept, gone>>
        /\ UNCHANGED branch
    BY DEF canonical
  <1>2. Held' = Held
    BY <1>1 DEF branch, Held
  <1>3. CanonFine'
    BY <1>1, <1>2 DEF MemoryFine, CanonFine, CanonTypes, HeldFine, FactsAddressable
  <1>4. BranchFine'
    BY <1>1, IssuedStays, BranchStays DEF BranchStep
  <1>5. QED BY <1>3, <1>4

(* A pull lists the entities first.                                        *)
LEMMA PullReadKeeps ==
  ASSUME MemoryFine, PullRead
  PROVE  MemoryFine'
  <1>1. /\ listing' = up.entities
        /\ UNCHANGED <<up, now, issued, waiting, gone, late, cache, cursor, pull, skipped>>
        /\ UNCHANGED canonical
    BY DEF PullRead, canonical
  <1>2. PullTypes'
    <2>1. up.entities \in Listings
      BY CanonFacts, StoreTypes DEF Listings
    <2>2. PullTypes
      BY DEF MemoryFine, PullFine
    <2>3. QED BY <1>1, <2>1, <2>2 DEF PullTypes
  <1>3. RecordsFine'
    BY <1>1 DEF MemoryFine, PullFine, RecordsFine, VersionsFine, RecordsCovered,
                PullCovered, Sent
  <1>4. RelationsFine' /\ ScansCovered'
    BY <1>1 DEF MemoryFine, PullFine, RelationsFine, ScansCovered, ScanCovered, Sent
  <1>5. Agrees(cache, gone)'
    BY <1>1 DEF MemoryFine, PullFine
  <1>6. QED BY <1>1, <1>2, <1>3, <1>4, <1>5, CanonKept DEF MemoryFine, PullFine

(* A record that a page did not read as it is, is an entity's.             *)
LEMMA ReadWires ==
  ASSUME MemoryFine, NEW read \in Readings(listing)
  PROVE  /\ \A w \in AllWires(up) :
              \/ w \in AllWires(ReadStore(read))
              \/ w \in Wires(up, "entity") /\ read[w.id] # w.record
         /\ \A w \in AllWires(up), v \in AllWires(ReadStore(read)) :
              Key(v) = Key(w) /\ v.record.at >= w.record.at =>
                \/ v = w
                \/ /\ w \in Wires(up, "entity") /\ read[w.id] # w.record
                   /\ Outdated(w, read)
  <1> DEFINE s == ReadStore(read)
  <1>1. /\ s \in Stores /\ s.entities = read /\ s.facts = up.facts
        /\ read \in Listings
    BY ReadingTypes DEF MemoryFine, PullFine, PullTypes
  <1> HIDE DEF s
  <1>2. up \in Stores
    BY CanonFacts
  <1>3. ASSUME NEW w \in AllWires(up)
        PROVE  w \in AllWires(s) \/ (w \in Wires(up, "entity") /\ read[w.id] # w.record)
    <2>1. CASE w \in FactWires /\ up.facts[w.id] = w.record
      BY <1>1, <2>1, WiresOfStore
    <2>2. CASE w \in EntityWires /\ up.entities[w.id] = w.record
      BY <1>1, <1>2, <2>2, WiresOfStore
    <2>3. QED BY <1>2, <2>1, <2>2, WiresOfStore
  <1>4. ASSUME NEW w \in AllWires(up), NEW v \in AllWires(s),
               Key(v) = Key(w), v.record.at >= w.record.at
        PROVE  \/ v = w
               \/ /\ w \in Wires(up, "entity") /\ read[w.id] # w.record
                  /\ Outdated(w, read)
    <2>1. v.kind = w.kind /\ v.id = w.id
      BY <1>4 DEF Key
    <2>2. CASE w \in FactWires /\ up.facts[w.id] = w.record
      <3>1. v \in FactWires /\ s.facts[v.id] = v.record
        BY <1>1, <2>1, <2>2, WiresOfStore, WireTypes
      <3>2. v.record = w.record
        BY <1>1, <2>1, <2>2, <3>1
      <3>3. QED BY <2>1, <2>2, <3>1, <3>2, WireTypes
    <2>3. CASE w \in EntityWires /\ up.entities[w.id] = w.record
      <3>1. v \in EntityWires /\ read[v.id] = v.record
        BY <1>1, <2>1, <2>3, WiresOfStore, WireTypes
      <3>2. CASE read[w.id] = w.record
        BY <2>1, <2>3, <3>1, <3>2, WireTypes
      <3>3. CASE read[w.id] # w.record
        <4>1. w \in Wires(up, "entity")
          BY <1>2, <2>3, WiresOfStore
        <4>2. read[w.id] = v.record /\ v.record # Nil
          BY <2>1, <3>1, WireTypes, NilIsNoRecord
        <4>3. QED BY <1>4, <3>3, <4>1, <4>2 DEF Outdated
      <3>4. QED BY <3>2, <3>3
    <2>4. QED BY <1>2, <2>2, <2>3, WiresOfStore
  <1>5. QED BY <1>3, <1>4 DEF s

(* A page is exported, its entities as they were listed: what its cursor   *)
(* is past is on it, or the cursor was past it before.                     *)
LEMMA PullPageKeeps ==
  ASSUME MemoryFine, NEW limit \in scenario.limits, PullPage(limit)
  PROVE  MemoryFine'
  <1>1. PICK read \in Readings(listing) :
          LET page == Export(ReadStore(read), cursor, limit)
          IN  /\ pull' = [records |-> page.records, next |-> page.next,
                          applied |-> FALSE, taken |-> {}]
              /\ late' = late \cup {Key(w) : w \in
                   {v \in Wires(up, "entity") :
                      /\ read[v.id] # v.record
                      /\ Behind(v, page.next) \/ Outdated(v, read)}}
    BY DEF PullPage
  <1> DEFINE s == ReadStore(read)
  <1> DEFINE page == Export(s, cursor, limit)
  <1> DEFINE W == Range(page.records)
  <1> DEFINE next == page.next
  <1>2. /\ pull' = [records |-> page.records, next |-> next, applied |-> FALSE, taken |-> {}]
        /\ late' = late \cup {Key(w) : w \in
             {v \in Wires(up, "entity") :
                read[v.id] # v.record /\ (Behind(v, next) \/ Outdated(v, read))}}
    BY <1>1
  <1>3. /\ pull = Nil /\ listing' = Nil
        /\ UNCHANGED <<up, now, issued, waiting, gone, cache, cursor, skipped>>
        /\ UNCHANGED canonical
    BY DEF PullPage, canonical
  <1>4. /\ s \in Stores /\ s.entities = read /\ s.facts = up.facts
        /\ s.relations = up.relations /\ RelationsDistinct(s)
    BY ReadingTypes DEF MemoryFine, PullFine, PullTypes
  <1>5. limit \in Nat /\ cursor \in Cursors /\ PullFine /\ CanonFine
    BY ScenariosAssumption DEF MemoryFine, CanonFine, CanonTypes, PullFine, PullTypes
  <1>6. /\ \A w \in AllWires(up) :
             w \in AllWires(s) \/ (w \in Wires(up, "entity") /\ read[w.id] # w.record)
        /\ \A w \in AllWires(up), v \in AllWires(s) :
             Key(v) = Key(w) /\ v.record.at >= w.record.at =>
               \/ v = w
               \/ /\ w \in Wires(up, "entity") /\ read[w.id] # w.record
                  /\ Outdated(w, read)
    BY ReadWires
  <1> HIDE DEF s
  <1>7. /\ page.records \in Seq(WireSet)
        /\ next \in Cursors
        /\ \A w \in W : w \in AllWires(s) \/ (w \in RelationWires /\ w.record \in s.relations)
        /\ DistinctRelations(W)
        /\ \A w \in AllWires(s) : Behind(w, next) => w \in W \/ Behind(w, cursor)
        /\ \/ next.generation = cursor.generation /\ next.scan = cursor.scan
           \/ /\ next.generation = Generation(s)
              /\ \A r \in s.relations : ScannedPast(next.scan, r) =>
                   \/ \E w \in W \cap RelationWires : w.record = r
                   \/ cursor.generation = Generation(s) /\ ScannedPast(cursor.scan, r)
    BY <1>4, <1>5, ExportSends
  <1> HIDE DEF page
  <1>8. /\ pull'.records = page.records /\ pull'.next = next /\ pull'.applied = FALSE
        /\ pull' \in Pulls
    BY <1>2, <1>7 DEF Pulls
  <1>9. pull' # Nil => Sent' = W
    BY <1>8 DEF Sent
  <1>10. Sent' \subseteq W
    BY <1>9 DEF Sent
  <1>11. late \subseteq late'
    BY <1>2
  <1> HIDE DEF W, next
  <1>12. PullTypes'
    BY <1>3, <1>5, <1>8 DEF PullFine, PullTypes
  <1>13. Agrees(cache, gone)'
    BY <1>3, <1>5 DEF PullFine
  <1>14. \A w \in W \cap RelationWires : w.record \in up.relations
    <2>1. SUFFICES ASSUME NEW w \in W \cap RelationWires PROVE w.record \in up.relations
      OBVIOUS
    <2>2. w \notin AllWires(s)
      BY <1>4, <2>1, WiresOfStore, WireTypes
    <2>3. QED BY <1>4, <1>7, <2>1, <2>2
  <1>15. RecordsFine'
    <2>1. VersionsFine'
      <3>1. SUFFICES ASSUME NEW w \in AllWires(up), NEW v \in AllWires(cache) \cup Sent',
                            Key(v) = Key(w), v.record.at >= w.record.at
                     PROVE  v = w \/ Key(w) \in late'
        BY <1>3 DEF VersionsFine
      <3>2. CASE v \in AllWires(cache)
        BY <1>5, <1>11, <3>1, <3>2 DEF PullFine, RecordsFine, VersionsFine
      <3>3. CASE v \in W /\ v \in AllWires(s)
        BY <1>2, <1>6, <3>1, <3>3
      <3>4. CASE v \in RelationWires
        <4>1. w.kind # "relation"
          BY CanonFacts, WiresOfStore, WireTypes
        <4>2. v.kind = w.kind
          BY <3>1 DEF Key
        <4>3. QED BY <3>4, <4>1, <4>2, WireTypes
      <3>5. QED BY <1>7, <1>10, <3>1, <3>2, <3>3, <3>4
    <2>2. RecordsCovered'
      BY <1>3, <1>5, <1>11 DEF PullFine, RecordsFine, RecordsCovered
    <2>3. PullCovered'
      <3>1. SUFFICES ASSUME NEW w \in AllWires(up), Behind(w, next)
                     PROVE  \/ w \in AllWires(cache) \/ Key(w) \in late' \/ w \in skipped
                            \/ w \in W
        BY <1>3, <1>8 DEF PullCovered, W
      <3>2. CASE w \in AllWires(s) /\ w \notin W
        <4>1. Behind(w, cursor)
          BY <1>7, <3>1, <3>2
        <4>2. QED BY <1>5, <1>11, <3>1, <4>1 DEF PullFine, RecordsFine, RecordsCovered
      <3>3. CASE w \in Wires(up, "entity") /\ read[w.id] # w.record
        BY <1>2, <3>1, <3>3
      <3>4. QED BY <1>6, <3>2, <3>3
    <2>4. QED BY <2>1, <2>2, <2>3 DEF RecordsFine
  <1>16. RelationsFine'
    <2>1. RelationsFine
      BY <1>5 DEF PullFine
    <2>2. /\ \A r \in up.relations : r.at <= now
          /\ \A q, r \in up.relations : SameEnds(q, r) => q = r
          /\ \A r \in up.relations : r.at \in Nat
      BY <1>5, CanonFacts, StampsTyped DEF CanonFine, RelationsDistinct, SameEnds
    <2>3. \A w \in Sent' \cap RelationWires : w.record \in up.relations
      BY <1>10, <1>14
    <2>4. DistinctRelations(Sent')
      BY <1>7, <1>10, DistinctBelow
    <2>5. \A r \in up.relations, w \in Sent' \cap RelationWires :
            SameEnds(w.record, r) => w.record.at <= r.at
      <3>1. SUFFICES ASSUME NEW r \in up.relations, NEW w \in Sent' \cap RelationWires,
                            SameEnds(w.record, r)
                     PROVE  w.record.at <= r.at
        OBVIOUS
      <3>2. w.record = r /\ r.at \in Nat
        BY <2>2, <2>3, <3>1
      <3>3. QED BY <3>2
    <2>6. \A w \in Sent' \cap RelationWires, q \in cache.relations :
            SameEnds(q, w.record) => q.at <= w.record.at
      BY <2>1, <2>3 DEF RelationsFine
    <2>7. QED
      BY <1>3, <2>1, <2>2, <2>3, <2>4, <2>5, <2>6 DEF RelationsFine
  <1>17. ScansCovered'
    <2>1. ScanCovered(cursor, {})
      BY <1>5 DEF PullFine, ScansCovered
    <2>2. ScanCovered(next, W)
      <3>1. CASE next.generation = cursor.generation /\ next.scan = cursor.scan
        BY <2>1, <3>1 DEF ScanCovered
      <3>2. CASE /\ next.generation = Generation(s)
                 /\ \A r \in s.relations : ScannedPast(next.scan, r) =>
                      \/ \E w \in W \cap RelationWires : w.record = r
                      \/ cursor.generation = Generation(s) /\ ScannedPast(cursor.scan, r)
        <4>1. Generation(s).hash = s.relations
          BY DEF Generation
        <4>2. Generation(s) # Nil
          <5>1. s.relations \in SUBSET Relations
            BY <1>4, StoreTypes
          <5>2. Generation(s) \in Generations
            BY <5>1 DEF Generation, Generations
          <5>3. QED BY <5>2, NilIsNoScan
        <4>3. ASSUME NEW r \in s.relations, ScannedPast(next.scan, r),
                     cursor.generation = Generation(s), ScannedPast(cursor.scan, r)
              PROVE  r \in cache.relations
                       \/ \E q \in cache.relations : SameEnds(q, r) /\ q.at > r.at
          BY <2>1, <4>1, <4>2, <4>3 DEF ScanCovered
        <4>4. QED BY <3>2, <4>1, <4>3 DEF ScanCovered
      <3>3. QED BY <1>7, <3>1, <3>2
    <2>3. ScanCovered(cursor, {})'
      BY <1>3, <2>1 DEF ScanCovered
    <2>4. pull' # Nil => ScanCovered(pull.next, IF pull.applied THEN {} ELSE Sent)'
      <3>1. SUFFICES ASSUME pull' # Nil
                     PROVE  ScanCovered(pull.next, IF pull.applied THEN {} ELSE Sent)'
        OBVIOUS
      <3>2. (IF pull.applied THEN {} ELSE Sent)' = W
        BY <1>8, <1>9, <3>1
      <3>3. (pull.next)' = next /\ cache' = cache
        BY <1>3, <1>8
      <3>4. QED BY <2>2, <3>2, <3>3 DEF ScanCovered
    <2>5. QED BY <2>3, <2>4 DEF ScansCovered
  <1>18. QED
    BY <1>3, <1>12, <1>13, <1>15, <1>16, <1>17, CanonKept DEF MemoryFine, PullFine

(* A relation, or a later one between the same entities.                   *)
HoldsRelation(s, r) ==
  r \in s.relations \/ \E q \in s.relations : SameEnds(q, r) /\ q.at > r.at

(* What an import of the records of a pull, or of some, does to the cache. *)
LEMMA CacheAbsorbs ==
  ASSUME MemoryFine, Importing, NEW new, Absorbs(cache, new, Sent)
  PROVE  /\ new \in Stores /\ Agrees(new, gone)
         /\ \A w \in AllWires(new) : w \in AllWires(cache) \/ w \in Sent
         /\ \A w \in AllWires(up) : w \in AllWires(cache) =>
              w \in AllWires(new) \/ Key(w) \in late
         /\ \A q \in new.relations :
              q \in cache.relations \/ \E w \in Sent \cap RelationWires : q = w.record
         /\ \A r \in Relations : HoldsRelation(cache, r) => HoldsRelation(new, r)
  <1>1. PullFine /\ pull # Nil /\ ~pull.applied
    BY DEF MemoryFine, Importing
  <1>2. new \in Stores /\ Agrees(new, gone)
    BY <1>1 DEF Absorbs, PullFine, Agrees
  <1>3. /\ \A w \in AllWires(new) : w \in AllWires(cache) \/ w \in Sent
        /\ \A q \in new.relations :
             q \in cache.relations \/ \E w \in Sent \cap RelationWires : q = w.record
    BY DEF Absorbs
  <1>4. ASSUME NEW w \in AllWires(up), w \in AllWires(cache), w \notin AllWires(new)
        PROVE  Key(w) \in late
    <2>1. PICK v \in Sent : Key(v) = Key(w) /\ v.record.at > w.record.at
      BY <1>4 DEF Absorbs
    <2>2. w.record.at \in Nat
      BY CanonFacts, WiresOfStore, WireTypes
    <2>3. Sent \in SUBSET WireSet
      BY <1>1, RecordsOf DEF Sent, PullFine, PullTypes, Pulls
    <2>4. v.record.at \in Nat
      BY <2>3, WireTypes DEF WireSet
    <2>5. v = w \/ Key(w) \in late
      BY <1>1, <2>1, <2>2, <2>4 DEF PullFine, RecordsFine, VersionsFine
    <2>6. QED BY <2>1, <2>2, <2>5
  <1>5. ASSUME NEW q \in cache.relations
        PROVE  HoldsRelation(new, q)
    <2>1. CASE q \in new.relations
      BY <2>1 DEF HoldsRelation
    <2>2. CASE q \notin new.relations
      <3>1. PICK w \in Sent \cap RelationWires :
              /\ w.record.from = q.from /\ w.record.to = q.to
              /\ w.record \in new.relations
        BY <2>2 DEF Absorbs
      <3>2. q.at <= w.record.at
        BY <1>1, <3>1 DEF PullFine, RelationsFine, SameEnds
      <3>3. q \in Relations /\ w.record \in Relations
        BY StampsTyped, WireTypes
      <3>4. CASE w.record.at = q.at
        <4>1. w.record = q
          BY <3>1, <3>3, <3>4, RelationTypes
        <4>2. QED BY <3>1, <4>1 DEF HoldsRelation
      <3>5. CASE w.record.at > q.at
        BY <3>1, <3>5 DEF HoldsRelation, SameEnds
      <3>6. QED BY <3>2, <3>3, <3>4, <3>5, RelationTypes
    <2>3. QED BY <2>1, <2>2
  <1>6. ASSUME NEW r \in Relations, HoldsRelation(cache, r)
        PROVE  HoldsRelation(new, r)
    <2>1. CASE r \in cache.relations
      BY <1>5, <2>1
    <2>2. CASE r \notin cache.relations
      <3>1. PICK q \in cache.relations : SameEnds(q, r) /\ q.at > r.at
        BY <1>6, <2>2 DEF HoldsRelation
      <3>2. HoldsRelation(new, q)
        BY <1>5
      <3>3. CASE q \in new.relations
        BY <3>1, <3>3 DEF HoldsRelation
      <3>4. CASE q \notin new.relations
        <4>1. PICK p \in new.relations : SameEnds(p, q) /\ p.at > q.at
          BY <3>2, <3>4 DEF HoldsRelation
        <4>2. new.relations \in SUBSET Relations
          BY <1>2, StoreTypes
        <4>3. p.at \in Nat /\ q.at \in Nat /\ r.at \in Nat
          BY <4>2, RelationTypes, StampsTyped
        <4>4. p.at > r.at /\ SameEnds(p, r)
          BY <3>1, <4>1, <4>3 DEF SameEnds
        <4>5. QED BY <4>4 DEF HoldsRelation
      <3>5. QED BY <3>3, <3>4
    <2>3. QED BY <2>1, <2>2
  <1>7. QED BY <1>2, <1>3, <1>4, <1>6

(* A scan is covered by what the cache holds and by what was sent.         *)
LEMMA ScanHolds ==
  ASSUME NEW c, NEW wires
  PROVE  ScanCovered(c, wires) <=>
           (c.generation # Nil =>
              \A r \in c.generation.hash : ScannedPast(c.scan, r) =>
                HoldsRelation(cache, r) \/ \E w \in wires \cap RelationWires : w.record = r)
  BY DEF ScanCovered, HoldsRelation

(* A generation's hash stands for the relations it was made of.            *)
LEMMA HashTypes ==
  ASSUME NEW c \in Cursors, c.generation # Nil
  PROVE  c.generation.hash \in SUBSET Relations
  BY DEF Cursors, Maybe, Generations

(* A pull that is being imported, and stops, fails or is applied.          *)
LEMMA ImportKeepsPull ==
  ASSUME MemoryFine, Importing, Absorbs(cache, cache', Sent),
         UNCHANGED canonical, UNCHANGED <<late, cursor, skipped>>,
         listing' \in {listing, Nil},
         \/ pull' = Nil
         \/ /\ pull' # Nil /\ pull' \in Pulls /\ pull'.applied
            /\ pull'.records = pull.records /\ pull'.next = pull.next
            /\ Complete(cache', Sent, pull'.taken)
  PROVE  MemoryFine'
  <1>1. /\ PullFine /\ pull # Nil /\ ~pull.applied
        /\ UNCHANGED <<up, now, issued, waiting, gone>>
    BY DEF MemoryFine, Importing, canonical
  <1>2. /\ cache' \in Stores /\ Agrees(cache', gone)
        /\ \A w \in AllWires(cache') : w \in AllWires(cache) \/ w \in Sent
        /\ \A w \in AllWires(up) : w \in AllWires(cache) =>
              w \in AllWires(cache') \/ Key(w) \in late
        /\ \A q \in cache'.relations :
              q \in cache.relations \/ \E w \in Sent \cap RelationWires : q = w.record
        /\ \A r \in Relations : HoldsRelation(cache, r) => HoldsRelation(cache', r)
    BY CacheAbsorbs
  <1>3. Sent' = {} \/ (pull' # Nil /\ Sent' = Sent)
    BY <1>1 DEF Sent
  <1>4. PullTypes'
    BY <1>1, <1>2 DEF PullFine, PullTypes
  <1>5. Agrees(cache, gone)'
    BY <1>1, <1>2 DEF PullFine
  <1>6. VersionsFine'
    <2>1. SUFFICES ASSUME NEW w \in AllWires(up), NEW v \in AllWires(cache') \cup Sent',
                          Key(v) = Key(w), v.record.at >= w.record.at
                   PROVE  v = w \/ Key(w) \in late
      BY <1>1 DEF VersionsFine
    <2>2. v \in AllWires(cache) \cup Sent
      BY <1>2, <1>3, <2>1
    <2>3. QED BY <1>1, <2>1, <2>2 DEF PullFine, RecordsFine, VersionsFine
  <1>7. RecordsCovered'
    <2>1. SUFFICES ASSUME NEW w \in AllWires(up), Behind(w, cursor)
                   PROVE  w \in AllWires(cache') \/ Key(w) \in late \/ w \in skipped
      BY <1>1 DEF RecordsCovered
    <2>2. w \in AllWires(cache) \/ Key(w) \in late \/ w \in skipped
      BY <1>1, <2>1 DEF PullFine, RecordsFine, RecordsCovered
    <2>3. QED BY <1>2, <2>2
  <1>8. PullCovered'
    <2>1. SUFFICES ASSUME pull' # Nil, NEW w \in AllWires(up), Behind(w, pull.next)
                   PROVE  \/ w \in AllWires(cache') \/ Key(w) \in late \/ w \in skipped
                          \/ w \in pull'.taken
      BY <1>1 DEF PullCovered
    <2>2. \/ w \in AllWires(cache) \/ Key(w) \in late \/ w \in skipped
          \/ w \in Sent
      BY <1>1, <2>1 DEF PullFine, RecordsFine, PullCovered, Sent
    <2>3. CASE w \in Sent
      <3>1. w \notin RelationWires
        BY CanonFacts, WiresOfStore, WireTypes
      <3>2. CASE \E v \in AllWires(cache') : Key(v) = Key(w) /\ v.record.at >= w.record.at
        <4>1. PICK v \in AllWires(cache') : Key(v) = Key(w) /\ v.record.at >= w.record.at
          BY <3>2
        <4>2. v = w \/ Key(w) \in late
          BY <1>1, <1>2, <4>1 DEF PullFine, RecordsFine, VersionsFine
        <4>3. QED BY <4>1, <4>2
      <3>3. QED BY <2>1, <2>3, <3>1, <3>2 DEF Complete
    <2>4. QED BY <1>2, <2>2, <2>3
  <1>9. RelationsFine'
    <2>1. RelationsFine
      BY <1>1 DEF PullFine
    <2>2. \A q \in cache'.relations : q.at <= now
      BY <1>2, <2>1 DEF RelationsFine
    <2>3. \A w \in Sent' \cap RelationWires : w.record.at <= now
      BY <1>3, <2>1 DEF RelationsFine
    <2>4. DistinctRelations(Sent')
      BY <1>3, <2>1 DEF RelationsFine, DistinctRelations
    <2>5. \A r \in up.relations, q \in cache'.relations : SameEnds(q, r) => q.at <= r.at
      BY <1>2, <2>1 DEF RelationsFine
    <2>6. \A r \in up.relations, w \in Sent' \cap RelationWires :
            SameEnds(w.record, r) => w.record.at <= r.at
      BY <1>3, <2>1 DEF RelationsFine
    <2>7. ~(pull' # Nil /\ ~pull'.applied)
      OBVIOUS
    <2>8. QED BY <1>1, <2>2, <2>3, <2>4, <2>5, <2>6, <2>7 DEF RelationsFine
  <1>10. ScansCovered'
    <2>1. cursor \in Cursors /\ pull.next \in Cursors
      BY <1>1 DEF PullFine, PullTypes, Pulls
    <2>2. ScanCovered(cursor, {}) /\ ScanCovered(pull.next, Sent)
      BY <1>1 DEF PullFine, ScansCovered
    <2>3. ScanCovered(cursor, {})'
      <3>1. SUFFICES ASSUME cursor.generation # Nil, NEW r \in cursor.generation.hash,
                            ScannedPast(cursor.scan, r)
                     PROVE  HoldsRelation(cache', r)
        BY <1>1 DEF ScanCovered, HoldsRelation
      <3>2. r \in Relations
        BY <2>1, <3>1, HashTypes
      <3>3. HoldsRelation(cache, r)
        BY <2>2, <3>1, ScanHolds
      <3>4. QED BY <1>2, <3>2, <3>3
    <2>4. pull' # Nil => ScanCovered(pull.next, IF pull.applied THEN {} ELSE Sent)'
      <3>1. SUFFICES ASSUME pull' # Nil, pull.next.generation # Nil,
                            NEW r \in pull.next.generation.hash,
                            ScannedPast(pull.next.scan, r)
                     PROVE  HoldsRelation(cache', r)
        BY DEF ScanCovered, HoldsRelation
      <3>2. r \in Relations
        BY <2>1, <3>1, HashTypes
      <3>3. HoldsRelation(cache, r) \/ \E w \in Sent \cap RelationWires : w.record = r
        BY <2>2, <3>1, ScanHolds
      <3>4. CASE \E w \in Sent \cap RelationWires : w.record = r
        <4>1. r \in cache'.relations
          BY <3>1, <3>4 DEF Complete
        <4>2. QED BY <4>1 DEF HoldsRelation
      <3>5. QED BY <1>2, <3>2, <3>3, <3>4
    <2>5. QED BY <2>3, <2>4 DEF ScansCovered
  <1>11. QED
    BY <1>4, <1>5, <1>6, <1>7, <1>8, <1>9, <1>10, CanonKept
    DEF MemoryFine, PullFine, RecordsFine

(* A page is applied; one of its records may fail.                         *)
LEMMA PullApplyKeeps ==
  ASSUME MemoryFine, NEW failed, PullApply(failed)
  PROVE  MemoryFine'
  <1> DEFINE done == Import(cache, pull.records, failed)
  <1>1. /\ Importing /\ pull # Nil
        /\ cache' = done.store
        /\ pull' = IF done.errors > 0 THEN Nil
                   ELSE [pull EXCEPT !.applied = TRUE, !.taken = done.taken]
        /\ UNCHANGED canonical
        /\ UNCHANGED <<late, cursor, skipped>>
        /\ listing' \in {listing, Nil}
    BY DEF PullApply, Importing
  <1>2. /\ pull \in Pulls /\ Sent = Range(pull.records) /\ pull.records \in Seq(WireSet)
        /\ DistinctRelations(Sent)
    BY <1>1 DEF MemoryFine, PullFine, PullTypes, RelationsFine, Pulls, Sent
  <1>3. /\ done \in Results
        /\ Absorbs(cache, done.store, Sent)
        /\ done.errors = 0 => Complete(done.store, Sent, done.taken)
    BY <1>2, CanonFacts, ImportKeeps
  <1> HIDE DEF done
  <1>4. CASE done.errors > 0
    <2>1. pull' = Nil
      BY <1>1, <1>4
    <2>2. QED BY <1>1, <1>3, <2>1, ImportKeepsPull
  <1>5. CASE ~(done.errors > 0)
    <2>1. done.errors = 0 /\ done.taken \in SUBSET WireSet
      BY <1>3, <1>5 DEF Results
    <2>2. pull' = [pull EXCEPT !.applied = TRUE, !.taken = done.taken]
      BY <1>1, <1>5
    <2>3. /\ pull'.applied /\ pull'.records = pull.records /\ pull'.next = pull.next
          /\ pull'.taken = done.taken /\ pull' \in Pulls
      BY <1>2, <2>1, <2>2 DEF Pulls
    <2>4. Complete(cache', Sent, pull'.taken)
      BY <1>1, <1>3, <2>1, <2>3
    <2>5. CASE pull' = Nil
      BY <1>1, <1>3, <2>5, ImportKeepsPull
    <2>6. CASE pull' # Nil
      BY <1>1, <1>3, <2>3, <2>4, <2>6, ImportKeepsPull
    <2>7. QED BY <2>5, <2>6
  <1>6. QED BY <1>4, <1>5

(* A pull that leaves the cache and ends: its cursor is saved, or is not.  *)
LEMMA PullEnds ==
  ASSUME MemoryFine, UNCHANGED canonical, UNCHANGED <<late, cache>>, pull' = Nil,
         listing' \in {listing, Nil},
         \/ UNCHANGED <<cursor, skipped>>
         \/ /\ pull # Nil /\ pull.applied
            /\ cursor' = pull.next /\ skipped' = skipped \cup pull.taken
  PROVE  MemoryFine'
  <1>1. PullFine /\ UNCHANGED <<up, now, issued, waiting, gone>>
    BY DEF MemoryFine, canonical
  <1>2. PullTypes'
    BY <1>1 DEF PullFine, PullTypes, Pulls
  <1>3. Agrees(cache, gone)'
    BY <1>1 DEF PullFine
  <1>4. Sent' = {}
    BY DEF Sent
  <1>5. RecordsFine'
    <2>1. VersionsFine' /\ PullCovered'
      BY <1>1, <1>4 DEF PullFine, RecordsFine, VersionsFine, PullCovered
    <2>2. RecordsCovered'
      BY <1>1 DEF PullFine, RecordsFine, RecordsCovered, PullCovered
    <2>3. QED BY <2>1, <2>2 DEF RecordsFine
  <1>6. RelationsFine'
    BY <1>1, <1>4 DEF PullFine, RelationsFine, DistinctRelations
  <1>7. ScansCovered'
    <2>1. CASE cursor' = cursor
      BY <1>1, <2>1 DEF PullFine, ScansCovered, ScanCovered
    <2>2. CASE pull # Nil /\ pull.applied /\ cursor' = pull.next
      BY <1>1, <2>2 DEF PullFine, ScansCovered, ScanCovered
    <2>3. QED BY <2>1, <2>2
  <1>8. QED
    BY <1>2, <1>3, <1>5, <1>6, <1>7, CanonKept DEF MemoryFine, PullFine

(* The first n records of a page.                                          *)
LEMMA FirstRecords ==
  ASSUME NEW T, NEW records \in Seq(T), NEW n \in 0..Len(records)
  PROVE  /\ SubSeq(records, 1, n) \in Seq(T)
         /\ Range(SubSeq(records, 1, n)) \subseteq Range(records)
  <1> DEFINE part == SubSeq(records, 1, n)
  <1>1. part \in Seq(T) /\ Len(part) = n /\ \A i \in 1..n : part[i] = records[i]
    OBVIOUS
  <1> HIDE DEF part
  <1>2. Range(part) \subseteq Range(records)
    BY <1>1 DEF Range
  <1>3. QED BY <1>1, <1>2 DEF part

(* A pull stops, having applied some of its page or none.                  *)
LEMMA PullStopKeeps ==
  ASSUME MemoryFine, PullStop
  PROVE  MemoryFine'
  <1>1. /\ pull' = Nil /\ listing' \in {listing, Nil}
        /\ UNCHANGED canonical
        /\ UNCHANGED <<late, cursor, skipped>>
    BY DEF PullStop
  <1>2. CASE UNCHANGED cache
    BY <1>1, <1>2, PullEnds
  <1>3. ASSUME Importing, NEW n \in 0..Len(pull.records),
               cache' = Import(cache, SubSeq(pull.records, 1, n), 0).store
        PROVE  MemoryFine'
    <2> DEFINE part == SubSeq(pull.records, 1, n)
    <2>1. /\ Sent = Range(pull.records) /\ pull.records \in Seq(WireSet)
          /\ DistinctRelations(Sent)
      BY <1>3 DEF MemoryFine, PullFine, PullTypes, RelationsFine, Pulls, Sent, Importing
    <2>2. part \in Seq(WireSet) /\ Range(part) \subseteq Sent
      BY <2>1, FirstRecords
    <2> HIDE DEF part
    <2>3. DistinctRelations(Range(part))
      BY <2>1, <2>2, DistinctBelow
    <2>4. Absorbs(cache, Import(cache, part, 0).store, Range(part))
      BY <2>2, <2>3, CanonFacts, ImportKeeps
    <2>5. Absorbs(cache, Import(cache, part, 0).store, Sent)
      BY <2>2, <2>4, AbsorbsMore
    <2>6. Absorbs(cache, cache', Sent)
      BY <1>3, <2>5 DEF part
    <2>7. QED BY <1>1, <1>3, <2>6, ImportKeepsPull
  <1>4. QED BY <1>2, <1>3 DEF PullStop

(* The cursor is saved once the page is applied.                           *)
LEMMA PullSaveKeeps ==
  ASSUME MemoryFine, PullSave
  PROVE  MemoryFine'
  <1>1. /\ pull' = Nil /\ listing' \in {listing, Nil}
        /\ UNCHANGED canonical /\ UNCHANGED <<late, cache>>
        /\ pull # Nil /\ pull.applied
        /\ cursor' = pull.next /\ skipped' = skipped \cup pull.taken
    BY DEF PullSave
  <1>2. QED BY <1>1, PullEnds

(* A new file's tables agree.                                              *)
LEMMA EmptyStoreFine ==
  /\ EmptyStore \in Stores
  /\ Agrees(EmptyStore, {})
  /\ AllWires(EmptyStore) = {}
  /\ EmptyStore.relations = {}
  /\ Facts(EmptyStore) = {} /\ Entities(EmptyStore) = {}
  <1>1. EmptyStore \in Stores
    BY DEF EmptyStore, Stores, Maybe
  <1>2. Facts(EmptyStore) = {} /\ Entities(EmptyStore) = {}
    BY DEF EmptyStore, Facts, Entities
  <1>3. AllWires(EmptyStore) = {}
    BY DEF EmptyStore, AllWires, Wires, Ids
  <1>4. Agrees(EmptyStore, {})
    BY <1>2, NilIsNoRecord DEF Agrees, NamesAgree, ContentsDistinct, LinksAgree, EmptyStore
  <1>5. QED BY <1>1, <1>2, <1>3, <1>4 DEF EmptyStore

(* The ids of a store that was there before are issued.                    *)
LEMMA IssuedAtFirst ==
  ASSUME NEW s \in Stores, NEW kind \in Kinds
  PROVE  LET ids == {w.id : w \in Wires(s, kind)} \cup {0}
         IN  /\ Max(ids) \in Nat
             /\ \A w \in Wires(s, kind) : w.id <= Max(ids)
  <1> DEFINE W == Wires(s, kind)
  <1> DEFINE ids == {w.id : w \in W}
  <1>1. IsFiniteSet(W) /\ \A w \in W : w.id \in Nat
    BY WiresFinite, WiresTyped
  <1> HIDE DEF W
  <1>2. IsFiniteSet(ids)
    <2> DEFINE id == [w \in W |-> w.id]
    <2>1. id \in Surjection(W, ids)
      <3>1. id \in [W -> ids]
        OBVIOUS
      <3>2. \A n \in ids : \E w \in W : id[w] = n
        OBVIOUS
      <3>3. QED BY <3>1, <3>2 DEF Surjection
    <2>2. QED BY <1>1, <2>1, FS_Surjection
  <1>3. ids \cup {0} \in SUBSET Nat /\ IsFiniteSet(ids \cup {0})
    BY <1>1, <1>2, FS_AddElement
  <1>4. \A w \in W : w.id \in ids
    OBVIOUS
  <1> HIDE DEF ids
  <1>5. Max(ids \cup {0}) \in ids \cup {0} /\ \A n \in ids \cup {0} : n <= Max(ids \cup {0})
    BY <1>3, GreatestIsMax
  <1>6. Max(ids \cup {0}) \in Nat /\ \A w \in W : w.id <= Max(ids \cup {0})
    BY <1>3, <1>4, <1>5
  <1>7. QED BY <1>6 DEF ids, W

(* The invariant holds of a store that was there before.                   *)
LEMMA InitFine ==
  ASSUME Init
  PROVE  MemoryFine
  <1>1. /\ up \in Stores /\ NamesAgree(up) /\ ContentsDistinct(up) /\ LinksAgree(up, {})
        /\ RelationsDistinct(up) /\ \A r \in up.relations : r.at <= 1
    BY ScenariosAssumption DEF Init
  <1>2. /\ scenario \in Scenarios /\ cold = EmptyStore /\ cache = EmptyStore /\ now = 1
        /\ waiting = Nil /\ moving = Nil /\ cursor = StartCursor /\ listing = Nil
        /\ pull = Nil /\ agent = Nil /\ segments = <<>> /\ merge = Nil
        /\ kept = Facts(up) /\ gone = {}
        /\ issued = [kind \in Kinds |-> Max({w.id : w \in Wires(up, kind)} \cup {0})]
    BY DEF Init
  <1>3. /\ issued \in [Kinds -> Nat]
        /\ \A kind \in Kinds : \A w \in Wires(up, kind) : w.id <= issued[kind]
    <2> DEFINE ids(kind) == {w.id : w \in Wires(up, kind)} \cup {0}
    <2>1. \A kind \in Kinds : /\ Max(ids(kind)) \in Nat
                              /\ \A w \in Wires(up, kind) : w.id <= Max(ids(kind))
      BY <1>1, IssuedAtFirst
    <2>2. issued = [kind \in Kinds |-> Max(ids(kind))]
      BY <1>2
    <2> HIDE DEF ids
    <2>3. QED BY <2>1, <2>2
  <1>4. \A e \in Entities(up) : e <= issued["entity"]
    <2>1. SUFFICES ASSUME NEW e \in Entities(up) PROVE e <= issued["entity"]
      OBVIOUS
    <2> DEFINE w == [kind |-> "entity", id |-> e, record |-> up.entities[e]]
    <2>2. e \in EntityIds /\ up.entities[e] \in EntityRecords
      BY <1>1, StoreTypes
    <2>3. w \in EntityWires /\ w.id = e /\ w.record = up.entities[e]
      BY <2>2 DEF EntityWires
    <2> HIDE DEF w
    <2>4. w \in Wires(up, "entity")
      BY <1>1, <2>3, WiresOfStore
    <2>5. QED BY <1>3, <2>3, <2>4 DEF Kinds
  <1>5. \A f \in Facts(up) : f <= issued["fact"]
    <2>1. SUFFICES ASSUME NEW f \in Facts(up) PROVE f <= issued["fact"]
      OBVIOUS
    <2> DEFINE w == [kind |-> "fact", id |-> f, record |-> up.facts[f]]
    <2>2. f \in FactIds /\ up.facts[f] \in FactRecords
      BY <1>1, StoreTypes
    <2>3. w \in FactWires /\ w.id = f /\ w.record = up.facts[f]
      BY <2>2 DEF FactWires
    <2> HIDE DEF w
    <2>4. w \in Wires(up, "fact")
      BY <1>1, <2>3, WiresOfStore
    <2>5. QED BY <1>3, <2>3, <2>4 DEF Kinds
  <1>6. CanonFine
    <2>1. CanonTypes
      BY <1>1, <1>2, <1>3, EmptyStoreFine DEF CanonTypes, Maybe, Facts
    <2>2. Agrees(up, gone) /\ Agrees(cold, gone)
      BY <1>1, <1>2, EmptyStoreFine DEF Agrees
    <2>3. FactsAddressable
      BY <1>2 DEF FactsAddressable
    <2>4. HeldFine
      BY <1>2 DEF HeldFine, Held
    <2>5. QED BY <1>1, <1>2, <1>4, <1>5, <2>1, <2>2, <2>3, <2>4 DEF CanonFine
  <1>7. BranchFine
    BY <1>2 DEF BranchFine, MergeFine
  <1>8. cursor.generation = Nil /\ cursor \in Cursors /\ cursor.seen = [kind \in Kinds |-> 0]
    BY <1>2, StartCursorTyped DEF StartCursor
  <1>9. Sent = {}
    BY <1>2 DEF Sent
  <1>10. RecordsCovered
    <2>1. SUFFICES ASSUME NEW w \in AllWires(up), Behind(w, cursor) PROVE FALSE
      BY DEF RecordsCovered
    <2>2. w.kind \in Kinds /\ w.id \in Nat \ {0}
      BY <1>1, <2>1, WiresOfStore, WireTypes DEF Kinds
    <2>3. w.id <= 0
      BY <1>8, <2>1, <2>2 DEF Behind
    <2>4. QED BY <2>2, <2>3
  <1>11. PullFine
    <2>1. PullTypes
      BY <1>2, <1>8, EmptyStoreFine DEF PullTypes
    <2>2. Agrees(cache, gone)
      BY <1>2, EmptyStoreFine
    <2>3. RecordsFine
      BY <1>2, <1>9, <1>10, EmptyStoreFine DEF RecordsFine, VersionsFine, PullCovered
    <2>4. RelationsFine /\ ScansCovered
      BY <1>2, <1>8, <1>9, EmptyStoreFine
      DEF RelationsFine, ScansCovered, ScanCovered, DistinctRelations
    <2>5. QED BY <2>1, <2>2, <2>3, <2>4 DEF PullFine
  <1>12. QED BY <1>6, <1>7, <1>11 DEF MemoryFine

-----------------------------------------------------------------------------
(* The steps together.                                                     *)

(* Every step writes the canonical store or belongs to a pull.             *)
LEMMA StepsWriteOrPull ==
  ASSUME MemoryFine, Next
  PROVE  WriteStep \/ (UNCHANGED canonical /\ MemoryFine')
  <1>1. ASSUME NEW e \in EntityIds, NEW n \in Names,
               \/ \E aliases \in {{}} \cup {{m} : m \in Names \ {n}} :
                    EntityStamp(e, n, aliases)
               \/ EntityUpdate(e, n)
        PROVE  WriteStep
    <2>1. \A aliases \in {{}} \cup {{m} : m \in Names \ {n}} : aliases \in SUBSET Names
      OBVIOUS
    <2>2. QED BY <1>1, <2>1, EntityStampWrites, EntityUpdateWrites
  <1>2. EntityInsert => WriteStep
    BY EntityInsertWrites
  <1>3. (\E e \in EntityIds : EntityDelete(e)) => WriteStep
    BY EntityDeleteWrites
  <1>4. (\E c \in Contents, links \in SUBSET Entities(up) : FactAdd(c, links)) => WriteStep
    BY FactAddWrites
  <1>5. ASSUME NEW f \in FactIds,
               \/ \E c \in Contents :
                    FactUpdate(f, c) \/ BranchFactAdd(f, c) \/ BranchFactUpdate(f, c)
               \/ \E g \in FactIds : FactSupersede(f, g)
               \/ FactFeedback(f)
               \/ FactDelete(f)
               \/ ArchiveCopy(f)
        PROVE  WriteStep
    BY <1>5, FactUpdateWrites, BranchFactAddWrites, BranchFactUpdateWrites,
       FactSupersedeWrites, FactFeedbackWrites, FactDeleteWrites, ArchiveCopyWrites
  <1>6. (\E d, e \in EntityIds : RelationAdd(d, e)) => WriteStep
    BY RelationAddWrites
  <1>7. (\E r \in up.relations : RelationRemove(r)) => WriteStep
    BY RelationRemoveWrites
  <1>8. ArchiveDrop \/ ArchiveStop => WriteStep
    BY ArchiveDropWrites, ArchiveStopWrites
  <1>9. PullRead => UNCHANGED canonical /\ MemoryFine'
    BY PullReadKeeps DEF PullRead
  <1>10. (\E limit \in scenario.limits : PullPage(limit)) => UNCHANGED canonical /\ MemoryFine'
    BY PullPageKeeps DEF PullPage
  <1>11. ASSUME NEW failed \in 0..Unlimited, PullApply(failed) \/ MergeSegment(failed)
         PROVE  WriteStep \/ (UNCHANGED canonical /\ MemoryFine')
    <2>1. PullApply(failed) => UNCHANGED canonical /\ MemoryFine'
      BY PullApplyKeeps DEF PullApply
    <2>2. QED BY <1>11, <2>1, MergeSegmentWrites
  <1>12. PullSave => UNCHANGED canonical /\ MemoryFine'
    BY PullSaveKeeps DEF PullSave
  <1>13. PullStop => UNCHANGED canonical /\ MemoryFine'
    BY PullStopKeeps DEF PullStop
  <1>14. Fork \/ Push => WriteStep
    BY ForkWrites, PushWrites
  <1>15. \/ MergeBegin \/ MergeList \/ MergeCapture \/ MergeLost \/ MergeStop
         \/ merge # Nil /\ \E w \in merge.todo : MergeUpsert(w)
         => WriteStep
    BY MergeWrites
  <1>16. QED
    BY <1>1, <1>2, <1>3, <1>4, <1>5, <1>6, <1>7, <1>8, <1>9, <1>10, <1>11, <1>12,
       <1>13, <1>14, <1>15 DEF Next

(* A step of something else.                                               *)
LEMMA MemoryStutters ==
  ASSUME MemoryFine, UNCHANGED otherVars
  PROVE  MemoryFine'
  <1>1. /\ UNCHANGED canonical
        /\ UNCHANGED <<up, now, issued, waiting, gone, cache, cursor, listing, pull,
                       late, skipped>>
    BY DEF otherVars, canonical, download
  <1>2. PullFine'
    BY <1>1 DEF MemoryFine, PullFine, PullTypes, RecordsFine, VersionsFine,
                RecordsCovered, PullCovered, RelationsFine, ScansCovered, ScanCovered, Sent
  <1>3. QED BY <1>1, <1>2, CanonKept DEF MemoryFine

(* Every step keeps the invariant.                                         *)
LEMMA MemoryNext ==
  ASSUME MemoryFine, [Next]_vars
  PROVE  MemoryFine'
  <1>1. CASE Next
    BY <1>1, StepsWriteOrPull, WritesKeep
  <1>2. CASE UNCHANGED vars
    <2>1. UNCHANGED otherVars
      BY <1>2 DEF vars, otherVars, download, branch, history
    <2>2. QED BY <2>1, MemoryStutters
  <1>3. QED BY <1>1, <1>2

(* Pull-only sync keeps the stores, the cursor and the page fine.          *)
THEOREM MemoryStaysFine == Spec => []MemoryFine
  <1>1. Init => MemoryFine
    BY InitFine
  <1>2. MemoryFine /\ [Next]_vars => MemoryFine'
    BY MemoryNext
  <1>3. QED BY <1>1, <1>2, PTL DEF Spec

(* The invariant says what is promised of the stores.                      *)
LEMMA FineCovers ==
  ASSUME MemoryFine
  PROVE  StoresAgree /\ FactsAddressable /\ CacheCovers
  <1>1. CanonFine /\ PullFine
    BY DEF MemoryFine
  <1>2. StoresAgree
    BY <1>1 DEF StoresAgree, CanonFine, PullFine, Agrees
  <1>3. RelationsCovered
    <2>1. SUFFICES ASSUME cursor.generation = Generation(up), cursor.scan = Nil,
                          NEW r \in up.relations
                   PROVE  r \in cache.relations
      BY DEF RelationsCovered
    <2>2. Generation(up) \in Generations /\ Generation(up).hash = up.relations
      BY CanonFacts, StoreTypes DEF Generation, Generations
    <2>3. cursor.generation # Nil
      BY <2>1, <2>2, NilIsNoScan
    <2>4. ScannedPast(cursor.scan, r)
      BY <2>1 DEF ScannedPast
    <2>5. r \in cache.relations \/ \E q \in cache.relations : SameEnds(q, r) /\ q.at > r.at
      BY <1>1, <2>1, <2>2, <2>3, <2>4 DEF PullFine, ScansCovered, ScanCovered
    <2>6. \A q \in cache.relations : SameEnds(q, r) => q.at <= r.at
      BY <1>1 DEF PullFine, RelationsFine
    <2>7. \A q \in cache.relations : q.at \in Nat
      BY StampsTyped
    <2>8. r.at \in Nat
      BY StampsTyped
    <2>9. QED BY <2>5, <2>6, <2>7, <2>8
  <1>4. CacheCovers
    BY <1>1, <1>3 DEF CacheCovers, PullFine, RecordsFine
  <1>5. QED BY <1>1, <1>2, <1>4 DEF CanonFine

-----------------------------------------------------------------------------
(* The restore of a backup.                                                *)

(* The order of the steps of a restore.                                    *)
LEMMA NextSteps ==
  /\ NextStep("preserve_hot") = "preserve_cold"
  /\ NextStep("preserve_cold") = "remove_hot"
  /\ NextStep("remove_hot") = "remove_cold"
  /\ NextStep("remove_cold") = "install_hot"
  /\ NextStep("install_hot") = "install_cold"
  /\ NextStep("install_cold") = "done"
  <1>1. /\ Steps[1] = "preserve_hot" /\ Steps[2] = "preserve_cold"
        /\ Steps[3] = "remove_hot" /\ Steps[4] = "remove_cold"
        /\ Steps[5] = "install_hot" /\ Steps[6] = "install_cold"
        /\ Steps[7] = "done"
    BY DEF Steps
  <1>2. ASSUME NEW k \in 1..6
        PROVE  (CHOOSE i \in 1..6 : Steps[i] = Steps[k]) = k
    <2>1. \A i \in 1..6 : Steps[i] = Steps[k] => i = k
      <3>1. SUFFICES ASSUME NEW i \in 1..6, Steps[i] = Steps[k] PROVE i = k
        OBVIOUS
      <3>2. i \in {1, 2, 3, 4, 5, 6} /\ k \in {1, 2, 3, 4, 5, 6}
        OBVIOUS
      <3>3. QED BY <1>1, <3>1, <3>2
    <2>2. \E i \in 1..6 : Steps[i] = Steps[k]
      OBVIOUS
    <2> DEFINE j == CHOOSE i \in 1..6 : Steps[i] = Steps[k]
    <2>3. j \in 1..6 /\ Steps[j] = Steps[k]
      BY <2>2
    <2>4. QED BY <2>1, <2>3
  <1>3. \A k \in 1..6 : NextStep(Steps[k]) = Steps[k + 1]
    BY <1>2 DEF NextStep
  <1>4. QED
    <2>1. /\ NextStep(Steps[1]) = Steps[2] /\ NextStep(Steps[2]) = Steps[3]
          /\ NextStep(Steps[3]) = Steps[4] /\ NextStep(Steps[4]) = Steps[5]
          /\ NextStep(Steps[5]) = Steps[6] /\ NextStep(Steps[6]) = Steps[7]
      BY <1>3
    <2>2. QED BY <1>1, <2>1

(* A restore is under way until its last step.                             *)
LEMMA StepsOfRestoring ==
  Restoring <=> restoring.step \in {"preserve_hot", "preserve_cold", "remove_hot",
                                    "remove_cold", "install_hot", "install_cold"}
  <1>1. /\ Steps[1] = "preserve_hot" /\ Steps[2] = "preserve_cold"
        /\ Steps[3] = "remove_hot" /\ Steps[4] = "remove_cold"
        /\ Steps[5] = "install_hot" /\ Steps[6] = "install_cold"
    BY DEF Steps
  <1>2. 1..6 = {1, 2, 3, 4, 5, 6}
    OBVIOUS
  <1>3. {Steps[i] : i \in 1..6} = {"preserve_hot", "preserve_cold", "remove_hot",
                                   "remove_cold", "install_hot", "install_cold"}
    BY <1>1, <1>2
  <1>4. QED BY <1>3 DEF Restoring

(* Where a restore is, or how it ended.                                    *)
StepNames ==
  {"none", "preserve_hot", "preserve_cold", "remove_hot", "remove_cold",
   "install_hot", "install_cold", "done", "failed", "stopped"}

(* A file that a restore found is preserved, or there was none.            *)
Preserved(tier) == restoring.before[tier] \in {Nil, previous[tier]}

(* A tier of the target is that of the backup.                             *)
Installed(tier) == target[tier] = IF made[tier] = Nil THEN Nil ELSE "backup"

(* How far a restore has come, and what it has done to the files.          *)
RestoreFine ==
  /\ target \in Files /\ previous \in Files
  /\ restoring \in [step : StepNames, before : Files]
  /\ made = Nil => restoring.step = "none"
  /\ snap # Nil => made = Nil
  /\ restoring.step \in {"preserve_hot", "preserve_cold", "remove_hot", "failed"} =>
       target = restoring.before
  /\ restoring.step = "preserve_cold" => Preserved("hot")
  /\ restoring.step \in {"remove_hot", "remove_cold", "install_hot", "install_cold", "done"} =>
       Preserved("hot") /\ Preserved("cold")
  /\ restoring.step \in {"remove_cold", "install_hot"} => target["hot"] = Nil
  /\ restoring.step \in {"install_hot", "install_cold"} => target["cold"] = Nil
  /\ restoring.step \in {"install_cold", "done"} => Installed("hot")
  /\ restoring.step = "done" => Installed("cold")
  /\ \A tier \in Tiers : restoring.before[tier] \in {Nil, target[tier], previous[tier]}

(* The invariant says what is promised of a restore.                       *)
LEMMA FineIsWhole ==
  ASSUME RestoreFine
  PROVE  RestoreIsWhole
  BY DEF RestoreFine, RestoreIsWhole, Installed, Tiers

(* A restore begins with the files it found.                               *)
LEMMA RestoreBeginKeeps ==
  ASSUME RestoreFine, RestoreBegin
  PROVE  RestoreFine'
  <1>1. /\ made # Nil
        /\ restoring' = [step |-> "preserve_hot", before |-> target]
        /\ UNCHANGED <<snap, made, target, previous>>
    BY DEF RestoreBegin
  <1>2. restoring'.step = "preserve_hot" /\ restoring'.before = target
    BY <1>1
  <1>3. restoring' \in [step : StepNames, before : Files]
    BY <1>1 DEF RestoreFine, StepNames
  <1>4. QED BY <1>1, <1>2, <1>3 DEF RestoreFine

(* A step that ends where the next begins.                                 *)
LEMMA RestoreStepMoves ==
  ASSUME RestoreFine, NEW step \in StepNames,
         restoring' = [restoring EXCEPT !.step = step]
  PROVE  /\ restoring'.step = step /\ restoring'.before = restoring.before
         /\ restoring' \in [step : StepNames, before : Files]
  BY DEF RestoreFine

(* A restore preserves both files before it removes one, and has removed   *)
(* both before it installs one.                                            *)
LEMMA RestoreStepKeeps ==
  ASSUME RestoreFine, RestoreStep
  PROVE  RestoreFine'
  <1>1. /\ Restoring
        /\ restoring' = [restoring EXCEPT !.step = NextStep(restoring.step)]
        /\ UNCHANGED <<snap, made>>
    BY DEF RestoreStep
  <1>2. target \in [Tiers -> {"old", "backup", Nil}] /\ previous \in [Tiers -> {"old", "backup", Nil}]
    BY DEF RestoreFine, Files
  <1>3. CASE restoring.step = "preserve_hot"
    <2>1. KeepFile("hot")
      BY <1>3 DEF RestoreStep
    <2>2. restoring'.step = "preserve_cold" /\ restoring'.before = restoring.before
          /\ restoring' \in [step : StepNames, before : Files]
      BY <1>1, <1>3, NextSteps, RestoreStepMoves DEF StepNames
    <2>3. target' = target /\ previous' \in Files
      BY <1>2, <2>1 DEF KeepFile, Files, Tiers
    <2>4. target["hot"] = Nil \/ previous'["hot"] = target["hot"]
      BY <1>2, <2>1 DEF KeepFile, Tiers
    <2>5. target = restoring.before
      BY <1>3 DEF RestoreFine
    <2>6. QED BY <1>1, <1>3, <2>2, <2>3, <2>4, <2>5 DEF RestoreFine, Preserved, Tiers
  <1>4. CASE restoring.step = "preserve_cold"
    <2>1. KeepFile("cold")
      BY <1>4 DEF RestoreStep
    <2>2. restoring'.step = "remove_hot" /\ restoring'.before = restoring.before
          /\ restoring' \in [step : StepNames, before : Files]
      BY <1>1, <1>4, NextSteps, RestoreStepMoves DEF StepNames
    <2>3. target' = target /\ previous' \in Files /\ previous'["hot"] = previous["hot"]
      BY <1>2, <2>1 DEF KeepFile, Files, Tiers
    <2>4. target["cold"] = Nil \/ previous'["cold"] = target["cold"]
      BY <1>2, <2>1 DEF KeepFile, Tiers
    <2>5. target = restoring.before /\ Preserved("hot")
      BY <1>4 DEF RestoreFine
    <2>6. QED BY <1>1, <1>4, <2>2, <2>3, <2>4, <2>5 DEF RestoreFine, Preserved, Tiers
  <1>5. CASE restoring.step = "remove_hot"
    <2>1. DropFile("hot")
      BY <1>5 DEF RestoreStep
    <2>2. restoring'.step = "remove_cold" /\ restoring'.before = restoring.before
          /\ restoring' \in [step : StepNames, before : Files]
      BY <1>1, <1>5, NextSteps, RestoreStepMoves DEF StepNames
    <2>3. previous' = previous /\ target' \in Files /\ target'["hot"] = Nil
      BY <1>2, <2>1 DEF DropFile, Files, Tiers
    <2>4. Preserved("hot") /\ Preserved("cold")
      BY <1>5 DEF RestoreFine
    <2>5. QED BY <1>1, <1>5, <2>2, <2>3, <2>4 DEF RestoreFine, Preserved, Tiers
  <1>6. CASE restoring.step = "remove_cold"
    <2>1. DropFile("cold")
      BY <1>6 DEF RestoreStep
    <2>2. restoring'.step = "install_hot" /\ restoring'.before = restoring.before
          /\ restoring' \in [step : StepNames, before : Files]
      BY <1>1, <1>6, NextSteps, RestoreStepMoves DEF StepNames
    <2>3. /\ previous' = previous /\ target' \in Files /\ target'["cold"] = Nil
          /\ target'["hot"] = target["hot"]
      BY <1>2, <2>1 DEF DropFile, Files, Tiers
    <2>4. Preserved("hot") /\ Preserved("cold") /\ target["hot"] = Nil
      BY <1>6 DEF RestoreFine
    <2>5. QED BY <1>1, <1>6, <2>2, <2>3, <2>4 DEF RestoreFine, Preserved, Tiers
  <1>7. CASE restoring.step = "install_hot"
    <2>1. InstallFile("hot")
      BY <1>7 DEF RestoreStep
    <2>2. restoring'.step = "install_cold" /\ restoring'.before = restoring.before
          /\ restoring' \in [step : StepNames, before : Files]
      BY <1>1, <1>7, NextSteps, RestoreStepMoves DEF StepNames
    <2>3. Preserved("hot") /\ Preserved("cold") /\ target["hot"] = Nil /\ target["cold"] = Nil
      BY <1>7 DEF RestoreFine
    <2>4. /\ previous' = previous /\ target' \in Files /\ target'["cold"] = target["cold"]
          /\ target'["hot"] = IF made["hot"] = Nil THEN Nil ELSE "backup"
      BY <1>2, <2>1, <2>3 DEF InstallFile, Files, Tiers
    <2>5. QED BY <1>1, <1>7, <2>2, <2>3, <2>4 DEF RestoreFine, Preserved, Installed, Tiers
  <1>8. CASE restoring.step = "install_cold"
    <2>1. InstallFile("cold")
      BY <1>8 DEF RestoreStep
    <2>2. restoring'.step = "done" /\ restoring'.before = restoring.before
          /\ restoring' \in [step : StepNames, before : Files]
      BY <1>1, <1>8, NextSteps, RestoreStepMoves DEF StepNames
    <2>3. Preserved("hot") /\ Preserved("cold") /\ target["cold"] = Nil /\ Installed("hot")
      BY <1>8 DEF RestoreFine
    <2>4. /\ previous' = previous /\ target' \in Files /\ target'["hot"] = target["hot"]
          /\ target'["cold"] = IF made["cold"] = Nil THEN Nil ELSE "backup"
      BY <1>2, <2>1, <2>3 DEF InstallFile, Files, Tiers
    <2>5. QED BY <1>1, <1>8, <2>2, <2>3, <2>4 DEF RestoreFine, Preserved, Installed, Tiers
  <1>9. QED BY <1>1, <1>3, <1>4, <1>5, <1>6, <1>7, <1>8, StepsOfRestoring

(* A failed restore puts back what it preserved.                           *)
LEMMA RestoreFailKeeps ==
  ASSUME RestoreFine, RestoreFail
  PROVE  RestoreFine'
  <1>1. /\ Restoring
        /\ target' = IF restoring.step \in {"preserve_hot", "preserve_cold"}
                     THEN target ELSE RolledBack
        /\ restoring' = [restoring EXCEPT !.step = "failed"]
        /\ UNCHANGED <<snap, made, previous>>
    BY DEF RestoreFail
  <1>2. /\ restoring'.step = "failed" /\ restoring'.before = restoring.before
        /\ restoring' \in [step : StepNames, before : Files]
    BY <1>1, RestoreStepMoves DEF StepNames
  <1>3. target' = restoring.before
    <2>1. CASE restoring.step \in {"preserve_hot", "preserve_cold"}
      BY <1>1, <2>1 DEF RestoreFine
    <2>2. CASE restoring.step \in {"remove_hot", "remove_cold", "install_hot", "install_cold"}
      <3>1. Preserved("hot") /\ Preserved("cold")
        BY <2>2 DEF RestoreFine
      <3>2. restoring.before \in [Tiers -> {"old", "backup", Nil}]
        BY DEF RestoreFine, Files
      <3>3. \A tier \in Tiers : restoring.before[tier] =
              IF restoring.before[tier] = Nil THEN Nil ELSE previous[tier]
        BY <3>1 DEF Preserved, Tiers
      <3>4. RolledBack = restoring.before
        BY <3>2, <3>3 DEF RolledBack
      <3>5. QED BY <1>1, <2>2, <3>4
    <2>3. QED BY <1>1, <2>1, <2>2, StepsOfRestoring
  <1>4. made # Nil
    BY <1>1, StepsOfRestoring DEF RestoreFine
  <1>5. restoring.before \in Files /\ previous \in Files
    BY DEF RestoreFine
  <1>6. QED BY <1>1, <1>2, <1>3, <1>4, <1>5 DEF RestoreFine, Tiers

(* A restore that dies leaves what it found, or its copy.                  *)
LEMMA RestoreStopKeeps ==
  ASSUME RestoreFine, RestoreStop
  PROVE  RestoreFine'
  <1>1. /\ Restoring
        /\ restoring' = [restoring EXCEPT !.step = "stopped"]
        /\ UNCHANGED <<snap, made, target, previous>>
    BY DEF RestoreStop
  <1>2. /\ restoring'.step = "stopped" /\ restoring'.before = restoring.before
        /\ restoring' \in [step : StepNames, before : Files]
    BY <1>1, RestoreStepMoves DEF StepNames
  <1>3. made # Nil
    BY <1>1, StepsOfRestoring DEF RestoreFine
  <1>4. QED BY <1>1, <1>2, <1>3 DEF RestoreFine

(* The backup steps, which touch no file of the target.                    *)
LEMMA BackupKeepsRestore ==
  ASSUME RestoreFine, BackupBegin \/ BackupTake \/ BackupEnd
  PROVE  RestoreFine'
  <1>1. UNCHANGED <<target, previous, restoring>> /\ made = Nil /\ restoring.step = "none"
    BY DEF RestoreFine, BackupBegin, BackupTake, BackupEnd
  <1>2. snap' # Nil => made' = Nil
    BY <1>1 DEF BackupBegin, BackupTake, BackupEnd
  <1>3. QED BY <1>1, <1>2 DEF RestoreFine

(* Every step keeps it.                                                    *)
LEMMA RestoreNext ==
  ASSUME RestoreFine, [BackNext]_backVars
  PROVE  RestoreFine'
  <1>1. UNCHANGED backup => RestoreFine'
    BY DEF RestoreFine, Preserved, Installed, backup
  <1>2. UNCHANGED backVars => UNCHANGED backup
    BY DEF backVars
  <1>3. QED
    BY <1>1, <1>2, RestoreBeginKeeps, RestoreStepKeeps, RestoreFailKeeps, RestoreStopKeeps,
       BackupKeepsRestore DEF BackNext

(* At first there is no restore.                                           *)
LEMMA RestoreInit ==
  ASSUME BackInit
  PROVE  RestoreFine
  <1>1. NoFiles \in Files /\ \A tier \in Tiers : NoFiles[tier] = Nil
    BY DEF NoFiles, Files
  <1>2. target \in Files
    <2>1. CASE target = NoFiles
      BY <1>1, <2>1
    <2>2. CASE target \in [Tiers -> {"old", Nil}]
      BY <2>2 DEF Files
    <2>3. QED BY <2>1, <2>2 DEF BackInit
  <1>3. /\ previous = NoFiles /\ snap = Nil /\ made = Nil
        /\ restoring = [step |-> "none", before |-> NoFiles]
    BY DEF BackInit
  <1>4. /\ restoring.step = "none" /\ restoring.before = NoFiles
        /\ restoring \in [step : StepNames, before : Files]
    BY <1>1, <1>3 DEF StepNames
  <1>5. QED BY <1>1, <1>2, <1>3, <1>4 DEF RestoreFine

(* A restore leaves the backup whole, or what it found.                    *)
THEOREM RestoresAreWhole == BackSpec => []RestoreIsWhole
  <1>1. BackInit => RestoreFine
    BY RestoreInit
  <1>2. RestoreFine /\ [BackNext]_backVars => RestoreFine'
    BY RestoreNext
  <1>3. RestoreFine => RestoreIsWhole
    BY FineIsWhole
  <1>4. QED BY <1>1, <1>2, <1>3, PTL DEF BackSpec

-----------------------------------------------------------------------------
(* Backups beside writers.                                                 *)

(* How the canonical store and its archive change while a backup is taken. *)
CanonGrows ==
  /\ gone \subseteq gone'
  /\ issued["fact"] \in Nat /\ issued'["fact"] \in Nat /\ issued'["fact"] >= issued["fact"]
  /\ Facts(cold) \subseteq Facts(cold')
  /\ \A f \in kept' : f \in kept \/ (f > issued["fact"] /\ f <= issued'["fact"])

(* The store and its archive grow so at every step: the cold tier loses no *)
(* fact.                                                                   *)
LEMMA StepsGrow ==
  ASSUME MemoryFine, Next \/ UNCHANGED otherVars
  PROVE  CanonGrows
  <1>1. issued["fact"] \in Nat
    BY StampsTyped
  <1>2. CASE WriteStep
    BY <1>1, <1>2 DEF WriteStep, UpStep, ColdStep, CanonGrows, Kinds
  <1>3. CASE UNCHANGED canonical
    BY <1>1, <1>3 DEF canonical, CanonGrows
  <1>4. CASE UNCHANGED otherVars
    BY <1>1, <1>4 DEF otherVars, CanonGrows
  <1>5. QED BY <1>2, <1>3, <1>4, StepsWriteOrPull

(* A copy of the hot store: its tables agree.                              *)
CopyFine(s) ==
  /\ s \in Stores
  /\ Agrees(s, gone)
  /\ RelationsDistinct(s)

(* The facts of a copy, which may have no file.                            *)
FactsIn(copy) == IF copy = Nil THEN {} ELSE Facts(copy)

(* A backup under way.                                                     *)
Snaps ==
  [taken : 0..2, hot : Maybe(Stores), cold : Maybe(Stores), due : SUBSET FactIds]

(* What a backup under way has copied, and where the rest is.              *)
SnapFine ==
  snap # Nil =>
    /\ snap \in Snaps
    /\ \A f \in snap.due : f <= issued["fact"]
    /\ snap.taken >= 1 => CopyFine(snap.hot)
    /\ snap.taken = 1 => snap.due \cap kept \subseteq Facts(snap.hot) \cup Facts(cold)
    /\ snap.taken = 2 => snap.due \cap kept \subseteq Facts(snap.hot) \cup FactsIn(snap.cold)

(* The cold tier of a backup, which may have no file.                      *)
Archived(copy) == IF copy = Nil THEN EmptyStore ELSE copy

(* A backup that was made.                                                 *)
MadeFine ==
  made # Nil =>
    /\ made.due \subseteq FactIds
    /\ \A f \in made.due : f <= issued["fact"]
    /\ CopyFine(made.hot)
    /\ made.due \cap kept \subseteq Facts(made.hot) \cup Facts(Archived(made.cold))
    /\ Facts(made.hot) \cap Facts(Archived(made.cold)) = {}
    /\ Missing(made.hot, Archived(made.cold)) = {}
    /\ made.cursor \in Cursors /\ Drained(made.hot, made.cursor)

(* The inductive invariant of the backups.                                 *)
BackupFine ==
  /\ kept \subseteq FactIds /\ \A f \in kept : f <= issued["fact"]
  /\ SnapFine
  /\ MadeFine

(* The invariant says what is promised of a backup.                        *)
LEMMA MadeIsComplete ==
  ASSUME MadeFine
  PROVE  BackupIsComplete
  <1>1. SUFFICES ASSUME made # Nil
                 PROVE  LET archived == Archived(made.cold)
                        IN  /\ made.due \cap kept \subseteq Facts(made.hot) \cup Facts(archived)
                            /\ Facts(made.hot) \cap Facts(archived) = {}
                            /\ NamesAgree(made.hot)
                            /\ ContentsDistinct(made.hot)
                            /\ LinksAgree(made.hot, gone)
                            /\ Missing(made.hot, archived) = {}
                            /\ Export(made.hot, made.cursor, Unlimited).records = <<>>
    BY DEF BackupIsComplete, Archived
  <1>2. /\ made.hot \in Stores /\ RelationsDistinct(made.hot)
        /\ NamesAgree(made.hot) /\ ContentsDistinct(made.hot) /\ LinksAgree(made.hot, gone)
        /\ made.cursor \in Cursors /\ Drained(made.hot, made.cursor)
    BY <1>1 DEF MadeFine, CopyFine, Agrees
  <1>3. Unlimited \in Nat
    BY LimitIsEnough
  <1>4. Export(made.hot, made.cursor, Unlimited).records = <<>>
    BY <1>2, <1>3, ExportSends
  <1>5. QED BY <1>1, <1>2, <1>4 DEF MadeFine

(* What was due stays due, and its copies still agree.                     *)
LEMMA BackupsGrow ==
  ASSUME BackupFine, CanonGrows, kept' \subseteq FactIds, UNCHANGED <<snap, made>>
  PROVE  BackupFine'
  <1>1. \A s : CopyFine(s) => CopyFine(s)'
    BY AgreesMore DEF CopyFine, CanonGrows
  <1>2. ASSUME NEW due \in SUBSET FactIds, \A f \in due : f <= issued["fact"]
        PROVE  due \cap kept' \subseteq due \cap kept /\ \A f \in due : f <= issued'["fact"]
    <2>1. \A f \in due : f \in Nat
      BY IdsAssumption
    <2>2. QED BY <1>2, <2>1 DEF CanonGrows
  <1>3. SnapFine'
    <2>1. SUFFICES ASSUME snap # Nil PROVE SnapFine'
      BY DEF SnapFine
    <2>2. snap \in Snaps /\ snap.due \in SUBSET FactIds
      BY <2>1 DEF BackupFine, SnapFine, Snaps
    <2>3. snap.due \cap kept' \subseteq snap.due \cap kept /\ \A f \in snap.due : f <= issued'["fact"]
      BY <1>2, <2>1, <2>2 DEF BackupFine, SnapFine
    <2>4. snap.taken >= 1 => CopyFine(snap.hot)'
      BY <1>1, <2>1 DEF BackupFine, SnapFine, CopyFine, CanonGrows
    <2>5. snap.taken = 1 => snap.due \cap kept' \subseteq Facts(snap.hot) \cup Facts(cold')
      BY <2>1, <2>3 DEF BackupFine, SnapFine, CanonGrows
    <2>6. snap.taken = 2 => snap.due \cap kept' \subseteq Facts(snap.hot) \cup FactsIn(snap.cold)
      BY <2>1, <2>3 DEF BackupFine, SnapFine
    <2>7. QED BY <2>2, <2>3, <2>4, <2>5, <2>6 DEF SnapFine
  <1>4. MadeFine'
    <2>1. SUFFICES ASSUME made # Nil PROVE MadeFine'
      BY DEF MadeFine
    <2>2. made.due \in SUBSET FactIds
      BY <2>1 DEF BackupFine, MadeFine
    <2>3. made.due \cap kept' \subseteq made.due \cap kept /\ \A f \in made.due : f <= issued'["fact"]
      BY <1>2, <2>1, <2>2 DEF BackupFine, MadeFine
    <2>4. CopyFine(made.hot)'
      BY <1>1, <2>1 DEF BackupFine, MadeFine, CopyFine, CanonGrows
    <2>5. QED BY <2>1, <2>2, <2>3, <2>4 DEF BackupFine, MadeFine
  <1>5. \A f \in kept' : f <= issued'["fact"]
    <2>1. SUFFICES ASSUME NEW f \in kept' PROVE f <= issued'["fact"]
      OBVIOUS
    <2>2. f \in Nat
      BY IdsAssumption
    <2>3. f \in kept => f <= issued["fact"]
      BY DEF BackupFine
    <2>4. QED BY <2>2, <2>3 DEF CanonGrows
  <1>6. QED BY <1>3, <1>4, <1>5 DEF BackupFine

(* A backup begins: all that is kept is due.                               *)
LEMMA BackupBeginKeeps ==
  ASSUME MemoryFine, BackupFine, BackupBegin
  PROVE  BackupFine'
  <1>1. /\ made = Nil
        /\ snap' = [taken |-> 0, hot |-> Nil, cold |-> Nil, due |-> kept]
        /\ UNCHANGED <<up, cold, kept, gone, issued, made>>
    BY DEF BackupBegin, vars, history
  <1>2. kept \in SUBSET FactIds /\ \A f \in kept : f <= issued["fact"]
    BY DEF BackupFine
  <1>3. snap' \in Snaps /\ snap'.taken = 0 /\ snap'.due = kept
    BY <1>1, <1>2 DEF Snaps, Maybe
  <1>4. SnapFine'
    BY <1>1, <1>2, <1>3 DEF SnapFine
  <1>5. MadeFine'
    BY <1>1 DEF MadeFine
  <1>6. QED BY <1>1, <1>2, <1>4, <1>5 DEF BackupFine

(* What a backup has once another tier is copied.                          *)
Taken(b, n, tier, copy) == [b EXCEPT !.taken = n, ![tier] = copy]

(* A copy of one tier is put where it belongs.                             *)
LEMMA SnapTaken ==
  ASSUME NEW b \in Snaps, NEW n \in 0..2, NEW copy \in Maybe(Stores), NEW tier \in Tiers,
         NEW next, next = Taken(b, n, tier, copy)
  PROVE  /\ next \in Snaps /\ next.taken = n /\ next.due = b.due
         /\ tier = "hot" => next.hot = copy /\ next.cold = b.cold
         /\ tier = "cold" => next.cold = copy /\ next.hot = b.hot
  <1> DEFINE c == [b EXCEPT !.taken = n]
  <1>1. c \in Snaps /\ c.taken = n /\ c.due = b.due /\ c.hot = b.hot /\ c.cold = b.cold
    BY DEF Snaps
  <1>2. next = [c EXCEPT ![tier] = copy]
    BY DEF Snaps, Taken
  <1> HIDE DEF c
  <1>3. CASE tier = "hot"
    <2>1. next \in Snaps
      BY <1>1, <1>2, <1>3 DEF Snaps
    <2>2. next.taken = n /\ next.due = b.due /\ next.hot = copy /\ next.cold = b.cold
      BY <1>1, <1>2, <1>3 DEF Snaps
    <2>3. QED BY <1>3, <2>1, <2>2
  <1>4. CASE tier = "cold"
    <2>1. next \in Snaps
      BY <1>1, <1>2, <1>4 DEF Snaps
    <2>2. next.taken = n /\ next.due = b.due /\ next.cold = copy /\ next.hot = b.hot
      BY <1>1, <1>2, <1>4 DEF Snaps
    <2>3. QED BY <1>4, <2>1, <2>2
  <1>5. QED BY <1>3, <1>4 DEF Tiers

(* The next tier is copied. A fact that leaves the hot tier afterwards is  *)
(* in the copy, and one that left it before is in the cold tier, which is  *)
(* copied later and loses none.                                            *)
LEMMA BackupTakeKeeps ==
  ASSUME MemoryFine, BackupFine, BackupTake
  PROVE  BackupFine'
  <1> DEFINE tier == Order[snap.taken + 1]
  <1> DEFINE copy == IF tier = "hot" THEN up ELSE IF cold = EmptyStore THEN Nil ELSE cold
  <1>1. /\ snap # Nil /\ snap.taken < 2
        /\ snap' = [snap EXCEPT !.taken = snap.taken + 1, ![tier] = copy]
        /\ UNCHANGED <<up, cold, kept, gone, issued, made>>
    BY DEF BackupTake, vars, history
  <1>2. /\ snap \in Snaps /\ snap.taken \in 0..2 /\ snap.due \in SUBSET FactIds
        /\ \A f \in snap.due : f <= issued["fact"]
        /\ kept \subseteq FactIds /\ \A f \in kept : f <= issued["fact"]
    BY <1>1 DEF BackupFine, SnapFine, Snaps
  <1>3. /\ up \in Stores /\ cold \in Stores /\ CopyFine(up)
        /\ \A f \in kept : f \in Facts(up) \/ f \in Facts(cold)
    BY CanonFacts DEF CopyFine, Agrees, FactsAddressable
  <1>4. CASE snap.taken = 0
    <2>1. tier = "hot" /\ copy = up /\ snap.taken + 1 = 1
      BY <1>4 DEF Order
    <2>2. snap' = [snap EXCEPT !.taken = 1, !["hot"] = up]
      BY <1>1, <2>1
    <2>3. snap' \in Snaps /\ snap'.taken = 1 /\ snap'.due = snap.due /\ snap'.hot = up
      <3> DEFINE n == 1
      <3> DEFINE h == "hot"
      <3>1. n \in 0..2 /\ h \in Tiers /\ up \in Maybe(Stores)
        BY <1>3 DEF Tiers, Maybe
      <3>2. snap' = Taken(snap, n, h, up)
        BY <2>2 DEF Taken
      <3> HIDE DEF n, h
      <3>3. /\ snap' \in Snaps /\ snap'.taken = n /\ snap'.due = snap.due
            /\ h = "hot" => snap'.hot = up /\ snap'.cold = snap.cold
        BY <1>2, <3>1, <3>2, SnapTaken
      <3>4. QED BY <3>3 DEF n, h
    <2>4. CopyFine(snap.hot)'
      BY <1>1, <1>3, <2>3 DEF CopyFine
    <2>5. snap'.due \cap kept \subseteq Facts(up) \cup Facts(cold)
      BY <1>3
    <2>6. SnapFine'
      BY <1>1, <1>2, <2>3, <2>4, <2>5 DEF SnapFine
    <2>7. QED BY <1>1, <1>2, <2>6 DEF BackupFine, MadeFine, CopyFine
  <1>5. CASE snap.taken = 1
    <2> DEFINE stored == IF cold = EmptyStore THEN Nil ELSE cold
    <2>1. tier = "cold" /\ copy = stored /\ snap.taken + 1 = 2
      BY <1>5 DEF Order
    <2>2. snap' = [snap EXCEPT !.taken = 2, !["cold"] = stored]
      BY <1>1, <2>1
    <2>3. stored \in Maybe(Stores) /\ Facts(cold) \subseteq FactsIn(stored)
      <3>1. CASE cold = EmptyStore
        BY <3>1, EmptyStoreFine DEF Maybe
      <3>2. CASE cold # EmptyStore /\ cold # Nil
        BY <1>3, <3>2 DEF Maybe, FactsIn
      <3>3. cold # Nil
        BY <1>3, NilIsNoStore
      <3>4. QED BY <3>1, <3>2, <3>3
    <2> HIDE DEF stored
    <2>4. /\ snap' \in Snaps /\ snap'.taken = 2 /\ snap'.due = snap.due
          /\ snap'.hot = snap.hot /\ snap'.cold = stored
      <3> DEFINE n == 2
      <3> DEFINE c == "cold"
      <3>1. n \in 0..2 /\ c \in Tiers
        BY DEF Tiers
      <3>2. snap' = Taken(snap, n, c, stored)
        BY <2>2 DEF Taken
      <3> HIDE DEF n, c
      <3>3. /\ snap' \in Snaps /\ snap'.taken = n /\ snap'.due = snap.due
            /\ c = "cold" => snap'.cold = stored /\ snap'.hot = snap.hot
        BY <1>2, <2>3, <3>1, <3>2, SnapTaken
      <3>4. QED BY <3>3 DEF n, c
    <2>5. CopyFine(snap.hot)'
      BY <1>1, <1>5, <2>4 DEF BackupFine, SnapFine, CopyFine
    <2>6. snap.due \cap kept \subseteq Facts(snap.hot) \cup Facts(cold)
      BY <1>1, <1>5 DEF BackupFine, SnapFine
    <2>7. snap'.due \cap kept \subseteq Facts(snap'.hot) \cup FactsIn(snap'.cold)
      BY <2>3, <2>4, <2>6
    <2>8. SnapFine'
      BY <1>1, <1>2, <2>4, <2>5, <2>7 DEF SnapFine
    <2>9. QED BY <1>1, <1>2, <2>8 DEF BackupFine, MadeFine, CopyFine
  <1>6. QED BY <1>1, <1>2, <1>4, <1>5

(* What a reconciled copy holds, table by table.                           *)
LEMMA ReconciledTables ==
  ASSUME NEW h \in Stores, NEW c \in Stores, NEW l \in Stores
  PROVE  LET new == Reconciled(h, c, l)
             M == Missing(h, c)
         IN  /\ new.entities = [e \in EntityIds |-> IF e \in M THEN l.entities[e] ELSE h.entities[e]]
             /\ new.names = [n \in Names |-> IF l.names[n] \in M THEN l.names[n] ELSE h.names[n]]
             /\ new.facts = [f \in FactIds |-> IF f \in Facts(c) THEN Nil ELSE h.facts[f]]
             /\ new.linked = {k \in h.linked : k[2] \notin Facts(c)}
             /\ new.relations = h.relations
             /\ new \in Stores
  <1> DEFINE M == Missing(h, c)
             es == [e \in EntityIds |-> IF e \in M THEN l.entities[e] ELSE h.entities[e]]
             ns == [n \in Names |-> IF l.names[n] \in M THEN l.names[n] ELSE h.names[n]]
             fs == [f \in FactIds |-> IF f \in Facts(c) THEN Nil ELSE h.facts[f]]
             ls == {k \in h.linked : k[2] \notin Facts(c)}
             new == Reconciled(h, c, l)
  <1>1. new = [h EXCEPT !.entities = es, !.names = ns, !.facts = fs, !.linked = ls]
    BY DEF Reconciled
  <1>2. es \in [EntityIds -> Maybe(EntityRecords)]
    BY StoreTypes
  <1>3. ns \in [Names -> Maybe(EntityIds)]
    BY StoreTypes
  <1>4. fs \in [FactIds -> Maybe(FactRecords)]
    <2>1. \A f \in FactIds : h.facts[f] \in Maybe(FactRecords)
      BY StoreTypes
    <2>2. \A f \in FactIds : fs[f] \in Maybe(FactRecords)
      BY <2>1 DEF Maybe
    <2>3. QED BY <2>2
  <1>5. ls \in SUBSET (EntityIds \X FactIds)
    BY StoreTypes
  <1> HIDE DEF es, ns, fs, ls, new
  <1>6. /\ new.entities = es /\ new.names = ns /\ new.facts = fs /\ new.linked = ls
        /\ new.relations = h.relations /\ new \in Stores
    BY <1>1, <1>2, <1>3, <1>4, <1>5 DEF Stores
  <1>7. QED BY <1>6 DEF new, es, ns, fs, ls, M

(* Taking the entities of cold facts from a later copy, and dropping the   *)
(* facts that the cold copy has, leaves tables that agree.                 *)
LEMMA ReconciledFine ==
  ASSUME NEW h, NEW c \in Stores, NEW l, CopyFine(h), CopyFine(l), Reconcilable(h, c, l)
  PROVE  LET new == Reconciled(h, c, l)
         IN  /\ CopyFine(new)
             /\ Facts(new) = Facts(h) \ Facts(c)
             /\ Missing(new, c) = {}
  <1> DEFINE M == Missing(h, c)
             new == Reconciled(h, c, l)
  <1>1. h \in Stores /\ l \in Stores
    BY DEF CopyFine
  <1>2. /\ new.entities = [e \in EntityIds |-> IF e \in M THEN l.entities[e] ELSE h.entities[e]]
        /\ new.names = [n \in Names |-> IF l.names[n] \in M THEN l.names[n] ELSE h.names[n]]
        /\ new.facts = [f \in FactIds |-> IF f \in Facts(c) THEN Nil ELSE h.facts[f]]
        /\ new.linked = {k \in h.linked : k[2] \notin Facts(c)}
        /\ new.relations = h.relations
        /\ new \in Stores
    BY <1>1, ReconciledTables
  <1>3. /\ M \cap Entities(h) = {} /\ M \subseteq Entities(l)
        /\ \A n \in Names : l.names[n] \in M => h.names[n] = Nil
    BY DEF Missing, Reconcilable
  <1>4. M \subseteq EntityIds
    BY <1>3 DEF Entities
  <1>5. \A e \in M : new.entities[e] = l.entities[e] /\ e \in Entities(new)
    BY <1>2, <1>3, <1>4 DEF Entities
  <1>6. \A e \in EntityIds \ M : /\ new.entities[e] = h.entities[e]
                                 /\ e \in Entities(new) <=> e \in Entities(h)
    BY <1>2 DEF Entities
  <1>7. Missing(new, c) = {}
    <2>1. SUFFICES ASSUME NEW k \in c.linked, k[1] \notin Entities(new) PROVE FALSE
      BY DEF Missing
    <2>2. k[1] \in EntityIds
      BY StoreTypes
    <2>3. k[1] \notin M
      BY <1>5, <2>1
    <2>4. k[1] \in Entities(h)
      BY <2>1, <2>3 DEF Missing
    <2>5. QED BY <1>6, <2>1, <2>2, <2>3, <2>4
  <1>8. NamesAgree(new)
    <2>1. SUFFICES ASSUME NEW n \in Names, NEW e \in EntityIds
                   PROVE  new.names[n] = e <=> e \in Entities(new) /\ n \in NamesOf(new.entities[e])
      BY DEF NamesAgree
    <2>2. new.names[n] = IF l.names[n] \in M THEN l.names[n] ELSE h.names[n]
      BY <1>2
    <2>3. /\ h.names[n] = e <=> e \in Entities(h) /\ n \in NamesOf(h.entities[e])
          /\ l.names[n] = e <=> e \in Entities(l) /\ n \in NamesOf(l.entities[e])
      BY DEF CopyFine, Agrees, NamesAgree
    <2> HIDE DEF M, new
    <2>4. CASE e \in M
      <3>1. new.names[n] = e <=> l.names[n] = e
        BY <1>3, <2>2, <2>3, <2>4
      <3>2. QED BY <1>3, <1>5, <2>3, <2>4, <3>1
    <2>5. CASE e \notin M
      <3>1. e # Nil
        BY IdsAssumption, NilAssumption
      <3>2. new.names[n] = e <=> h.names[n] = e
        BY <1>3, <2>2, <2>5, <3>1
      <3>3. QED BY <1>6, <2>3, <2>5, <3>2
    <2>6. QED BY <2>4, <2>5
  <1>9. /\ Facts(new) = Facts(h) \ Facts(c)
        /\ \A f \in Facts(new) : new.facts[f] = h.facts[f]
    BY <1>2 DEF Facts
  <1>10. ContentsDistinct(new)
    BY <1>9 DEF CopyFine, Agrees, ContentsDistinct
  <1>11. LinksAgree(new, gone)
    <2>1. SUFFICES ASSUME NEW f \in FactIds, NEW e \in EntityIds
                   PROVE  /\ <<e, f>> \in new.linked => f \in Facts(new) /\ e \in new.facts[f].links
                          /\ f \in Facts(new) /\ e \in new.facts[f].links \ gone
                               => <<e, f>> \in new.linked
      BY DEF LinksAgree
    <2>2. /\ <<e, f>> \in h.linked => f \in Facts(h) /\ e \in h.facts[f].links
          /\ f \in Facts(h) /\ e \in h.facts[f].links \ gone => <<e, f>> \in h.linked
      BY DEF CopyFine, Agrees, LinksAgree
    <2>3. <<e, f>> \in new.linked <=> <<e, f>> \in h.linked /\ f \notin Facts(c)
      BY <1>2
    <2> HIDE DEF new
    <2>4. QED BY <1>9, <2>2, <2>3
  <1>12. RelationsDistinct(new)
    BY <1>2 DEF CopyFine, RelationsDistinct
  <1>13. QED BY <1>2, <1>7, <1>8, <1>9, <1>10, <1>11, <1>12 DEF CopyFine, Agrees

(* A copy that agrees, and the facts of the cold copy, make a backup.      *)
LEMMA MadeKeeps ==
  ASSUME BackupFine, NEW h, CopyFine(h), snap # Nil,
         snap.due \cap kept \subseteq Facts(h) \cup Facts(Archived(snap.cold)),
         Facts(h) \cap Facts(Archived(snap.cold)) = {},
         Missing(h, Archived(snap.cold)) = {},
         made' = Made(h), UNCHANGED <<kept, gone, issued>>
  PROVE  MadeFine'
  <1>1. /\ made'.hot = h /\ made'.cold = snap.cold /\ made'.due = snap.due
        /\ made'.cursor = DrainedCursor(h)
    BY DEF Made
  <1>2. h \in Stores /\ RelationsDistinct(h)
    BY DEF CopyFine
  <1>3. made'.cursor \in Cursors /\ Drained(h, made'.cursor)
    BY <1>1, <1>2, DrainedCursorDrains
  <1>4. snap.due \subseteq FactIds /\ \A f \in snap.due : f <= issued["fact"]
    BY DEF BackupFine, SnapFine, Snaps
  <1>5. h \in Stores /\ Agrees(h, gone') /\ RelationsDistinct(h)
    BY DEF CopyFine
  <1>6. CopyFine(made.hot)'
    BY <1>1, <1>5 DEF CopyFine
  <1>7. MadeFine'
    BY <1>1, <1>3, <1>4, <1>6 DEF MadeFine
  <1>8. QED BY <1>7

(* The copies are reconciled, or the backup fails.                         *)
LEMMA BackupEndKeeps ==
  ASSUME MemoryFine, BackupFine, BackupEnd
  PROVE  BackupFine'
  <1>1. /\ snap # Nil /\ snap.taken = 2 /\ snap' = Nil
        /\ made' = IF snap.cold = Nil THEN Made(snap.hot)
                   ELSE IF Reconcilable(snap.hot, snap.cold, up)
                   THEN Made(Reconciled(snap.hot, snap.cold, up))
                   ELSE Nil
        /\ UNCHANGED <<up, cold, kept, gone, issued>>
    BY DEF BackupEnd, vars, history
  <1>2. /\ CopyFine(snap.hot) /\ snap.cold \in Maybe(Stores)
        /\ snap.due \cap kept \subseteq Facts(snap.hot) \cup FactsIn(snap.cold)
    BY <1>1 DEF BackupFine, SnapFine, Snaps
  <1>3. CopyFine(up)
    BY CanonFacts DEF CopyFine, Agrees
  <1>4. MadeFine'
    <2>1. CASE snap.cold = Nil
      <3>1. Archived(snap.cold) = EmptyStore /\ FactsIn(snap.cold) = {}
        BY <2>1 DEF Archived, FactsIn
      <3>2. Facts(EmptyStore) = {} /\ Missing(snap.hot, EmptyStore) = {}
        BY EmptyStoreFine DEF Missing, EmptyStore
      <3>3. QED BY <1>1, <1>2, <2>1, <3>1, <3>2, MadeKeeps
    <2>2. CASE snap.cold # Nil /\ Reconcilable(snap.hot, snap.cold, up)
      <3> DEFINE new == Reconciled(snap.hot, snap.cold, up)
      <3>1. snap.cold \in Stores /\ Archived(snap.cold) = snap.cold
            /\ FactsIn(snap.cold) = Facts(snap.cold)
        BY <1>2, <2>2 DEF Maybe, Archived, FactsIn
      <3>2. /\ CopyFine(new) /\ Facts(new) = Facts(snap.hot) \ Facts(snap.cold)
            /\ Missing(new, snap.cold) = {}
        BY <1>2, <1>3, <2>2, <3>1, ReconciledFine
      <3>3. made' = Made(new)
        BY <1>1, <2>2
      <3> HIDE DEF new
      <3>4. snap.due \cap kept \subseteq Facts(new) \cup Facts(snap.cold)
        BY <1>2, <3>1, <3>2
      <3>5. Facts(new) \cap Facts(snap.cold) = {}
        BY <3>2
      <3>6. QED BY <1>1, <3>1, <3>2, <3>3, <3>4, <3>5, MadeKeeps
    <2>3. CASE snap.cold # Nil /\ ~Reconcilable(snap.hot, snap.cold, up)
      BY <1>1, <2>3 DEF MadeFine
    <2>4. QED BY <2>1, <2>2, <2>3
  <1>5. SnapFine'
    BY <1>1 DEF SnapFine
  <1>6. QED BY <1>1, <1>4, <1>5 DEF BackupFine

(* Every step of the store beside its backups.                             *)
LEMMA BackSteps ==
  ASSUME MemoryFine, [BackNext]_backVars
  PROVE  /\ MemoryFine'
         /\ Next \/ UNCHANGED otherVars
  <1>1. UNCHANGED vars => UNCHANGED otherVars
    BY DEF vars, otherVars, download, branch, history
  <1>2. Next \/ UNCHANGED otherVars
    <2>1. UNCHANGED backVars => UNCHANGED vars
      BY DEF backVars
    <2>2. BackupBegin \/ BackupTake \/ BackupEnd \/ RestoreBegin \/ RestoreStep
            => UNCHANGED vars
      BY DEF BackupBegin, BackupTake, BackupEnd, RestoreBegin, RestoreStep
    <2>3. RestoreFail \/ RestoreStop => UNCHANGED otherVars
      BY DEF RestoreFail, RestoreStop
    <2>4. QED BY <1>1, <2>1, <2>2, <2>3 DEF BackNext
  <1>3. Next => MemoryFine'
    BY MemoryNext
  <1>4. QED BY <1>2, <1>3, MemoryStutters

(* Every step keeps the invariant of the backups.                          *)
LEMMA BackupNext ==
  ASSUME MemoryFine, BackupFine, [BackNext]_backVars
  PROVE  BackupFine'
  <1>1. MemoryFine' /\ CanonGrows
    BY BackSteps, StepsGrow
  <1>2. kept' \subseteq FactIds
    BY <1>1 DEF MemoryFine, CanonFine, CanonTypes
  <1>3. UNCHANGED <<snap, made>> => BackupFine'
    BY <1>1, <1>2, BackupsGrow
  <1>4. \/ BackupBegin \/ BackupTake \/ BackupEnd
        \/ UNCHANGED <<snap, made>>
    BY DEF BackNext, RestoreBegin, RestoreStep, RestoreFail, RestoreStop, backVars, backup
  <1>5. QED BY <1>3, <1>4, BackupBeginKeeps, BackupTakeKeeps, BackupEndKeeps

(* Both invariants hold at first.                                          *)
LEMMA BackupInit ==
  ASSUME BackInit
  PROVE  MemoryFine /\ BackupFine
  <1>1. MemoryFine
    BY InitFine DEF BackInit
  <1>2. kept \subseteq FactIds /\ \A f \in kept : f <= issued["fact"]
    <2>1. kept = Facts(up)
      BY DEF BackInit, Init
    <2>2. QED BY <1>1, <2>1 DEF MemoryFine, CanonFine, CanonTypes
  <1>3. snap = Nil /\ made = Nil
    BY DEF BackInit
  <1>4. QED BY <1>1, <1>2, <1>3 DEF BackupFine, SnapFine, MadeFine

(* The two invariants, of the store with its backups.                      *)
LEMMA BackStaysFine == BackSpec => [](MemoryFine /\ BackupFine)
  <1>1. BackInit => MemoryFine /\ BackupFine
    BY BackupInit
  <1>2. MemoryFine /\ BackupFine /\ [BackNext]_backVars => (MemoryFine /\ BackupFine)'
    BY BackSteps, BackupNext
  <1>3. QED BY <1>1, <1>2, PTL DEF BackSpec

(* Whatever is written, pulled, merged, archived or deleted, the tables of *)
(* the canonical store, of the read cache and of the cold tier agree.      *)
THEOREM StoresAlwaysAgree == BackSpec => []StoresAgree
  <1>1. MemoryFine /\ BackupFine => StoresAgree
    BY FineCovers
  <1>2. QED BY <1>1, BackStaysFine, PTL

(* A fact that was not deleted is in a tier, however archiving went.       *)
THEOREM FactsAlwaysAddressable == BackSpec => []FactsAddressable
  <1>1. MemoryFine /\ BackupFine => FactsAddressable
    BY FineCovers
  <1>2. QED BY <1>1, BackStaysFine, PTL

(* What a cursor is past has reached the cache, except a late commit and a *)
(* skipped record, whatever the interleaving of pulls, writes and stops.   *)
THEOREM CursorsAreCovered == BackSpec => []CacheCovers
  <1>1. MemoryFine /\ BackupFine => CacheCovers
    BY FineCovers
  <1>2. QED BY <1>1, BackStaysFine, PTL

(* A backup taken beside writers and archivers is complete and agrees.     *)
THEOREM BackupsAreComplete == BackSpec => []BackupIsComplete
  <1>1. MemoryFine /\ BackupFine => BackupIsComplete
    BY MadeIsComplete DEF BackupFine
  <1>2. QED BY <1>1, BackStaysFine, PTL
=============================================================================
