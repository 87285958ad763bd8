--------------------------- MODULE ArtifactsProofs ---------------------------
(***************************************************************************)
(* For every number of paths, generations and calls, every body store and  *)
(* every length of the deadlines: readers find the body, nothing leaks and *)
(* retried publications agree.                                             *)
(***************************************************************************)
EXTENDS Artifacts, FiniteSetTheorems, TLAPS

(* What the catalog names was issued, under one path each; what a token's  *)
(* publication was answered with is what is, or was, published with it.    *)
Named ==
  /\ \A p \in Paths : reservations[p] # Nil =>
       /\ reservations[p].path = p
       /\ reservations[p].gen <= issued
       /\ answered[reservations[p].gen] = Nil
  /\ \A p, q \in Paths :
       /\ reservations[p] # Nil /\ reservations[q] # Nil
       /\ reservations[p].gen = reservations[q].gen
       => p = q
  /\ \A p \in Paths : paths[p] # Nil =>
       paths[p].path = p /\ answered[paths[p].gen] = paths[p]
  /\ \A g \in Gens : publications[g] # Nil =>
       answered[g] = publications[g].reference
  /\ \A g \in Gens : answered[g] # Nil =>
       answered[g].gen = g /\ g <= issued
  /\ \A g \in Gens : receipts[g] # Nil =>
       receipts[g].reservation.gen <= issued
  /\ \A k \in Calls : calls[k] # Nil => calls[k].reservation.gen <= issued
  /\ \A g \in Gens : queue[g] # Nil => g <= issued

(* A catalog that was ever served has its body store.                      *)
Bound ==
  /\ up => identity \in Adapters
  /\ \A k \in Calls : calls[k] # Nil => identity = "s3" /\ identity \in Adapters
  /\ grants # {} => identity = "s3" /\ identity \in Adapters

(* What a collector pass has in hand is named by nothing, is read by       *)
(* nobody, and cannot be uploaded for the first time.                      *)
Collected ==
  \A g \in Gens : pass[g] # "none" =>
    /\ up
    /\ queue[g] # Nil
    /\ ~Published(g) /\ ~Reserved(g)
    /\ retentions[g] = 0
    /\ answered[g] = Nil => ends[g] = 0
    /\ pass[g] = "held" \/ g \in repeated \/ objects[identity][g] = Nil

(* A grant is covered by a retention, and a generation that may still be   *)
(* uploaded for the first time is reserved or not yet due.                 *)
Waits(g) ==
  Reserved(g) \/ (queue[g] # Nil /\ queue[g].due >= ends[g])

Deadlines ==
  \A g \in Gens :
    /\ downloads[g] <= retentions[g]
    /\ answered[g] = Nil /\ ends[g] > 0 => Waits(g)

(* The bodies are where the catalog, the readers and the publications that *)
(* observed them look for them.                                            *)
Bodies ==
  /\ \A a \in Adapters, g \in Gens : objects[a][g] # Nil => a = identity
  /\ \A p \in Paths : paths[p] # Nil =>
       /\ identity \in Adapters
       /\ objects[identity][paths[p].gen] = paths[p].body
  /\ \A g \in Gens : downloads[g] > 0 =>
       identity \in Adapters /\ objects[identity][g] # Nil
  /\ \A k \in Calls :
       /\ calls[k] # Nil
       /\ calls[k].body # Nil
       /\ reservations[calls[k].reservation.path] = calls[k].reservation
       => objects["s3"][calls[k].reservation.gen] = calls[k].body

IInv ==
  TypeOK /\ Named /\ Bound /\ Collected /\ Deadlines /\ Bodies /\ NothingLeaks

-----------------------------------------------------------------------------

(* Powers of two count subsets, so the delays of retries are numbers.      *)
LEMMA PowerIsNat ==
  ASSUME NEW n \in Nat
  PROVE  2 ^ n \in Nat
<1>. DEFINE S == 1..n
<1>1. IsFiniteSet(S) /\ Cardinality(S) = n
  BY FS_Interval
<1>2. IsFiniteSet(SUBSET S) /\ Cardinality(SUBSET S) = 2 ^ Cardinality(S)
  BY <1>1, FS_SUBSET
<1>3. Cardinality(SUBSET S) \in Nat
  BY <1>2, FS_CardinalityType
<1>. QED
  BY <1>1, <1>2, <1>3

(* A batch is a subset of what it is taken from.                           *)
LEMMA BatchIsSubset ==
  ASSUME NEW S, NEW limit, NEW T \in Batches(S, limit)
  PROVE  T \subseteq S
  BY DEF Batches

(* The shapes of what the tables hold.                                     *)
LEMMA Shapes ==
  ASSUME IInv
  PROVE  /\ MaxGen \in Nat /\ Ttl \in Nat /\ Grace \in Nat
         /\ GcLease \in Nat /\ Retention \in Nat
         /\ Gens \subseteq Nat
         /\ issued \in Nat
         /\ \A p \in Paths : reservations[p] # Nil =>
              /\ reservations[p] \in Reservations
              /\ reservations[p].path \in Paths /\ reservations[p].gen \in Gens
         /\ \A p \in Paths : paths[p] # Nil =>
              /\ paths[p] \in References
              /\ paths[p].gen \in Gens /\ paths[p].body \in Contents
         /\ \A g \in Gens : queue[g] # Nil => queue[g] \in QueueRows
         /\ \A g \in Gens : receipts[g] # Nil =>
              /\ receipts[g].reservation \in Reservations
              /\ receipts[g].request \in Requests /\ receipts[g].left \in Nat
         /\ \A g \in Gens : publications[g] # Nil =>
              /\ publications[g].reference \in References
              /\ publications[g].left \in Nat
         /\ \A k \in Calls : calls[k] # Nil => calls[k] \in Publishing
         /\ \A r \in Reservations :
              r.path \in Paths /\ r.gen \in Gens /\ r.revision \in Nat
         /\ Nil \notin Contents \cup Reservations \cup References
                       \cup Publishing \cup Adapters \cup QueueRows
<1>. USE DEF IInv, TypeOK, Maybe
<1>1. /\ MaxGen \in Nat /\ Ttl \in Nat /\ Grace \in Nat
      /\ GcLease \in Nat /\ Retention \in Nat
      /\ Gens \subseteq Nat
      /\ issued \in Nat
  BY BoundsAssumption DEF Gens
<1>2. \A p \in Paths : reservations[p] # Nil =>
        /\ reservations[p] \in Reservations
        /\ reservations[p].path \in Paths /\ reservations[p].gen \in Gens
  BY DEF Reservations
<1>3. \A p \in Paths : paths[p] # Nil =>
        /\ paths[p] \in References
        /\ paths[p].gen \in Gens /\ paths[p].body \in Contents
  BY DEF References
<1>4. \A g \in Gens : queue[g] # Nil => queue[g] \in QueueRows
  OBVIOUS
<1>5. \A g \in Gens : receipts[g] # Nil =>
        /\ receipts[g].reservation \in Reservations
        /\ receipts[g].request \in Requests /\ receipts[g].left \in Nat
  <2>. SUFFICES ASSUME NEW g \in Gens, receipts[g] # Nil
                PROVE  receipts[g] \in [request : Requests,
                                        reservation : Reservations, left : Nat]
    OBVIOUS
  <2>. QED
    OBVIOUS
<1>6. \A g \in Gens : publications[g] # Nil =>
        /\ publications[g].reference \in References
        /\ publications[g].left \in Nat
  <2>. SUFFICES ASSUME NEW g \in Gens, publications[g] # Nil
                PROVE  publications[g] \in [reference : References, left : Nat]
    OBVIOUS
  <2>. QED
    OBVIOUS
<1>7. \A k \in Calls : calls[k] # Nil => calls[k] \in Publishing
  OBVIOUS
<1>8. \A r \in Reservations :
        r.path \in Paths /\ r.gen \in Gens /\ r.revision \in Nat
  BY DEF Reservations
<1>9. Nil \notin Contents \cup Reservations \cup References
                 \cup Publishing \cup Adapters \cup QueueRows
  BY NilAssumption DEF QueueRows
<1>. QED
  BY <1>1, <1>2, <1>3, <1>4, <1>5, <1>6, <1>7, <1>8, <1>9

(* The reservations clients name are reservations that were issued.        *)
LEMMA HeldIsIssued ==
  ASSUME IInv, NEW r \in Held
  PROVE  r \in Reservations /\ r.gen <= issued
  BY Shapes DEF Held, IInv, Named

(* What a row of the collector's queue becomes.                            *)
LEMMA QueuedRow ==
  ASSUME NEW q \in [Gens -> Maybe(QueueRows)], NEW g \in Gens, NEW due \in Nat,
         Nil \notin QueueRows
  PROVE  /\ Queued(q, g, due) \in [Gens -> Maybe(QueueRows)]
         /\ Queued(q, g, due)[g] # Nil
         /\ Queued(q, g, due)[g] \in QueueRows
         /\ Queued(q, g, due)[g].due >= due
         /\ q[g] # Nil => Queued(q, g, due)[g].due >= q[g].due
         /\ \A h \in Gens \ {g} : Queued(q, g, due)[h] = q[h]
  BY DEF Queued, QueueRows, Maybe, Larger

LEMMA Init_IInv == Init => IInv
<1>. SUFFICES ASSUME Init
              PROVE  IInv
  OBVIOUS
<1>1. TypeOK
  <2>. USE DEF Init, Maybe, Zero, None, NoCalls, NoPass
  <2>1. issued \in 0..MaxGen /\ crashes \in 0..MaxCrashes
    BY BoundsAssumption
  <2>2. /\ ends \in [Gens -> Nat]
        /\ retentions \in [Gens -> Nat]
        /\ downloads \in [Gens -> Nat]
        /\ pass \in [Gens -> {"none", "held", "gone"}]
        /\ objects \in [Adapters -> [Gens -> Maybe(Contents)]]
    OBVIOUS
  <2>3. /\ reservations \in [Paths -> Maybe(Reservations)]
        /\ paths \in [Paths -> Maybe(References)]
        /\ calls \in [Calls -> Maybe(Publishing)]
        /\ answered \in [Gens -> Maybe(References)]
        /\ queue \in [Gens -> Maybe(QueueRows)]
    OBVIOUS
  <2>4. /\ receipts \in [Gens -> Maybe([request : Requests,
                                        reservation : Reservations,
                                        left : Nat])]
        /\ publications \in [Gens -> Maybe([reference : References,
                                            left : Nat])]
    OBVIOUS
  <2>. QED
    BY <2>1, <2>2, <2>3, <2>4 DEF TypeOK
<1>2. Named /\ Bound /\ Collected /\ Deadlines /\ Bodies
  BY DEF Init, Named, Bound, Collected, Deadlines, Bodies, Zero, None,
         NoCalls, NoPass
<1>3. NothingLeaks
  BY DEF Init, NothingLeaks, None
<1>. QED
  BY <1>1, <1>2, <1>3 DEF IInv

(* Steps that leave the catalog and the bodies alone.                      *)
LEMMA Step_Start ==
  ASSUME IInv, NEW adapter \in Adapters, Start(adapter)
  PROVE  IInv'
<1>. USE DEF Start, catalog, clients, puts, IInv
<1>1. TypeOK'
  BY DEF TypeOK, Maybe
<1>2. Named' /\ Deadlines'
  BY DEF Named, Deadlines, Waits, Reserved
<1>3. Bound' /\ Collected'
  BY NilAssumption DEF Bound, Collected, Published, Reserved
<1>4. Bodies' /\ NothingLeaks'
  BY NilAssumption DEF Bodies, NothingLeaks, Published, Reserved
<1>. QED
  BY <1>1, <1>2, <1>3, <1>4

LEMMA Step_Crash ==
  ASSUME IInv, Crash
  PROVE  IInv'
<1>. USE DEF Crash, catalog, clients, puts, IInv
<1>1. TypeOK'
  <2>1. crashes' \in 0..MaxCrashes
    BY BoundsAssumption DEF TypeOK
  <2>2. /\ calls' \in [Calls -> Maybe(Publishing)]
        /\ pass' \in [Gens -> {"none", "held", "gone"}]
    BY DEF Maybe, NoCalls, NoPass
  <2>. QED
    BY <2>1, <2>2 DEF TypeOK
<1>2. Named' /\ Deadlines'
  BY DEF Named, Deadlines, Waits, Reserved, NoCalls
<1>3. Bound' /\ Collected'
  BY DEF Bound, Collected, Published, Reserved, NoPass, NoCalls
<1>4. Bodies' /\ NothingLeaks'
  BY DEF Bodies, NothingLeaks, Published, Reserved, NoCalls
<1>. QED
  BY <1>1, <1>2, <1>3, <1>4

LEMMA Step_GrantPut ==
  ASSUME IInv, NEW g \in Gens, GrantPut(g)
  PROVE  IInv'
<1>. USE DEF GrantPut, catalog, IInv
<1>1. TypeOK'
  BY DEF TypeOK, Maybe
<1>2. Named' /\ Deadlines'
  BY DEF Named, Deadlines, Waits, Reserved
<1>3. Bound' /\ Collected'
  BY DEF Bound, Collected, Published, Reserved, Serving
<1>4. Bodies' /\ NothingLeaks'
  BY DEF Bodies, NothingLeaks, Published, Reserved
<1>. QED
  BY <1>1, <1>2, <1>3, <1>4

LEMMA Step_PublishReplay ==
  ASSUME IInv, NEW g \in Gens, PublishReplay(g)
  PROVE  IInv' /\ answered' = answered
<1>1. answered' = answered
  BY DEF PublishReplay, IInv, Named, TypeOK
<1>2. IInv'
  <2>. USE <1>1 DEF PublishReplay, catalog, puts, IInv
  <2>1. TypeOK'
    BY DEF TypeOK, Maybe
  <2>2. Named' /\ Deadlines'
    BY DEF Named, Deadlines, Waits, Reserved
  <2>3. Bound' /\ Collected'
    BY DEF Bound, Collected, Published, Reserved
  <2>4. Bodies' /\ NothingLeaks'
    BY DEF Bodies, NothingLeaks, Published, Reserved
  <2>. QED
    BY <2>1, <2>2, <2>3, <2>4
<1>. QED
  BY <1>1, <1>2

LEMMA Step_PublishBegin ==
  ASSUME IInv, NEW k \in Calls, NEW r \in Held, PublishBegin(k, r)
  PROVE  IInv'
<1>. USE DEF PublishBegin, catalog, clients, puts, IInv
<1>. DEFINE call == [reservation |-> r, live |-> Live(r.gen),
                     left |-> Retention, body |-> Nil]
<1>1. call \in Publishing /\ r.gen <= issued
  BY HeldIsIssued, Shapes DEF Publishing, Maybe, Live
<1>2. TypeOK'
  BY <1>1 DEF TypeOK, Maybe
<1>3. Named' /\ Deadlines'
  BY <1>1 DEF TypeOK, Named, Deadlines, Waits, Reserved
<1>4. Bound' /\ Collected'
  BY DEF TypeOK, Bound, Collected, Published, Reserved, Serving
<1>5. Bodies' /\ NothingLeaks'
  BY DEF TypeOK, Bodies, NothingLeaks, Published, Reserved
<1>. QED
  BY <1>2, <1>3, <1>4, <1>5

LEMMA Step_Observe ==
  ASSUME IInv, NEW k \in Calls, Observe(k)
  PROVE  IInv'
<1>. USE DEF Observe, catalog, clients, puts, IInv
<1>. DEFINE body == objects["s3"][calls[k].reservation.gen]
            call == [reservation |-> calls[k].reservation,
                     live |-> calls[k].live, left |-> calls[k].left,
                     body |-> body]
<1>1. /\ body # Nil => call \in Publishing
      /\ calls' = [calls EXCEPT ![k] = IF body = Nil THEN Nil ELSE call]
      /\ calls \in [Calls -> Maybe(Publishing)]
  BY Shapes DEF TypeOK, Publishing, Maybe, Bound
<1>2. TypeOK'
  BY <1>1 DEF TypeOK, Maybe
<1>3. Named' /\ Deadlines'
  BY <1>1 DEF Named, Deadlines, Waits, Reserved
<1>4. Bound' /\ Collected'
  BY <1>1 DEF Bound, Collected, Published, Reserved
<1>5. Bodies' /\ NothingLeaks'
  BY <1>1 DEF Bodies, NothingLeaks, Published, Reserved
<1>. QED
  BY <1>2, <1>3, <1>4, <1>5

(* A body that lands under a generation that had none disturbs no other.   *)
LEMMA BodyStored ==
  ASSUME IInv, NEW g \in Gens, NEW body \in Contents,
         identity \in Adapters, objects[identity][g] = Nil,
         objects' = [objects EXCEPT ![identity] =
                       [objects[identity] EXCEPT ![g] = body]],
         UNCHANGED <<identity, reservations, paths, downloads, calls>>
  PROVE  Bodies'
<1>. USE DEF IInv
<1>1. /\ objects'[identity][g] = body /\ body # Nil
      /\ \A a \in Adapters, h \in Gens :
           a # identity \/ h # g => objects'[a][h] = objects[a][h]
  BY Shapes DEF TypeOK
<1>2. \A a \in Adapters, h \in Gens : objects'[a][h] # Nil => a = identity
  BY <1>1 DEF Bodies
<1>3. \A p \in Paths : paths[p] # Nil =>
        /\ identity \in Adapters
        /\ objects'[identity][paths[p].gen] = paths[p].body
  BY <1>1, Shapes DEF Bodies
<1>4. \A h \in Gens : downloads[h] > 0 =>
        identity \in Adapters /\ objects'[identity][h] # Nil
  BY <1>1 DEF Bodies
<1>5. \A k \in Calls :
        /\ calls[k] # Nil
        /\ calls[k].body # Nil
        /\ reservations[calls[k].reservation.path] = calls[k].reservation
        => objects'["s3"][calls[k].reservation.gen] = calls[k].body
  <2>. SUFFICES ASSUME NEW k \in Calls, calls[k] # Nil, calls[k].body # Nil,
                       reservations[calls[k].reservation.path]
                         = calls[k].reservation
                PROVE  objects'["s3"][calls[k].reservation.gen] = calls[k].body
    OBVIOUS
  <2>1. /\ calls[k].reservation.gen \in Gens /\ identity = "s3"
        /\ objects[identity][calls[k].reservation.gen] = calls[k].body
    BY Shapes DEF Publishing, Bound, Bodies
  <2>. QED
    BY <1>1, <2>1
<1>. QED
  BY <1>2, <1>3, <1>4, <1>5 DEF Bodies

LEMMA Step_Upload ==
  ASSUME IInv, NEW g \in Gens, NEW body \in Contents, Upload(g, body)
  PROVE  IInv'
<1>. USE DEF Upload, Store, catalog, clients, puts, IInv
<1>1. /\ identity = "local" /\ identity \in Adapters
      /\ \A h \in Gens : pass[h] = "none"
      /\ objects[identity][g] = Nil
      /\ objects' = [objects EXCEPT ![identity] =
                       [objects[identity] EXCEPT ![g] = body]]
  BY DEF Serving, Bound, NoPass
<1>2. TypeOK'
  BY <1>1 DEF TypeOK, Maybe
<1>3. Named' /\ Deadlines'
  BY DEF Named, Deadlines, Waits, Reserved
<1>4. Bound' /\ Collected'
  BY <1>1 DEF Bound, Collected
<1>5. Bodies'
  BY <1>1, BodyStored
<1>6. NothingLeaks'
  BY <1>1 DEF NothingLeaks, Published, Reserved, TypeOK
<1>. QED
  BY <1>2, <1>3, <1>4, <1>5, <1>6

LEMMA Step_Put ==
  ASSUME IInv, NEW g \in Gens, NEW body \in Contents, Put(g, body)
  PROVE  IInv'
<1>. USE DEF Put, catalog, IInv
<1>1. /\ identity = "s3" /\ identity \in Adapters
      /\ ends[g] \in Nat /\ ends[g] > 0
      /\ objects[identity][g] = Nil
      /\ objects' = [objects EXCEPT ![identity] =
                       [objects[identity] EXCEPT ![g] = body]]
      /\ repeated \subseteq repeated'
      /\ answered[g] # Nil => g \in repeated'
  BY DEF Bound, TypeOK
<1>2. TypeOK'
  BY <1>1 DEF TypeOK, Maybe
<1>3. Named' /\ Deadlines'
  BY DEF Named, Deadlines, Waits, Reserved
<1>4. Bound'
  BY DEF Bound
<1>5. Collected'
  <2>. SUFFICES ASSUME NEW h \in Gens, pass[h] # "none"
                PROVE  \/ pass[h] = "held" \/ h \in repeated'
                       \/ objects'[identity][h] = Nil
    BY <1>1 DEF Collected, Published, Reserved
  <2>1. CASE h = g
    BY <2>1, <1>1 DEF Collected
  <2>2. CASE h # g
    BY <2>2, <1>1 DEF Collected, TypeOK
  <2>. QED
    BY <2>1, <2>2
<1>6. Bodies'
  BY <1>1, BodyStored
<1>7. NothingLeaks'
  <2>. SUFFICES ASSUME NEW a \in Adapters, NEW h \in Gens \ repeated',
                       objects'[a][h] # Nil
                PROVE  a = identity
                       /\ (Published(h) \/ Reserved(h) \/ queue[h] # Nil)
    BY DEF NothingLeaks, Published, Reserved
  <2>1. CASE h = g /\ a = identity
    BY <2>1, <1>1 DEF Deadlines, Waits
  <2>2. CASE h # g \/ a # identity
    BY <2>2, <1>1 DEF NothingLeaks, TypeOK
  <2>. QED
    BY <2>1, <2>2
<1>. QED
  BY <1>2, <1>3, <1>4, <1>5, <1>6, <1>7

(* An aborted generation waits in the queue until no PUT can land.         *)
LEMMA Step_Abort ==
  ASSUME IInv, NEW r \in Held, Abort(r)
  PROVE  IInv'
<1>. USE DEF Abort, clients, puts, IInv
<1>1. /\ r \in Reservations /\ r.gen \in Gens /\ r.path \in Paths
      /\ r.gen <= issued /\ r # Nil /\ reservations[r.path] = r
      /\ ends[r.gen] \in Nat /\ queue \in [Gens -> Maybe(QueueRows)]
      /\ Nil \notin QueueRows
  BY HeldIsIssued, Shapes DEF TypeOK
<1>2. /\ queue' \in [Gens -> Maybe(QueueRows)]
      /\ queue'[r.gen] # Nil /\ queue'[r.gen].due >= ends[r.gen]
      /\ \A h \in Gens \ {r.gen} : queue'[h] = queue[h]
  BY <1>1, QueuedRow
<1>3. /\ reservations' \in [Paths -> Maybe(Reservations)]
      /\ reservations'[r.path] = Nil
      /\ \A p \in Paths \ {r.path} : reservations'[p] = reservations[p]
  BY <1>1 DEF TypeOK, Maybe
<1>4. \A h \in Gens : /\ Reserved(h)' => Reserved(h)
                      /\ Reserved(h) /\ h # r.gen => Reserved(h)'
  BY <1>1, <1>3 DEF Reserved
<1>5. TypeOK'
  BY <1>2, <1>3 DEF TypeOK
<1>6. Named'
  BY <1>1, <1>2, <1>3 DEF Named
<1>7. Bound'
  BY DEF Bound
<1>8. Collected'
  BY <1>1, <1>2, <1>4 DEF Collected, Published, Reserved
<1>9. Deadlines'
  BY <1>1, <1>2, <1>4 DEF Deadlines, Waits
<1>10. Bodies'
  BY <1>1, <1>3, Shapes DEF Bodies, Publishing
<1>11. NothingLeaks'
  BY <1>1, <1>2, <1>4 DEF NothingLeaks, Published
<1>. QED
  BY <1>5, <1>6, <1>7, <1>8, <1>9, <1>10, <1>11

(* A grant is retained before it is signed.                                *)
LEMMA Step_GrantGet ==
  ASSUME IInv, NEW p \in Paths, NEW ttl \in 1..Ttl, GrantGet(p, ttl)
  PROVE  IInv'
<1>. USE DEF GrantGet, puts, IInv
<1>. DEFINE g == paths[p].gen
<1>1. /\ g \in Gens /\ ttl + Grace \in Nat /\ identity \in Adapters
      /\ Published(g) /\ objects[identity][g] # Nil
  BY Shapes DEF Bodies, Published
<1>2. /\ retentions \in [Gens -> Nat] /\ downloads \in [Gens -> Nat]
      /\ retentions' \in [Gens -> Nat] /\ downloads' \in [Gens -> Nat]
      /\ downloads[g] <= retentions[g] => downloads'[g] <= retentions'[g]
      /\ \A h \in Gens \ {g} :
           retentions'[h] = retentions[h] /\ downloads'[h] = downloads[h]
  BY <1>1 DEF TypeOK, Retained, Larger
<1>3. TypeOK'
  BY <1>2 DEF TypeOK
<1>4. Named' /\ Bound'
  BY DEF Named, Bound
<1>5. Collected'
  BY <1>1, <1>2 DEF Collected, Published, Reserved
<1>6. Deadlines'
  BY <1>1, <1>2 DEF Deadlines, Waits, Reserved
<1>7. Bodies'
  BY <1>1, <1>2 DEF Bodies
<1>8. NothingLeaks'
  BY DEF NothingLeaks, Published, Reserved
<1>. QED
  BY <1>3, <1>4, <1>5, <1>6, <1>7, <1>8

(* What a pass deletes nobody reads, and nobody can upload again unless    *)
(* its publication was answered.                                           *)
LEMMA Step_Delete ==
  ASSUME IInv, NEW g \in Gens, Delete(g)
  PROVE  IInv'
<1>. USE DEF Delete, Store, catalog, clients, puts, IInv
<1>1. /\ identity \in Adapters /\ ~Published(g) /\ ~Reserved(g)
      /\ downloads[g] = 0 /\ queue[g] # Nil
  <2>1. up /\ retentions[g] = 0 /\ downloads[g] <= retentions[g]
        /\ downloads[g] \in Nat
    BY DEF Collected, Deadlines, TypeOK
  <2>. QED
    BY <2>1 DEF Collected, Bound
<1>2. /\ objects' \in [Adapters -> [Gens -> Maybe(Contents)]]
      /\ objects'[identity][g] = Nil
      /\ \A a \in Adapters, h \in Gens :
           a # identity \/ h # g => objects'[a][h] = objects[a][h]
      /\ \A h \in Gens \ {g} : pass'[h] = pass[h]
      /\ pass'[g] = "gone"
      /\ pass' \in [Gens -> {"none", "held", "gone"}]
  BY <1>1 DEF TypeOK, Maybe
<1>3. TypeOK'
  BY <1>2 DEF TypeOK
<1>4. Named' /\ Deadlines' /\ Bound'
  BY DEF Named, Deadlines, Waits, Reserved, Bound
<1>5. Collected'
  BY <1>1, <1>2 DEF Collected, Published, Reserved
<1>6. Bodies'
  <2>1. \A a \in Adapters, h \in Gens : objects'[a][h] # Nil => a = identity
    BY <1>2 DEF Bodies
  <2>2. \A p \in Paths : paths[p] # Nil =>
          /\ identity \in Adapters
          /\ objects'[identity][paths[p].gen] = paths[p].body
    BY <1>1, <1>2, Shapes DEF Bodies, Published
  <2>3. \A h \in Gens : downloads[h] > 0 =>
          identity \in Adapters /\ objects'[identity][h] # Nil
    BY <1>1, <1>2 DEF Bodies
  <2>4. \A k \in Calls :
          /\ calls[k] # Nil
          /\ calls[k].body # Nil
          /\ reservations[calls[k].reservation.path] = calls[k].reservation
          => objects'["s3"][calls[k].reservation.gen] = calls[k].body
    <3>. SUFFICES ASSUME NEW k \in Calls, calls[k] # Nil, calls[k].body # Nil,
                         reservations[calls[k].reservation.path]
                           = calls[k].reservation
                  PROVE  objects'["s3"][calls[k].reservation.gen]
                           = calls[k].body
      OBVIOUS
    <3>1. calls[k].reservation \in Reservations /\ identity = "s3"
      BY Shapes DEF Publishing, Bound
    <3>2. Reserved(calls[k].reservation.gen)
      BY <3>1, Shapes DEF Reserved
    <3>. QED
      BY <1>1, <1>2, <3>1, <3>2, Shapes DEF Bodies
  <2>. QED
    BY <2>1, <2>2, <2>3, <2>4 DEF Bodies
<1>7. NothingLeaks'
  BY <1>2 DEF NothingLeaks, Published, Reserved
<1>. QED
  BY <1>3, <1>4, <1>5, <1>6, <1>7

LEMMA Step_Acknowledge ==
  ASSUME IInv, NEW g \in Gens, Acknowledge(g)
  PROVE  IInv'
<1>. USE DEF Acknowledge, clients, puts, IInv
<1>1. /\ answered[g] = Nil => ends[g] = 0
      /\ g \in repeated \/ objects[identity][g] = Nil
      /\ queue' \in [Gens -> Maybe(QueueRows)]
      /\ queue'[g] = Nil
      /\ \A h \in Gens \ {g} : queue'[h] = queue[h] /\ pass'[h] = pass[h]
      /\ pass'[g] = "none"
      /\ pass' \in [Gens -> {"none", "held", "gone"}]
  BY DEF TypeOK, Maybe, Collected
<1>2. TypeOK'
  BY <1>1 DEF TypeOK
<1>3. Named' /\ Bound' /\ Bodies'
  BY <1>1 DEF Named, Bound, Bodies
<1>4. Collected'
  BY <1>1 DEF Collected, Published, Reserved
<1>5. Deadlines'
  BY <1>1 DEF Deadlines, Waits, Reserved
<1>6. NothingLeaks'
  BY <1>1 DEF NothingLeaks, Published, Reserved
<1>. QED
  BY <1>2, <1>3, <1>4, <1>5, <1>6

(* What a failed deletion puts back is past its deadlines already.         *)
LEMMA Step_Fail ==
  ASSUME IInv, NEW g \in Gens, Fail(g)
  PROVE  IInv'
<1>. USE DEF Fail, clients, puts, IInv
<1>. DEFINE row == [due |-> 2 ^ Smaller(queue[g].attempts, 10), lease |-> 0,
                    attempts |-> queue[g].attempts + 1]
<1>1. queue[g] # Nil /\ queue[g].attempts \in Nat
  BY Shapes DEF Collected, QueueRows
<1>2. Smaller(queue[g].attempts, 10) \in Nat
  BY <1>1 DEF Smaller
<1>3. row \in QueueRows /\ row # Nil
  BY <1>1, <1>2, PowerIsNat, Shapes DEF QueueRows
<1>4. /\ answered[g] = Nil => ends[g] = 0
      /\ queue' \in [Gens -> Maybe(QueueRows)]
      /\ queue'[g] # Nil
      /\ \A h \in Gens \ {g} : queue'[h] = queue[h] /\ pass'[h] = pass[h]
      /\ pass'[g] = "none"
      /\ pass' \in [Gens -> {"none", "held", "gone"}]
  BY <1>3 DEF TypeOK, Maybe, Collected
<1>5. TypeOK'
  BY <1>4 DEF TypeOK
<1>6. Named'
  BY <1>1, <1>4 DEF Named
<1>7. Bound' /\ Bodies'
  BY <1>4 DEF Bound, Bodies
<1>8. Collected'
  BY <1>4 DEF Collected, Published, Reserved
<1>9. Deadlines'
  BY <1>4 DEF Deadlines, Waits, Reserved
<1>10. NothingLeaks'
  BY <1>4 DEF NothingLeaks, Published, Reserved
<1>. QED
  BY <1>5, <1>6, <1>7, <1>8, <1>9, <1>10

(* All deadlines pass together.                                            *)
LEMMA Step_Tick ==
  ASSUME IInv, Tick
  PROVE  IInv'
<1>. USE DEF Tick, puts, IInv
<1>1. \A m, n \in Nat : /\ Less(m) \in Nat /\ Less(m) <= m
                        /\ m <= n => Less(m) <= Less(n)
  BY DEF Less
<1>2. /\ ends' \in [Gens -> Nat] /\ retentions' \in [Gens -> Nat]
      /\ downloads' \in [Gens -> Nat]
      /\ \A g \in Gens : /\ ends'[g] = Less(ends[g])
                         /\ retentions'[g] = Less(retentions[g])
                         /\ downloads'[g] = Less(downloads[g])
  BY <1>1 DEF TypeOK
<1>3. /\ queue' \in [Gens -> Maybe(QueueRows)]
      /\ \A g \in Gens : /\ queue'[g] = Nil <=> queue[g] = Nil
                         /\ queue[g] # Nil =>
                              queue'[g].due = Less(queue[g].due)
  BY <1>1, Shapes DEF TypeOK, Maybe, QueueRows
<1>4. /\ receipts' \in [Gens -> Maybe([request : Requests,
                                      reservation : Reservations, left : Nat])]
      /\ \A g \in Gens : receipts'[g] # Nil =>
           /\ receipts[g] # Nil
           /\ receipts'[g].reservation = receipts[g].reservation
  BY <1>1 DEF TypeOK, Maybe, Later
<1>5. /\ publications' \in [Gens -> Maybe([reference : References,
                                          left : Nat])]
      /\ \A g \in Gens : publications'[g] # Nil =>
           /\ publications[g] # Nil
           /\ publications'[g].reference = publications[g].reference
  BY <1>1 DEF TypeOK, Maybe, Later
<1>6. /\ calls' \in [Calls -> Maybe(Publishing)]
      /\ \A k \in Calls : calls'[k] # Nil =>
           /\ calls[k] # Nil
           /\ calls'[k].reservation = calls[k].reservation
           /\ calls'[k].body = calls[k].body
  BY <1>1 DEF TypeOK, Maybe, Publishing
<1>7. TypeOK'
  BY <1>2, <1>3, <1>4, <1>5, <1>6 DEF TypeOK
<1>8. Named'
  BY <1>3, <1>4, <1>5, <1>6 DEF Named
<1>9. Bound'
  BY <1>6 DEF Bound
<1>10. Collected'
  BY <1>1, <1>2, <1>3 DEF Collected, Published, Reserved, Less
<1>11. Deadlines'
  <2>. SUFFICES ASSUME NEW g \in Gens
                PROVE  /\ downloads'[g] <= retentions'[g]
                       /\ answered[g] = Nil /\ ends'[g] > 0 => Waits(g)'
    BY DEF Deadlines
  <2>1. /\ ends[g] \in Nat /\ downloads[g] \in Nat /\ retentions[g] \in Nat
        /\ queue[g] # Nil => queue[g].due \in Nat
    BY Shapes DEF TypeOK, QueueRows
  <2>2. downloads'[g] <= retentions'[g]
    BY <1>1, <1>2, <2>1 DEF Deadlines
  <2>3. ends'[g] > 0 => ends[g] > 0
    BY <1>2, <2>1 DEF Less
  <2>4. queue[g] # Nil /\ queue[g].due >= ends[g] =>
          queue'[g].due >= ends'[g]
    BY <1>1, <1>2, <1>3, <2>1
  <2>. QED
    BY <1>3, <2>2, <2>3, <2>4 DEF Deadlines, Waits, Reserved
<1>12. Bodies'
  <2>1. \A g \in Gens : downloads'[g] > 0 => downloads[g] > 0
    BY <1>2 DEF TypeOK, Less
  <2>. QED
    BY <1>6, <2>1 DEF Bodies
<1>13. NothingLeaks'
  BY <1>3 DEF NothingLeaks, Published, Reserved
<1>. QED
  BY <1>7, <1>8, <1>9, <1>10, <1>11, <1>12, <1>13

(* The new generation was named by nothing, and the one it replaces waits  *)
(* until no PUT can land.                                                  *)
LEMMA Step_Reserve ==
  ASSUME IInv, NEW request \in Requests, NEW p \in Paths, Reserve(request, p)
  PROVE  IInv'
<1>. USE DEF Reserve, clients, puts, IInv
<1>. DEFINE g == issued + 1
            r == [path |-> p, gen |-> g,
                  revision |-> IF paths[p] = Nil THEN 1
                               ELSE paths[p].revision + 1]
            old == reservations[p]
<1>1. /\ g \in Gens /\ r \in Reservations /\ r # Nil
      /\ issued \in Nat /\ issued' = g /\ g \in 0..MaxGen
      /\ \A h \in Gens : h <= issued => h # g
  <2>. HIDE DEF Reserve
  <2>1. issued < MaxGen /\ issued' = g
    BY DEF Reserve
  <2>2. MaxGen \in Nat /\ issued \in Nat
    BY Shapes
  <2>3. g \in Gens /\ g \in 0..MaxGen
    BY <2>1, <2>2 DEF Gens
  <2>4. paths[p] # Nil => paths[p].revision + 1 \in Nat
    BY Shapes DEF References
  <2>5. r \in Reservations
    BY <2>3, <2>4 DEF Reservations
  <2>. QED
    BY <2>1, <2>2, <2>3, <2>5, Shapes
<1>2. /\ ends' \in [Gens -> Nat]
      /\ \A h \in Gens \ {g} : ends'[h] = ends[h]
  BY <1>1, BoundsAssumption DEF TypeOK
<1>3. /\ reservations' \in [Paths -> Maybe(Reservations)]
      /\ reservations'[p] = r
      /\ \A q \in Paths \ {p} : reservations'[q] = reservations[q]
  BY <1>1 DEF TypeOK, Maybe
<1>4. /\ receipts' \in [Gens -> Maybe([request : Requests,
                                      reservation : Reservations, left : Nat])]
      /\ receipts'[g].reservation = r
      /\ \A h \in Gens \ {g} : receipts'[h] = receipts[h]
  <2>1. [request |-> request, reservation |-> r, left |-> Ttl + Retention]
          \in [request : Requests, reservation : Reservations, left : Nat]
    BY <1>1, BoundsAssumption
  <2>. QED
    BY <1>1, <2>1 DEF TypeOK, Maybe
<1>5. /\ queue' \in [Gens -> Maybe(QueueRows)]
      /\ old # Nil => /\ old.gen \in Gens /\ queue'[old.gen] # Nil
                      /\ queue'[old.gen].due >= ends[old.gen]
      /\ \A h \in Gens : old = Nil \/ h # old.gen => queue'[h] = queue[h]
  <2>1. queue \in [Gens -> Maybe(QueueRows)] /\ ends \in [Gens -> Nat]
    BY DEF TypeOK
  <2>2. CASE old = Nil
    BY <2>1, <2>2 DEF Replaced
  <2>3. CASE old # Nil
    BY <2>1, <2>3, QueuedRow, Shapes DEF Replaced
  <2>. QED
    BY <2>2, <2>3
<1>6. \A h \in Gens \ {g} :
        /\ Reserved(h)' => Reserved(h)
        /\ Reserved(h) => Reserved(h)' \/ (old # Nil /\ h = old.gen)
  BY <1>1, <1>3 DEF Reserved
<1>7. TypeOK'
  BY <1>1, <1>2, <1>3, <1>4, <1>5 DEF TypeOK
<1>8. Named'
  <2>1. answered[g] = Nil
    BY <1>1 DEF Named
  <2>2. \A q \in Paths : reservations'[q] # Nil =>
          /\ reservations'[q].path = q
          /\ reservations'[q].gen <= g
          /\ answered[reservations'[q].gen] = Nil
    BY <1>1, <1>3, <2>1, Shapes DEF Named
  <2>3. \A q, s \in Paths :
          /\ reservations'[q] # Nil /\ reservations'[s] # Nil
          /\ reservations'[q].gen = reservations'[s].gen
          => q = s
    BY <1>1, <1>3, Shapes DEF Named
  <2>4. \A h \in Gens :
          /\ answered[h] # Nil => answered[h].gen = h /\ h <= g
          /\ queue'[h] # Nil => h <= g
    BY <1>1, <1>5, Shapes DEF Named
  <2>5. \A h \in Gens : receipts'[h] # Nil =>
          receipts'[h].reservation.gen <= g
    BY <1>1, <1>4, Shapes DEF Named
  <2>6. \A k \in Calls : calls[k] # Nil => calls[k].reservation.gen <= g
    BY <1>1, Shapes DEF Named, Publishing
  <2>. QED
    BY <1>1, <2>2, <2>3, <2>4, <2>5, <2>6 DEF Named
<1>9. Bound'
  BY DEF Bound
<1>10. Collected'
  <2>. SUFFICES ASSUME NEW h \in Gens, pass[h] # "none"
                PROVE  /\ queue'[h] # Nil /\ ~Reserved(h)'
                       /\ answered[h] = Nil => ends'[h] = 0
    BY DEF Collected, Published
  <2>1. queue[h] # Nil /\ ~Reserved(h) /\ (answered[h] = Nil => ends[h] = 0)
    BY DEF Collected
  <2>2. h # g
    BY <1>1, <2>1 DEF Named
  <2>. QED
    BY <1>2, <1>5, <1>6, <2>1, <2>2
<1>11. Deadlines'
  <2>. SUFFICES ASSUME NEW h \in Gens, answered[h] = Nil, ends'[h] > 0
                PROVE  Waits(h)'
    BY DEF Deadlines
  <2>1. CASE h = g
    BY <1>1, <1>3, <2>1 DEF Waits, Reserved
  <2>2. CASE h # g /\ old # Nil /\ h = old.gen
    BY <1>2, <1>5, <2>2 DEF Waits
  <2>3. CASE h # g /\ (old = Nil \/ h # old.gen)
    BY <1>2, <1>5, <1>6, <2>3 DEF Waits, Deadlines
  <2>. QED
    BY <2>1, <2>2, <2>3
<1>12. Bodies'
  <2>1. \A k \in Calls :
          calls[k] # Nil /\ reservations'[calls[k].reservation.path]
                              = calls[k].reservation
          => reservations[calls[k].reservation.path] = calls[k].reservation
    BY <1>1, <1>3, Shapes DEF Named, Publishing
  <2>. QED
    BY <2>1 DEF Bodies
<1>13. NothingLeaks'
  <2>. SUFFICES ASSUME NEW h \in Gens, Reserved(h) \/ queue[h] # Nil
                PROVE  Reserved(h)' \/ queue'[h] # Nil
    BY DEF NothingLeaks, Published
  <2>1. CASE h = g
    BY <1>1, <1>3, <2>1 DEF Reserved
  <2>2. CASE h # g
    BY <1>5, <1>6, <2>2
  <2>. QED
    BY <2>1, <2>2
<1>. QED
  BY <1>7, <1>8, <1>9, <1>10, <1>11, <1>12, <1>13

(* A publication of a reservation whose observed body is still there: the  *)
(* path moves to it and what it replaces is queued at once.                *)
LEMMA CommitKeeps ==
  ASSUME IInv, NEW r \in Reservations, NEW body \in Contents, NEW left \in Nat,
         reservations[r.path] = r, identity \in Adapters,
         objects[identity][r.gen] = body,
         Commit(r, body, left),
         calls' \in [Calls -> Maybe(Publishing)],
         \A k \in Calls : calls'[k] # Nil => calls'[k] = calls[k],
         UNCHANGED <<up, identity, issued, ends, objects, puts, downloads,
                     pass, crashes>>
  PROVE  /\ IInv'
         /\ \A g \in Gens : answered[g] # Nil => answered'[g] = answered[g]
<1>. USE DEF puts, IInv
<1>. DEFINE previous == paths[r.path]
            reference == Reference(r, body)
<1>1. /\ r.gen \in Gens /\ r.path \in Paths /\ r.gen <= issued /\ r # Nil
      /\ answered[r.gen] = Nil /\ Reserved(r.gen)
      /\ reference \in References /\ reference # Nil
      /\ reference.gen = r.gen /\ reference.path = r.path
      /\ reference.body = body
  <2>1. r.gen \in Gens /\ r.path \in Paths /\ r # Nil /\ r.revision \in Nat
    BY Shapes
  <2>2. r.gen <= issued /\ answered[r.gen] = Nil /\ Reserved(r.gen)
    BY <2>1 DEF Named, Reserved
  <2>3. reference \in References
    BY <2>1 DEF Reference, References
  <2>. QED
    BY <2>1, <2>2, <2>3, Shapes DEF Reference
<1>2. /\ paths' = [paths EXCEPT ![r.path] = reference]
      /\ reservations' = [reservations EXCEPT ![r.path] = Nil]
      /\ answered' = [answered EXCEPT ![r.gen] = reference]
      /\ publications' = [publications EXCEPT ![r.gen] =
                            [reference |-> reference, left |-> left]]
      /\ queue' = IF previous = Nil THEN queue
                  ELSE Queued(queue, previous.gen, 0)
      /\ UNCHANGED <<receipts, retentions>>
  BY DEF Commit
<1>3. /\ paths' \in [Paths -> Maybe(References)]
      /\ reservations' \in [Paths -> Maybe(Reservations)]
      /\ answered' \in [Gens -> Maybe(References)]
      /\ publications' \in [Gens -> Maybe([reference : References,
                                          left : Nat])]
      /\ paths'[r.path] = reference
      /\ reservations'[r.path] = Nil
      /\ \A p \in Paths \ {r.path} :
           paths'[p] = paths[p] /\ reservations'[p] = reservations[p]
      /\ answered'[r.gen] = reference
      /\ publications'[r.gen].reference = reference
      /\ \A g \in Gens \ {r.gen} :
           answered'[g] = answered[g] /\ publications'[g] = publications[g]
  BY <1>1, <1>2 DEF TypeOK, Maybe
<1>4. /\ queue' \in [Gens -> Maybe(QueueRows)]
      /\ previous # Nil =>
           /\ previous.gen \in Gens /\ previous.gen <= issued
           /\ answered[previous.gen] # Nil /\ queue'[previous.gen] # Nil
      /\ \A g \in Gens :
           /\ queue'[g] = Nil => queue[g] = Nil
           /\ queue[g] # Nil => queue'[g].due >= queue[g].due
           /\ queue'[g] # Nil => g <= issued
  <2>1. queue \in [Gens -> Maybe(QueueRows)]
        /\ \A g \in Gens : queue[g] # Nil => queue[g].due \in Nat /\ g <= issued
    BY Shapes DEF TypeOK, QueueRows, Named
  <2>2. CASE previous = Nil
    BY <1>2, <2>1, <2>2
  <2>3. CASE previous # Nil
    <3>1. previous.gen \in Gens /\ answered[previous.gen] = previous
      BY <1>1, <2>3, Shapes DEF Named
    <3>2. previous.gen <= issued
      BY <2>3, <3>1 DEF Named
    <3>3. queue' = Queued(queue, previous.gen, 0) /\ Nil \notin QueueRows
      BY <1>2, <2>3, Shapes
    <3>4. /\ queue' \in [Gens -> Maybe(QueueRows)]
          /\ queue'[previous.gen] # Nil
          /\ queue[previous.gen] # Nil =>
               queue'[previous.gen].due >= queue[previous.gen].due
          /\ \A g \in Gens \ {previous.gen} : queue'[g] = queue[g]
      <4>. HIDE DEF previous
      <4>1. PICK g \in Gens : g = previous.gen
        BY <3>1
      <4>2. /\ Queued(queue, g, 0) \in [Gens -> Maybe(QueueRows)]
            /\ Queued(queue, g, 0)[g] # Nil
            /\ queue[g] # Nil => Queued(queue, g, 0)[g].due >= queue[g].due
            /\ \A h \in Gens \ {g} : Queued(queue, g, 0)[h] = queue[h]
        BY <2>1, <3>3, QueuedRow
      <4>. QED
        BY <3>3, <4>1, <4>2
    <3>5. \A g \in Gens :
            /\ queue'[g] = Nil => queue[g] = Nil
            /\ queue[g] # Nil => queue'[g].due >= queue[g].due
            /\ queue'[g] # Nil => g <= issued
      <4>. SUFFICES ASSUME NEW g \in Gens
                    PROVE  /\ queue'[g] = Nil => queue[g] = Nil
                           /\ queue[g] # Nil => queue'[g].due >= queue[g].due
                           /\ queue'[g] # Nil => g <= issued
        OBVIOUS
      <4>1. CASE g = previous.gen
        BY <3>2, <3>4, <4>1
      <4>2. CASE g # previous.gen
        BY <2>1, <3>4, <4>2
      <4>. QED
        BY <4>1, <4>2
    <3>. QED
      BY <2>3, <3>1, <3>2, <3>4, <3>5, Shapes
  <2>. QED
    BY <2>2, <2>3
<1>5. \A g \in Gens \ {r.gen} : Reserved(g)' <=> Reserved(g)
  BY <1>1, <1>3 DEF Reserved
<1>6. \A g \in Gens : /\ Published(g)' => Published(g) \/ g = r.gen
                      /\ Published(g) => \/ Published(g)'
                                         \/ (previous # Nil /\ g = previous.gen)
  BY <1>1, <1>3 DEF Published
<1>7. TypeOK'
  BY <1>2, <1>3, <1>4 DEF TypeOK
<1>8. Named'
  <2>1. \A p \in Paths : reservations'[p] # Nil =>
          /\ p # r.path /\ reservations'[p] = reservations[p]
          /\ reservations[p].gen \in Gens /\ reservations[p].gen # r.gen
    BY <1>1, <1>3, Shapes DEF Named
  <2>2. \A p \in Paths : reservations'[p] # Nil =>
          /\ reservations'[p].path = p
          /\ reservations'[p].gen <= issued
          /\ answered'[reservations'[p].gen] = Nil
    BY <1>3, <2>1 DEF Named
  <2>3. \A p, q \in Paths :
          /\ reservations'[p] # Nil /\ reservations'[q] # Nil
          /\ reservations'[p].gen = reservations'[q].gen
          => p = q
    BY <2>1 DEF Named
  <2>4. \A p \in Paths : paths'[p] # Nil =>
          paths'[p].path = p /\ answered'[paths'[p].gen] = paths'[p]
    <3>. SUFFICES ASSUME NEW p \in Paths, paths'[p] # Nil
                  PROVE  /\ paths'[p].path = p
                         /\ answered'[paths'[p].gen] = paths'[p]
      OBVIOUS
    <3>1. CASE p = r.path
      BY <1>1, <1>3, <3>1
    <3>2. CASE p # r.path
      <4>1. /\ paths'[p] = paths[p] /\ paths[p].gen \in Gens
            /\ paths[p].path = p /\ answered[paths[p].gen] = paths[p]
        BY <1>3, <3>2, Shapes DEF Named
      <4>. QED
        BY <1>1, <1>3, <4>1
    <3>. QED
      BY <3>1, <3>2
  <2>5. \A g \in Gens : publications'[g] # Nil =>
          answered'[g] = publications'[g].reference
    BY <1>3 DEF Named
  <2>6. \A g \in Gens : answered'[g] # Nil =>
          answered'[g].gen = g /\ g <= issued
    BY <1>1, <1>3 DEF Named
  <2>. QED
    BY <1>2, <1>4, <2>2, <2>3, <2>4, <2>5, <2>6 DEF Named
<1>9. Bound'
  BY DEF Bound
<1>10. Collected'
  <2>. SUFFICES ASSUME NEW g \in Gens, pass[g] # "none"
                PROVE  /\ queue'[g] # Nil /\ ~Published(g)' /\ ~Reserved(g)'
                       /\ answered'[g] = Nil => ends[g] = 0
    BY <1>2 DEF Collected
  <2>1. /\ queue[g] # Nil /\ ~Published(g) /\ ~Reserved(g)
        /\ answered[g] = Nil => ends[g] = 0
    BY DEF Collected
  <2>2. g # r.gen
    BY <1>1, <2>1
  <2>. QED
    BY <1>3, <1>4, <1>5, <1>6, <2>1, <2>2
<1>11. Deadlines'
  <2>. SUFFICES ASSUME NEW g \in Gens, answered'[g] = Nil, ends[g] > 0
                PROVE  Reserved(g)' \/ (queue'[g] # Nil
                                        /\ queue'[g].due >= ends[g])
    BY <1>2 DEF Deadlines, Waits
  <2>1. g # r.gen
    BY <1>1, <1>3
  <2>2. CASE Reserved(g)
    BY <1>5, <2>1, <2>2
  <2>3. CASE queue[g] # Nil /\ queue[g].due >= ends[g]
    <3>1. queue'[g] # Nil /\ queue'[g].due >= queue[g].due
      BY <1>4, <2>3
    <3>2. queue'[g].due \in Nat /\ queue[g].due \in Nat /\ ends[g] \in Nat
      BY <1>4, <2>3, <3>1, Shapes DEF TypeOK, Maybe, QueueRows
    <3>. QED
      BY <2>3, <3>1, <3>2
  <2>. QED
    BY <1>3, <2>1, <2>2, <2>3 DEF Deadlines, Waits
<1>12. Bodies'
  <2>1. \A p \in Paths : paths'[p] # Nil =>
          objects[identity][paths'[p].gen] = paths'[p].body
    BY <1>1, <1>3 DEF Bodies
  <2>2. \A k \in Calls :
          /\ calls'[k] # Nil
          /\ reservations'[calls'[k].reservation.path] = calls'[k].reservation
          => /\ calls'[k] = calls[k]
             /\ reservations[calls[k].reservation.path] = calls[k].reservation
    BY <1>3, Shapes DEF Publishing
  <2>. QED
    BY <2>1, <2>2 DEF Bodies
<1>13. NothingLeaks'
  <2>. SUFFICES ASSUME NEW g \in Gens,
                       Published(g) \/ Reserved(g) \/ queue[g] # Nil
                PROVE  Published(g)' \/ Reserved(g)' \/ queue'[g] # Nil
    BY DEF NothingLeaks
  <2>1. CASE g = r.gen
    BY <1>1, <1>3, <2>1 DEF Published
  <2>2. CASE g # r.gen
    BY <1>4, <1>5, <1>6, <2>2
  <2>. QED
    BY <2>1, <2>2
<1>14. \A g \in Gens : answered[g] # Nil => answered'[g] = answered[g]
  BY <1>1, <1>3
<1>. QED
  BY <1>7, <1>8, <1>9, <1>10, <1>11, <1>12, <1>13, <1>14

(* An answer that was given before changes nothing but the calls.          *)
LEMMA AnswerKeeps ==
  ASSUME IInv, UNCHANGED <<catalog, answered>>,
         calls' \in [Calls -> Maybe(Publishing)],
         \A k \in Calls : calls'[k] # Nil => calls'[k] = calls[k],
         UNCHANGED <<up, identity, issued, ends, objects, puts, downloads,
                     pass, crashes>>
  PROVE  IInv'
<1>. USE DEF catalog, puts, IInv
<1>1. TypeOK'
  BY DEF TypeOK
<1>2. Named' /\ Deadlines'
  BY DEF Named, Deadlines, Waits, Reserved
<1>3. Bound' /\ Collected'
  BY DEF Bound, Collected, Published, Reserved
<1>4. Bodies' /\ NothingLeaks'
  BY DEF Bodies, NothingLeaks, Published, Reserved
<1>. QED
  BY <1>1, <1>2, <1>3, <1>4

(* A path that shows what was published shows the first answer.            *)
LEMMA CommitAgainAnswers ==
  ASSUME IInv, NEW r \in Reservations, NEW body \in Contents,
         CommitAgain(r, body)
  PROVE  UNCHANGED <<catalog, answered>>
<1>1. /\ r.gen \in Gens /\ r.path \in Paths
      /\ Reference(r, body) \in References
      /\ Reference(r, body).gen = r.gen
  BY Shapes DEF Reference, References
<1>2. answered[r.gen] = Reference(r, body)
  BY <1>1, Shapes DEF CommitAgain, IInv, Named
<1>. QED
  BY <1>1, <1>2 DEF CommitAgain, IInv, TypeOK

LEMMA Step_PublishLocal ==
  ASSUME IInv, NEW r \in Held, PublishLocal(r)
  PROVE  /\ IInv'
         /\ \A g \in Gens : answered[g] # Nil => answered'[g] = answered[g]
<1>. DEFINE body == objects["local"][r.gen]
<1>1. /\ r \in Reservations /\ identity \in Adapters /\ identity = "local"
      /\ body \in Contents /\ Retention \in Nat
      /\ UNCHANGED <<up, identity, issued, ends, objects, puts, downloads,
                     calls, pass, crashes>>
      /\ calls' \in [Calls -> Maybe(Publishing)]
      /\ \A k \in Calls : calls'[k] = calls[k]
  <2>1. r \in Reservations /\ r.gen \in Gens /\ Retention \in Nat
    BY HeldIsIssued, Shapes
  <2>2. /\ identity \in Adapters /\ identity = "local" /\ body # Nil
        /\ UNCHANGED <<up, identity, issued, ends, objects, puts, downloads,
                       calls, pass, crashes>>
    BY DEF PublishLocal, Serving, IInv, Bound
  <2>. QED
    BY <2>1, <2>2 DEF IInv, TypeOK, Maybe
<1>2. CASE reservations[r.path] = r /\ Commit(r, body, Retention)
  BY <1>1, <1>2, CommitKeeps
<1>3. CASE CommitAgain(r, body)
  <2>1. UNCHANGED <<catalog, answered>>
    BY <1>1, <1>3, CommitAgainAnswers
  <2>. QED
    BY <1>1, <2>1, AnswerKeeps
<1>. QED
  BY <1>2, <1>3 DEF PublishLocal

(* The body that was observed before the mutex was taken again is still    *)
(* there when the reservation is.                                          *)
LEMMA Step_PublishCommit ==
  ASSUME IInv, NEW k \in Calls, PublishCommit(k)
  PROVE  /\ IInv'
         /\ \A g \in Gens : answered[g] # Nil => answered'[g] = answered[g]
<1>. DEFINE c == calls[k]
            r == c.reservation
            reference == Reference(r, c.body)
<1>1. /\ r \in Reservations /\ identity \in Adapters /\ identity = "s3"
      /\ c \in Publishing /\ c.body \in Contents /\ c.left \in Nat
      /\ reservations[r.path] = r => objects[identity][r.gen] = c.body
      /\ r.gen \in Gens
  <2>1. c # Nil /\ c.body # Nil
    BY DEF PublishCommit
  <2>2. c \in Publishing
    BY <2>1, Shapes
  <2>3. /\ r \in Reservations /\ r.gen \in Gens /\ c.body \in Contents
        /\ c.left \in Nat
    BY <2>1, <2>2, Shapes DEF Publishing, Maybe
  <2>4. identity \in Adapters /\ identity = "s3"
    BY <2>1 DEF IInv, Bound
  <2>5. reservations[r.path] = r => objects[identity][r.gen] = c.body
    BY <2>1, <2>4 DEF IInv, Bodies
  <2>. QED
    BY <2>2, <2>3, <2>4, <2>5
<1>2. /\ calls' \in [Calls -> Maybe(Publishing)]
      /\ \A j \in Calls : calls'[j] # Nil => calls'[j] = calls[j]
      /\ UNCHANGED <<up, identity, issued, ends, objects, puts, downloads,
                     pass, crashes>>
  <2>1. /\ calls' = [calls EXCEPT ![k] = Nil]
        /\ UNCHANGED <<up, identity, issued, ends, objects, puts, downloads,
                       pass, crashes>>
    BY DEF PublishCommit
  <2>. QED
    BY <2>1 DEF IInv, TypeOK, Maybe
<1>3. \/ reservations[r.path] = r /\ Commit(r, c.body, c.left)
      \/ UNCHANGED <<catalog, answered>>
  <2>1. CASE /\ publications[r.gen] # Nil
             /\ publications[r.gen].reference = reference
             /\ answered' = [answered EXCEPT ![r.gen] = reference]
             /\ UNCHANGED catalog
    BY <1>1, <2>1 DEF IInv, Named, TypeOK
  <2>2. CASE CommitAgain(r, c.body)
    BY <1>1, <2>2, CommitAgainAnswers
  <2>. QED
    BY <2>1, <2>2 DEF PublishCommit
<1>4. CASE reservations[r.path] = r /\ Commit(r, c.body, c.left)
  BY <1>1, <1>2, <1>4, CommitKeeps
<1>5. CASE UNCHANGED <<catalog, answered>>
  BY <1>2, <1>5, AnswerKeeps
<1>. QED
  BY <1>3, <1>4, <1>5

(* What a pass leases is due: nothing names it, no grant reads it, and no  *)
(* PUT that was begun in time is still to land.                            *)
LEMMA Step_Claim ==
  ASSUME IInv, Claim
  PROVE  IInv'
<1>1. PICK expired \in Batches(ExpiredPaths, Batch) :
        \E leases \in Batches(Candidates(ReapedQueue(expired),
                                         ReapedReservations(expired)), Batch) :
          /\ reservations' = ReapedReservations(expired)
          /\ queue' = Leased(ReapedQueue(expired), leases)
          /\ pass' = [g \in Gens |-> IF g \in leases THEN "held" ELSE "none"]
  BY DEF Claim
<1>. DEFINE q == ReapedQueue(expired)
            rows == ReapedReservations(expired)
<1>2. PICK leases \in Batches(Candidates(q, rows), Batch) :
        /\ reservations' = rows
        /\ queue' = Leased(q, leases)
        /\ pass' = [g \in Gens |-> IF g \in leases THEN "held" ELSE "none"]
  BY <1>1
<1>3. /\ UNCHANGED <<up, identity, issued, ends, paths, retentions, objects,
                     clients, calls, crashes>>
      /\ up
      /\ \E old : receipts' = Pruned(receipts, old)
      /\ \E older : publications' = Pruned(publications, older)
  BY DEF Claim
<1>4. expired \subseteq ExpiredPaths /\ leases \subseteq Candidates(q, rows)
  BY BatchIsSubset
<1>5. /\ q \in [Gens -> Maybe(QueueRows)]
      /\ \A g \in Gens :
           /\ queue[g] # Nil => q[g] # Nil /\ q[g].due >= queue[g].due
           /\ q[g] # Nil => g <= issued
           /\ \A p \in expired : reservations[p].gen = g =>
                q[g] # Nil /\ q[g].due >= ends[g]
  <2>1. /\ queue \in [Gens -> Maybe(QueueRows)] /\ ends \in [Gens -> Nat]
        /\ \A g \in Gens : queue[g] # Nil => queue[g].due \in Nat /\ g <= issued
    BY Shapes DEF IInv, TypeOK, QueueRows, Named
  <2>2. \A p \in expired : /\ reservations[p].gen \in Gens
                           /\ reservations[p].gen <= issued
    BY <1>4, Shapes DEF ExpiredPaths, IInv, Named
  <2>3. \A g \in Gens :
          /\ Queued(queue, g, ends[g])[g] \in QueueRows
          /\ Queued(queue, g, ends[g])[g] # Nil
          /\ Queued(queue, g, ends[g])[g].due >= ends[g]
          /\ queue[g] # Nil =>
               Queued(queue, g, ends[g])[g].due >= queue[g].due
    BY <2>1, QueuedRow, Shapes
  <2>4. q \in [Gens -> Maybe(QueueRows)]
    BY <2>1, <2>3 DEF ReapedQueue, Maybe
  <2>5. ASSUME NEW g \in Gens
        PROVE  /\ queue[g] # Nil => q[g] # Nil /\ q[g].due >= queue[g].due
               /\ q[g] # Nil => g <= issued
               /\ \A p \in expired : reservations[p].gen = g =>
                    q[g] # Nil /\ q[g].due >= ends[g]
    <3>1. CASE \E p \in expired : reservations[p].gen = g
      <4>1. q[g] = Queued(queue, g, ends[g])[g] /\ g <= issued
        BY <2>2, <3>1 DEF ReapedQueue
      <4>. QED
        BY <2>1, <2>3, <4>1
    <3>2. CASE ~\E p \in expired : reservations[p].gen = g
      <4>1. q[g] = queue[g]
        BY <3>2 DEF ReapedQueue
      <4>. QED
        BY <2>1, <3>2, <4>1
    <3>. QED
      BY <3>1, <3>2
  <2>. QED
    BY <2>4, <2>5
<1>6. /\ queue' \in [Gens -> Maybe(QueueRows)]
      /\ \A g \in Gens : /\ queue'[g] = Nil <=> q[g] = Nil
                         /\ q[g] # Nil => queue'[g].due = q[g].due
  <2>. HIDE DEF q
  <2>1. \A g \in leases : q[g] # Nil /\ g \in Gens
    BY <1>4 DEF Candidates
  <2>2. \A g \in Gens : q[g] # Nil =>
          /\ q[g] \in QueueRows
          /\ [due |-> q[g].due, lease |-> GcLease, attempts |-> q[g].attempts]
               \in QueueRows
    BY <1>5, Shapes DEF Maybe, QueueRows
  <2>. QED
    BY <1>2, <1>5, <2>1, <2>2, Shapes DEF Leased, Maybe
<1>7. /\ rows \in [Paths -> Maybe(Reservations)]
      /\ \A p \in Paths : rows[p] = IF p \in expired THEN Nil
                                    ELSE reservations[p]
  BY DEF ReapedReservations, IInv, TypeOK, Maybe
<1>8. /\ receipts' \in [Gens -> Maybe([request : Requests,
                                      reservation : Reservations, left : Nat])]
      /\ \A g \in Gens : receipts'[g] # Nil => receipts'[g] = receipts[g]
  BY <1>3 DEF Pruned, IInv, TypeOK, Maybe
<1>9. /\ publications' \in [Gens -> Maybe([reference : References,
                                          left : Nat])]
      /\ \A g \in Gens : publications'[g] # Nil =>
           publications'[g] = publications[g]
  BY <1>3 DEF Pruned, IInv, TypeOK, Maybe
<1>10. \A g \in Gens :
         /\ Reserved(g)' => Reserved(g)
         /\ Reserved(g) =>
              Reserved(g)' \/ (queue'[g] # Nil /\ queue'[g].due >= ends[g])
  BY <1>2, <1>5, <1>6, <1>7 DEF Reserved
<1>. HIDE DEF q, rows
<1>11. TypeOK'
  <2>1. pass' \in [Gens -> {"none", "held", "gone"}]
    BY <1>2
  <2>. QED
    BY <1>2, <1>3, <1>6, <1>7, <1>8, <1>9, <2>1
       DEF IInv, TypeOK, clients, puts
<1>12. Named'
  BY <1>2, <1>3, <1>5, <1>6, <1>7, <1>8, <1>9 DEF IInv, Named, clients, puts
<1>13. Bound'
  BY <1>3 DEF IInv, Bound, clients, puts
<1>14. Collected'
  <2>. SUFFICES ASSUME NEW g \in Gens, g \in leases
                PROVE  /\ queue'[g] # Nil /\ ~Published(g) /\ ~Reserved(g)'
                       /\ retentions[g] = 0
                       /\ answered[g] = Nil => ends[g] = 0
    BY <1>2, <1>3 DEF Collected, Published, clients, puts
  <2>1. /\ q[g] # Nil /\ q[g].due = 0 /\ ~Published(g) /\ retentions[g] = 0
        /\ \A p \in Paths : rows[p] # Nil => rows[p].gen # g
    BY <1>4 DEF Candidates
  <2>2. queue'[g] # Nil /\ queue'[g].due = 0 /\ ~Reserved(g)'
    BY <1>2, <1>6, <2>1 DEF Reserved
  <2>3. ASSUME answered[g] = Nil, ends[g] > 0
        PROVE  FALSE
    <3>1. ends[g] \in Nat /\ (queue[g] # Nil => queue[g].due \in Nat)
      BY Shapes DEF IInv, TypeOK, QueueRows
    <3>2. Reserved(g) \/ (queue[g] # Nil /\ queue[g].due >= ends[g])
      BY <2>3 DEF IInv, Deadlines, Waits
    <3>3. CASE Reserved(g)
      BY <1>10, <2>2, <2>3, <3>1, <3>3
    <3>4. CASE queue[g] # Nil /\ queue[g].due >= ends[g]
      BY <1>5, <2>1, <2>3, <3>1, <3>4
    <3>. QED
      BY <3>2, <3>3, <3>4
  <2>4. ends[g] \in Nat
    BY DEF IInv, TypeOK
  <2>. QED
    BY <2>1, <2>2, <2>3, <2>4
<1>15. Deadlines'
  <2>. SUFFICES ASSUME NEW g \in Gens, answered[g] = Nil, ends[g] > 0
                PROVE  Reserved(g)'
                       \/ (queue'[g] # Nil /\ queue'[g].due >= ends[g])
    BY <1>3 DEF IInv, Deadlines, Waits, clients
  <2>1. CASE Reserved(g)
    BY <1>10, <2>1
  <2>2. CASE queue[g] # Nil /\ queue[g].due >= ends[g]
    <3>1. /\ ends[g] \in Nat /\ queue[g].due \in Nat
          /\ queue'[g] # Nil /\ queue'[g].due >= queue[g].due
      BY <1>5, <1>6, <2>2, Shapes DEF IInv, TypeOK, QueueRows
    <3>2. queue'[g].due \in Nat
      BY <1>6, <3>1 DEF Maybe, QueueRows
    <3>. QED
      BY <2>2, <3>1, <3>2
  <2>. QED
    BY <2>1, <2>2 DEF IInv, Deadlines, Waits
<1>16. Bodies'
  <2>1. \A k \in Calls :
          calls[k] # Nil /\ reservations'[calls[k].reservation.path]
                              = calls[k].reservation
          => reservations[calls[k].reservation.path] = calls[k].reservation
    BY <1>2, <1>7, Shapes DEF Publishing
  <2>. QED
    BY <1>3, <2>1 DEF IInv, Bodies, clients
<1>17. NothingLeaks'
  BY <1>3, <1>5, <1>6, <1>10 DEF IInv, NothingLeaks, Published, clients, puts
<1>. QED
  BY <1>11, <1>12, <1>13, <1>14, <1>15, <1>16, <1>17 DEF IInv

-----------------------------------------------------------------------------

(* One step: the invariant stays, and so does every answer.                *)
LEMMA Step_IInv ==
  ASSUME IInv, [Next]_vars
  PROVE  /\ IInv'
         /\ \A g \in Gens : answered[g] # Nil => answered'[g] = answered[g]
<1>1. CASE UNCHANGED vars
  <2>. USE <1>1 DEF vars, catalog, clients, puts
  <2>1. TypeOK'
    BY DEF IInv, TypeOK
  <2>2. Named' /\ Deadlines'
    BY DEF IInv, Named, Deadlines, Waits, Reserved
  <2>3. Bound' /\ Collected'
    BY DEF IInv, Bound, Collected, Published, Reserved
  <2>4. Bodies' /\ NothingLeaks'
    BY DEF IInv, Bodies, NothingLeaks, Published, Reserved
  <2>. QED
    BY <2>1, <2>2, <2>3, <2>4 DEF IInv
<1>2. CASE \E adapter \in Adapters : Start(adapter)
  BY <1>2, Step_Start DEF Start, clients
<1>3. CASE Crash
  BY <1>3, Step_Crash DEF Crash, clients
<1>4. CASE WriterStep
  <2>1. CASE \E request \in Requests, p \in Paths : Reserve(request, p)
    BY <2>1, Step_Reserve DEF Reserve, clients
  <2>2. CASE \E g \in Gens : GrantPut(g)
    BY <2>2, Step_GrantPut DEF GrantPut
  <2>3. CASE \E g \in Gens : PublishReplay(g)
    BY <2>3, Step_PublishReplay
  <2>4. CASE \E g \in Gens, body \in Contents : Upload(g, body)
    BY <2>4, Step_Upload DEF Upload, clients
  <2>5. CASE \E g \in Gens, body \in Contents : Put(g, body)
    BY <2>5, Step_Put DEF Put
  <2>6. CASE \E r \in Held : PublishLocal(r)
    BY <2>6, Step_PublishLocal
  <2>7. CASE \E r \in Held : Abort(r)
    BY <2>7, Step_Abort DEF Abort, clients
  <2>8. CASE \E k \in Calls, r \in Held : PublishBegin(k, r)
    BY <2>8, Step_PublishBegin DEF PublishBegin, clients
  <2>. QED
    BY <1>4, <2>1, <2>2, <2>3, <2>4, <2>5, <2>6, <2>7, <2>8 DEF WriterStep
<1>5. CASE ReaderStep
  BY <1>5, Step_GrantGet DEF ReaderStep, GrantGet
<1>6. CASE \E k \in Calls : PublishStep(k)
  <2>1. CASE \E k \in Calls : Observe(k)
    BY <2>1, Step_Observe DEF Observe, clients
  <2>2. CASE \E k \in Calls : PublishCommit(k)
    BY <2>2, Step_PublishCommit
  <2>. QED
    BY <1>6, <2>1, <2>2 DEF PublishStep
<1>7. CASE Claim
  BY <1>7, Step_Claim DEF Claim, clients
<1>8. CASE \E g \in Gens : DeletionStep(g) \/ Fail(g)
  <2>1. CASE \E g \in Gens : Delete(g)
    BY <2>1, Step_Delete DEF Delete, clients
  <2>2. CASE \E g \in Gens : Acknowledge(g)
    BY <2>2, Step_Acknowledge DEF Acknowledge, clients
  <2>3. CASE \E g \in Gens : Fail(g)
    BY <2>3, Step_Fail DEF Fail, clients
  <2>. QED
    BY <1>8, <2>1, <2>2, <2>3 DEF DeletionStep
<1>9. CASE Tick
  BY <1>9, Step_Tick DEF Tick
<1>. QED
  BY <1>1, <1>2, <1>3, <1>4, <1>5, <1>6, <1>7, <1>8, <1>9 DEF Next

LEMMA Invariance == Spec => []IInv
<1>1. IInv /\ [Next]_vars => IInv'
  BY Step_IInv
<1>. QED
  BY Init_IInv, <1>1, PTL DEF Spec

(* The artifact namespace keeps every published body, and every body under *)
(* a signed GET, in the store its catalog is bound to: publication across  *)
(* a HEAD without the mutex, read retentions and the collector never cross. *)
THEOREM ReadsSucceed == Spec => []ReadersFindBody
<1>1. IInv => ReadersFindBody
  BY DEF IInv, Bodies, ReadersFindBody
<1>. QED
  BY Invariance, <1>1, PTL

(* The collector never forgets an object: what is in a store is published, *)
(* reserved or queued, whatever crashes, expires, is replaced or aborted,  *)
(* unless a client repeated a PUT that was already published.              *)
THEOREM ObjectsAreTracked == Spec => []NothingLeaks
<1>1. IInv => NothingLeaks
  BY DEF IInv
<1>. QED
  BY Invariance, <1>1, PTL

(* A publication is idempotent for ever: from its reservation, its receipt *)
(* or, with both gone, the path, a retry gets the first answer or none.    *)
THEOREM PublicationIsIdempotent == Spec => PublishAnswersAgree
<1>1. IInv /\ [Next]_vars =>
        [\A g \in Gens : answered[g] # Nil => answered'[g] = answered[g]]_vars
  BY Step_IInv
<1>. QED
  BY Invariance, <1>1, PTL DEF Spec, PublishAnswersAgree

(* The catalog, the stores and the clients' grants keep their shapes.      *)
THEOREM TypeCorrect == Spec => []TypeOK
<1>1. IInv => TypeOK
  BY DEF IInv
<1>. QED
  BY Invariance, <1>1, PTL
=============================================================================
