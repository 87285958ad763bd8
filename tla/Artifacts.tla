------------------------------ MODULE Artifacts ------------------------------
(***************************************************************************)
(* The artifact namespace: a private SQLite catalog of logical paths, and  *)
(* a body store that holds one immutable object for each generation.  A    *)
(* writer reserves a path, uploads the generation it was given, through    *)
(* the server or with a presigned PUT, and publishes what the server then  *)
(* observes.  A collector deletes the generations nothing names any more.  *)
(* The catalog is transactional and the body store is not part of its      *)
(* transactions: the two agree only by the order of the steps.             *)
(*                                                                         *)
(* Time is kept as what is left of each deadline, so that it may pass      *)
(* without bound.  A mutation token names the generation it was issued     *)
(* with, and an artifact id its path.                                      *)
(***************************************************************************)
EXTENDS Naturals, FiniteSets

CONSTANTS
  Paths,
  Requests,     \* request ids of reservations
  Contents,
  Calls,        \* S3 publications the server holds at once
  Adapters,     \* the body stores the server may be configured with
  MaxGen,       \* bound: generations issued
  Ttl,          \* ttl_ms of a reservation and of the grants under it
  Grace,        \* GC_SETTLEMENT_GRACE_MS, also that of direct reads
  GcLease,      \* GC_LEASE_MS
  Retention,    \* RECEIPT_RETENTION_MS
  Batch,        \* MAX_GC_BATCH
  MaxFailures,  \* bound: failed deletions of one generation
  MaxCrashes,   \* bound
  Nil

ASSUME BoundsAssumption ==
  /\ MaxGen \in Nat /\ Ttl \in Nat /\ Grace \in Nat /\ GcLease \in Nat
  /\ Retention \in Nat /\ Batch \in Nat /\ MaxFailures \in Nat
  /\ MaxCrashes \in Nat
  /\ Adapters \subseteq {"local", "s3"}

Gens == 1..MaxGen

Maybe(T) == T \cup {Nil}

Reservations == [path : Paths, gen : Gens, revision : Nat]

References == [path : Paths, gen : Gens, revision : Nat, body : Contents]

Publishing == [reservation : Reservations, live : BOOLEAN, left : Nat,
               body : Maybe(Contents)]

ASSUME NilAssumption ==
  Nil \notin Contents \cup Reservations \cup References \cup Publishing
             \cup Adapters
             \cup [due : Nat, lease : Nat, attempts : Nat]
             \cup [reference : References, left : Nat]
             \cup [request : Requests, reservation : Reservations, left : Nat]

VARIABLES
  up,            \* is a server process running?
  identity,      \* body_store_identity in artifact_repository_meta
  issued,        \* generations handed out so far
  ends,          \* what is left until a reservation's expiry and the grace
  reservations,  \* artifact_reservations
  receipts,      \* artifact_reservation_receipts, by token
  paths,         \* artifact_paths
  publications,  \* artifact_publication_receipts, by token
  queue,         \* artifact_gc_queue
  retentions,    \* artifact_read_retentions
  objects,       \* the bodies in each store
  grants,        \* generations a client holds a presigned PUT for
  downloads,     \* what is left of the presigned GETs of a generation
  calls,         \* S3 publications between their two catalog sections
  pass,          \* the generations a collector pass holds leases for
  answered,      \* the reference each token's publication was answered with
  repeated,      \* generations whose PUT was repeated after that answer
  crashes

catalog == <<reservations, receipts, paths, publications, queue, retentions>>

puts == <<grants, repeated>>

clients == <<puts, downloads, answered>>

vars == <<up, identity, issued, ends, catalog, objects, clients, calls, pass,
          crashes>>

None == [g \in Gens |-> Nil]

Zero == [g \in Gens |-> 0]

NoPass == [g \in Gens |-> "none"]

NoCalls == [k \in Calls |-> Nil]

(* LocalArtifactStore::open on a new root.                                 *)
Init ==
  /\ up = FALSE
  /\ identity = Nil
  /\ issued = 0
  /\ ends = Zero
  /\ reservations = [p \in Paths |-> Nil]
  /\ receipts = None
  /\ paths = [p \in Paths |-> Nil]
  /\ publications = None
  /\ queue = None
  /\ retentions = Zero
  /\ objects = [a \in Adapters |-> None]
  /\ grants = {}
  /\ downloads = Zero
  /\ calls = NoCalls
  /\ pass = NoPass
  /\ answered = None
  /\ repeated = {}
  /\ crashes = 0

-----------------------------------------------------------------------------

Larger(m, n) == IF m < n THEN n ELSE m

Smaller(m, n) == IF m < n THEN m ELSE n

Less(n) == IF n = 0 THEN 0 ELSE n - 1

(* A batch: as many of the due rows as the limit admits.                   *)
Batches(S, limit) ==
  {T \in SUBSET S : Cardinality(T) = Smaller(Cardinality(S), limit)}

Live(g) == ends[g] > Grace

Reserved(g) == \E p \in Paths : reservations[p] # Nil /\ reservations[p].gen = g

Published(g) == \E p \in Paths : paths[p] # Nil /\ paths[p].gen = g

(* The local collector deletes files with the catalog's mutex held; the S3 *)
(* collector takes the mutex for each catalog statement only.              *)
Serving == up /\ (identity = "s3" \/ pass = NoPass)

(* Fault: a candidate that is due at once, whatever was asked for.         *)
QueuedAtOnce(q, g, due) ==
  [q EXCEPT ![g] = [due |-> 0, lease |-> 0, attempts |-> 0]]

(* queue_gc_candidate: a row that is there only has its deadlines moved.   *)
Queued(q, g, due) ==
  [q EXCEPT ![g] =
     IF q[g] = Nil THEN [due |-> due, lease |-> 0, attempts |-> 0]
     ELSE [q[g] EXCEPT !.due = Larger(q[g].due, due)]]

(* bind_body_store: once bound, a catalog starts with no other adapter.    *)
Start(adapter) ==
  /\ ~up
  /\ identity \in {Nil, adapter}
  /\ up' = TRUE
  /\ identity' = adapter
  /\ UNCHANGED <<issued, ends, catalog, objects, clients, calls, pass, crashes>>

(* The process stops anywhere between two steps.                           *)
Crash ==
  /\ up
  /\ crashes < MaxCrashes
  /\ up' = FALSE
  /\ calls' = NoCalls
  /\ pass' = NoPass
  /\ crashes' = crashes + 1
  /\ UNCHANGED <<identity, issued, ends, catalog, objects, clients>>

(* The queue once p's expired reservation, if it has one, is replaced.     *)
Replaced(p) ==
  IF reservations[p] = Nil THEN queue
  ELSE Queued(queue, reservations[p].gen, ends[reservations[p].gen])

(* A request id with a receipt is answered from it and changes nothing.    *)
Reserve(request, p) ==
  /\ Serving
  /\ issued < MaxGen
  /\ \A g \in Gens : receipts[g] # Nil => receipts[g].request # request
  /\ reservations[p] # Nil => ~Live(reservations[p].gen)
  /\ LET g == issued + 1
         r == [path |-> p, gen |-> g,
               revision |-> IF paths[p] = Nil THEN 1
                            ELSE paths[p].revision + 1]
     IN  /\ issued' = g
         /\ ends' = [ends EXCEPT ![g] = Ttl + Grace]
         /\ reservations' = [reservations EXCEPT ![p] = r]
         /\ receipts' = [receipts EXCEPT ![g] =
              [request |-> request, reservation |-> r,
               left |-> Ttl + Retention]]
         /\ queue' = Replaced(p)
  /\ UNCHANGED <<up, identity, paths, publications, retentions, objects,
                 clients, calls, pass, crashes>>

Store(g, body) ==
  objects' = [objects EXCEPT ![identity] =
                [objects[identity] EXCEPT ![g] = body]]

(* persist_noclobber: the same bytes again are accepted and change nothing. *)
Upload(g, body) ==
  /\ Serving /\ identity = "local"
  /\ Reserved(g) /\ Live(g)
  /\ objects["local"][g] = Nil
  /\ Store(g, body)
  /\ UNCHANGED <<up, identity, issued, ends, catalog, clients, calls, pass,
                 crashes>>

(* The signed PUT never outlives the reservation.                          *)
GrantPut(g) ==
  /\ Serving /\ identity = "s3"
  /\ Reserved(g) /\ Live(g)
  /\ grants' = grants \cup {g}
  /\ UNCHANGED <<up, identity, issued, ends, catalog, objects, downloads,
                 answered, repeated, calls, pass, crashes>>

(* If-None-Match: *.  A PUT begun in time has landed by the grace's end.   *)
Put(g, body) ==
  /\ g \in grants
  /\ ends[g] > 0
  /\ objects["s3"][g] = Nil
  /\ objects' = [objects EXCEPT !["s3"] =
                   [objects["s3"] EXCEPT ![g] = body]]
  /\ repeated' = IF answered[g] = Nil THEN repeated ELSE repeated \cup {g}
  /\ UNCHANGED <<up, identity, issued, ends, catalog, grants, downloads,
                 answered, calls, pass, crashes>>

-----------------------------------------------------------------------------

(* reservation_for_publish: the live row, or else its receipt.             *)
Known(r) ==
  \/ reservations[r.path] = r
  \/ receipts[r.gen] # Nil /\ receipts[r.gen].reservation = r

Reference(r, body) ==
  [path |-> r.path, gen |-> r.gen, revision |-> r.revision, body |-> body]

(* commit_publication with its reservation there and live when it was read. *)
Commit(r, body, left) ==
  LET previous == paths[r.path]
  IN  /\ paths' = [paths EXCEPT ![r.path] = Reference(r, body)]
      /\ queue' = IF previous = Nil THEN queue
                  ELSE Queued(queue, previous.gen, 0)
      /\ publications' = [publications EXCEPT ![r.gen] =
                            [reference |-> Reference(r, body), left |-> left]]
      /\ reservations' = [reservations EXCEPT ![r.path] = Nil]
      /\ answered' = [answered EXCEPT ![r.gen] = Reference(r, body)]
      /\ UNCHANGED <<receipts, retentions>>

(* Fault: the row found under the path is answered unexamined.             *)
CommitAgainUnmatched(r, body) ==
  /\ reservations[r.path] # r
  /\ paths[r.path] # Nil
  /\ answered' = [answered EXCEPT ![r.gen] = paths[r.path]]
  /\ UNCHANGED catalog

(* Its reservation is consumed, but the path shows what it published.      *)
CommitAgain(r, body) ==
  /\ reservations[r.path] # r
  /\ paths[r.path] = Reference(r, body)
  /\ answered' = [answered EXCEPT ![r.gen] = Reference(r, body)]
  /\ UNCHANGED catalog

(* A retry within the retention is answered with the first publication.    *)
PublishReplay(g) ==
  /\ Serving
  /\ publications[g] # Nil
  /\ answered' = [answered EXCEPT ![g] = publications[g].reference]
  /\ UNCHANGED <<up, identity, issued, ends, catalog, objects, puts,
                 downloads, calls, pass, crashes>>

(* Observation and publication under one hold of the catalog's mutex.      *)
PublishLocal(r) ==
  LET body == objects["local"][r.gen]
  IN  /\ Serving /\ identity = "local"
      /\ publications[r.gen] = Nil
      /\ Known(r)
      /\ body # Nil
      /\ \/ /\ reservations[r.path] = r
            /\ Live(r.gen)
            /\ Commit(r, body, Retention)
         \/ CommitAgain(r, body)
      /\ UNCHANGED <<up, identity, issued, ends, objects, puts, downloads,
                     calls, pass, crashes>>

(* With S3 the mutex is released for the HEAD, and the clock reading is    *)
(* the one taken before it.                                                *)
PublishBegin(k, r) ==
  /\ Serving /\ identity = "s3"
  /\ calls[k] = Nil
  /\ publications[r.gen] = Nil
  /\ Known(r)
  /\ calls' = [calls EXCEPT ![k] =
       [reservation |-> r, live |-> Live(r.gen), left |-> Retention,
        body |-> Nil]]
  /\ UNCHANGED <<up, identity, issued, ends, catalog, objects, clients, pass,
                 crashes>>

(* S3BodyStore::observe; without an object the call ends.                  *)
Observe(k) ==
  /\ calls[k] # Nil
  /\ calls[k].body = Nil
  /\ LET c == calls[k]
         body == objects["s3"][c.reservation.gen]
     IN  calls' = [calls EXCEPT ![k] =
           IF body = Nil THEN Nil
           ELSE [reservation |-> c.reservation, live |-> c.live,
                 left |-> c.left, body |-> body]]
  /\ UNCHANGED <<up, identity, issued, ends, catalog, objects, clients, pass,
                 crashes>>

(* publish_trusted_observation.  A call that is refused ends unanswered.   *)
PublishCommit(k) ==
  /\ calls[k] # Nil
  /\ calls[k].body # Nil
  /\ LET c == calls[k]
         r == c.reservation
         reference == Reference(r, c.body)
     IN  \/ /\ publications[r.gen] # Nil
            /\ publications[r.gen].reference = reference
            /\ answered' = [answered EXCEPT ![r.gen] = reference]
            /\ UNCHANGED catalog
         \/ /\ publications[r.gen] = Nil
            /\ reservations[r.path] = r
            /\ c.live
            /\ Commit(r, c.body, c.left)
         \/ /\ publications[r.gen] = Nil
            /\ CommitAgain(r, c.body)
         \/ /\ \/ /\ publications[r.gen] # Nil
                  /\ publications[r.gen].reference # reference
               \/ /\ publications[r.gen] = Nil
                  /\ IF reservations[r.path] = r THEN ~c.live
                     ELSE paths[r.path] # reference
            /\ UNCHANGED <<catalog, answered>>
  /\ calls' = [calls EXCEPT ![k] = Nil]
  /\ UNCHANGED <<up, identity, issued, ends, objects, puts, downloads, pass,
                 crashes>>

Abort(r) ==
  /\ Serving
  /\ reservations[r.path] = r
  /\ reservations' = [reservations EXCEPT ![r.path] = Nil]
  /\ queue' = Queued(queue, r.gen, ends[r.gen])
  /\ UNCHANGED <<up, identity, issued, ends, receipts, paths, publications,
                 retentions, objects, clients, calls, pass, crashes>>

-----------------------------------------------------------------------------

(* retain_for_read keeps the later of the two ends.                        *)
Retained(g, ttl) == Larger(retentions[g], ttl + Grace)

(* The retention is durable before the GET of the current body is signed.  *)
GrantGet(p, ttl) ==
  /\ Serving /\ identity = "s3"
  /\ paths[p] # Nil
  /\ LET g == paths[p].gen
     IN  /\ retentions' = [retentions EXCEPT ![g] = Retained(g, ttl)]
         /\ downloads' = [downloads EXCEPT ![g] =
                            Larger(downloads[g], ttl + Grace)]
  /\ UNCHANGED <<up, identity, issued, ends, reservations, receipts, paths,
                 publications, queue, objects, puts, answered, calls, pass,
                 crashes>>

-----------------------------------------------------------------------------

ExpiredPaths ==
  {p \in Paths : reservations[p] # Nil /\ ~Live(reservations[p].gen)}

(* reap_expired_reservations, for the paths of one batch.                  *)
ReapedQueue(batch) ==
  [g \in Gens |->
     IF \E p \in batch : reservations[p].gen = g
     THEN Queued(queue, g, ends[g])[g]
     ELSE queue[g]]

ReapedReservations(batch) ==
  [p \in Paths |-> IF p \in batch THEN Nil ELSE reservations[p]]

(* Fault: generations under a read retention are due too.                  *)
CandidatesRead(q, rows) ==
  {g \in Gens :
     /\ q[g] # Nil
     /\ q[g].due = 0 /\ q[g].lease = 0
     /\ ~Published(g)
     /\ \A p \in Paths : rows[p] # Nil => rows[p].gen # g}

(* claim_gc_candidates: due, not leased, and named by nothing.             *)
Candidates(q, rows) ==
  {g \in Gens :
     /\ q[g] # Nil
     /\ q[g].due = 0 /\ q[g].lease = 0
     /\ ~Published(g)
     /\ \A p \in Paths : rows[p] # Nil => rows[p].gen # g
     /\ retentions[g] = 0}

Leased(q, leases) ==
  [g \in Gens |->
     IF g \in leases
     THEN [due |-> q[g].due, lease |-> GcLease, attempts |-> q[g].attempts]
     ELSE q[g]]

Prunable(rows) == {g \in Gens : rows[g] # Nil /\ rows[g].left = 0}

Pruned(rows, batch) ==
  [g \in Gens |-> IF g \in batch THEN Nil ELSE rows[g]]

(* One pass at a time: claim_garbage reaps, leases and prunes in one       *)
(* transaction.  A retention that has ended is the same as none.           *)
Claim ==
  /\ up
  /\ pass = NoPass
  /\ \E expired \in Batches(ExpiredPaths, Batch) :
       LET q == ReapedQueue(expired)
           rows == ReapedReservations(expired)
       IN  \E leases \in Batches(Candidates(q, rows), Batch) :
             /\ reservations' = rows
             /\ queue' = Leased(q, leases)
             /\ pass' = [g \in Gens |->
                           IF g \in leases THEN "held" ELSE "none"]
  /\ \E old \in Batches(Prunable(receipts), Batch) :
       /\ receipts' = Pruned(receipts, old)
       /\ \E older \in Batches(Prunable(publications),
                               Batch - Cardinality(old)) :
            publications' = Pruned(publications, older)
  /\ UNCHANGED <<up, identity, issued, ends, paths, retentions, objects,
                 clients, calls, crashes>>

(* Deleting what is gone already succeeds.                                 *)
Delete(g) ==
  /\ pass[g] = "held"
  /\ Store(g, Nil)
  /\ pass' = [pass EXCEPT ![g] = "gone"]
  /\ UNCHANGED <<up, identity, issued, ends, catalog, clients, calls, crashes>>

Acknowledge(g) ==
  /\ pass[g] = "gone"
  /\ queue' = [queue EXCEPT ![g] = Nil]
  /\ pass' = [pass EXCEPT ![g] = "none"]
  /\ UNCHANGED <<up, identity, issued, ends, reservations, receipts, paths,
                 publications, retentions, objects, clients, calls, crashes>>

(* Fault: a deletion that failed is acknowledged.                          *)
FailAcknowledged(g) ==
  /\ pass[g] = "held"
  /\ queue' = [queue EXCEPT ![g] = Nil]
  /\ pass' = [pass EXCEPT ![g] = "none"]
  /\ UNCHANGED <<up, identity, issued, ends, reservations, receipts, paths,
                 publications, retentions, objects, clients, calls, crashes>>

(* The provider refuses: the lease is released and the delay doubles.      *)
Fail(g) ==
  /\ pass[g] = "held"
  /\ queue[g].attempts < MaxFailures
  /\ queue' = [queue EXCEPT ![g] =
       [due |-> 2 ^ Smaller(queue[g].attempts, 10), lease |-> 0,
        attempts |-> queue[g].attempts + 1]]
  /\ pass' = [pass EXCEPT ![g] = "none"]
  /\ UNCHANGED <<up, identity, issued, ends, reservations, receipts, paths,
                 publications, retentions, objects, clients, calls, crashes>>

Later(rows) ==
  [g \in Gens |->
     IF rows[g] = Nil THEN Nil
     ELSE [rows[g] EXCEPT !.left = Less(rows[g].left)]]

Tick ==
  /\ ends' = [g \in Gens |-> Less(ends[g])]
  /\ receipts' = Later(receipts)
  /\ publications' = Later(publications)
  /\ queue' = [g \in Gens |->
       IF queue[g] = Nil THEN Nil
       ELSE [due |-> Less(queue[g].due), lease |-> Less(queue[g].lease),
             attempts |-> queue[g].attempts]]
  /\ retentions' = [g \in Gens |-> Less(retentions[g])]
  /\ downloads' = [g \in Gens |-> Less(downloads[g])]
  /\ calls' = [k \in Calls |->
       IF calls[k] = Nil THEN Nil
       ELSE [calls[k] EXCEPT !.left = Less(calls[k].left)]]
  /\ UNCHANGED <<up, identity, issued, reservations, paths, objects, puts,
                 answered, pass, crashes>>

-----------------------------------------------------------------------------

(* The reservations a client may hold: those it was ever answered with.    *)
Held ==
  {reservations[p] : p \in {p \in Paths : reservations[p] # Nil}} \cup
  {receipts[g].reservation : g \in {g \in Gens : receipts[g] # Nil}}

WriterStep ==
  \/ \E request \in Requests, p \in Paths : Reserve(request, p)
  \/ \E g \in Gens : GrantPut(g) \/ PublishReplay(g)
  \/ \E g \in Gens, body \in Contents : Upload(g, body) \/ Put(g, body)
  \/ \E r \in Held : PublishLocal(r) \/ Abort(r)
  \/ \E k \in Calls, r \in Held : PublishBegin(k, r)

ReaderStep == \E p \in Paths, ttl \in 1..Ttl : GrantGet(p, ttl)

PublishStep(k) == Observe(k) \/ PublishCommit(k)

DeletionStep(g) == Delete(g) \/ Acknowledge(g)

Next ==
  \/ \E adapter \in Adapters : Start(adapter)
  \/ Crash
  \/ WriterStep
  \/ ReaderStep
  \/ \E k \in Calls : PublishStep(k)
  \/ Claim
  \/ \E g \in Gens : DeletionStep(g) \/ Fail(g)
  \/ Tick

Spec == Init /\ [][Next]_vars

(* The operator restarts the server, time passes, and the collector's loop *)
(* runs a pass a minute and works off what it leased.                      *)
FairSpec ==
  /\ Spec
  /\ WF_vars(\E adapter \in Adapters : Start(adapter))
  /\ WF_vars(Tick)
  /\ WF_vars(Claim)
  /\ \A g \in Gens : WF_vars(DeletionStep(g))

-----------------------------------------------------------------------------

QueueRows == [due : Nat, lease : Nat, attempts : Nat]

TypeOK ==
  /\ up \in BOOLEAN
  /\ identity \in Maybe(Adapters)
  /\ issued \in 0..MaxGen
  /\ ends \in [Gens -> Nat]
  /\ reservations \in [Paths -> Maybe(Reservations)]
  /\ receipts \in [Gens -> Maybe([request : Requests,
                                 reservation : Reservations, left : Nat])]
  /\ paths \in [Paths -> Maybe(References)]
  /\ publications \in [Gens -> Maybe([reference : References, left : Nat])]
  /\ queue \in [Gens -> Maybe(QueueRows)]
  /\ retentions \in [Gens -> Nat]
  /\ objects \in [Adapters -> [Gens -> Maybe(Contents)]]
  /\ grants \subseteq Gens
  /\ repeated \subseteq Gens
  /\ downloads \in [Gens -> Nat]
  /\ calls \in [Calls -> Maybe(Publishing)]
  /\ pass \in [Gens -> {"none", "held", "gone"}]
  /\ answered \in [Gens -> Maybe(References)]
  /\ crashes \in 0..MaxCrashes

(* A published path always has its body, byte for byte, in the configured  *)
(* store, and whoever holds a signed GET that has not expired finds the    *)
(* body even when the path was replaced in the meantime: publications,     *)
(* the retentions of readers and the collector never cross.                *)
ReadersFindBody ==
  /\ \A p \in Paths : paths[p] # Nil =>
       objects[identity][paths[p].gen] = paths[p].body
  /\ \A g \in Gens : downloads[g] > 0 => objects[identity][g] # Nil

(* Every object in the store is published, reserved, or in the collector's *)
(* queue, but for what a client put back by repeating a PUT whose object   *)
(* was published, replaced and collected before the signature expired.     *)
NothingLeaks ==
  \A a \in Adapters, g \in Gens \ repeated :
    objects[a][g] # Nil =>
      a = identity /\ (Published(g) \/ Reserved(g) \/ queue[g] # Nil)

(* However often a publication is retried, before or after its receipt is  *)
(* pruned, what it answers with success is always the first answer.        *)
PublishAnswersAgree ==
  [][\A g \in Gens : answered[g] # Nil => answered'[g] = answered[g]]_vars

(* A body that is not published is deleted in the end: after an abort, an  *)
(* abandoned upload, a replacement, a crash or failed deletions, unless a  *)
(* client puts it back.                                                    *)
UnpublishedIsDeleted ==
  \A a \in Adapters, g \in Gens :
    objects[a][g] # Nil
      ~> (objects[a][g] = Nil \/ Published(g) \/ g \in repeated)
=============================================================================
