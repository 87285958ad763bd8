# TLA+ development for AideMemo

AideMemo keeps a knowledge graph of entities and facts for coding agents. It is
two systems in one repository:

* an embedded store (`aidememo-core`) that one user's commands, an MCP server
  and a daemon open side by side, with sync, branches, archives, backups,
  search and a local handoff ledger;
* a server that owns one canonical, revisioned history per project
  (`aidememo-domain`, `-service`, `-store-local`, `-store-postgres`,
  `-server`, `-artifacts`), with a replica, an outbox and a worker lane on each
  client.

In both, several actors, processes or machines touch one state. The modules
model what they may do to one another.

Paths are relative to `src/crates/` unless they begin with `src/`.

## The system

    worker / sender        outbox of sends          replica file
        |  command id,          |  one intent,          ^  snapshot,
        |  stated revision      |  four files           |  change batches
        v                       v                       |
    typed product routes   --   raw custom.* routes   --   feed routes
        |           permits, connections, timeouts          |
        +------------- blocking executor -------------------+
                              |
        command service: membership, replay, fingerprints, visibility
                              |
        command ledger (SQLite or PostgreSQL)      artifact catalog + bodies

    CLI commands -- daemon registry --> MCP server of a store
         |                                     |
         +---------- embedded store -----------+---- index, embeddings
                      |        |        |
                cold archive  branches  cache that pulls by watermarks

| Component | State it keeps | Operations | What is hard | What makes it correct |
|---|---|---|---|---|
| Handoff domain (`aidememo-domain/src/handoff.rs`) | status, claim, lease, attempts, result | new, attach_context, accept, heartbeat, return | several workers, expiry, failed attempts | one live claim, completion only with evidence |
| Typed product API (`aidememo-server/src/product.rs`) | none | create, send, accept, heartbeat, return | a request is several store calls; the clock is read before it queues | a request is as if it were one step; a refused command had no effect |
| Command ledger (`aidememo-store-local`, `-store-postgres`) | sequence, heads, receipts, changes, mailbox index | execute, receipt, feed, handoffs | concurrent connections, lost commit replies | one dense history; a command commits once |
| Blocking executor (`executor.rs`) | permits, pooled connections | run | timeouts and disconnects while the task goes on | permits and connections are conserved; every caller is answered |
| Replica (`aidememo-client`, `store-postgres/src/backup.rs`) | one file: epoch, actor, cursor, rows | pull, reset; restore of the server | history changes between requests, a shared file, a history turned back | the file is its actor's view of the history at its cursor |
| Artifacts (`aidememo-artifacts`, `server/src/artifact.rs`) | paths, generations, garbage queue, bodies | reserve, upload, publish, download, collect | two stores, crashes between them, late uploads | who may read finds the body; nothing leaks |
| Send outbox (`cmd/remote_handoff/send_operation.rs`) | an intent's directory and lock | reserve, send, record, publish | a crash between any two file operations | a send is never lost and never doubled |
| Embedded store and sync (`aidememo-core`) | entities, facts, links, relations, archive, watermarks, branches | write, archive, export, import, fork, merge, back up, restore | pages by id and by stamp, torn pages, two tiers on two files | nothing a cursor passed is missing; a fact is in one tier |
| Search and fact lifecycle (`aidememo-core`) | store, lexical index, embeddings, archive index | add, update, supersede, consolidate, archive, search | the caches are brought up to date after the commit, under other locks | a search tells the truth about what nobody is writing |
| Local handoff ledger and worker lane (`cmd/handoff.rs`, `src/packages/aidememo-agent-sdk`) | one entity per assignment, a lane's stage | dispatch, accept, heartbeat, return, complete | a request is a read and a later write; lanes and people interleave | one claim; a lane reports what is on record |
| Commands, daemon and MCP server (`main.rs`, `cmd/daemon.rs`, `cmd/mcp_serve.rs`, `cmd/mcp_tools.rs`) | `daemon.json`, server processes | start, stop, route, post, tools | the registry, the port and the store are looked at one after another | what a command reports is so; a bound token stays in its source |
| Pending log (`cmd/pending/mod.rs`, `src/plugins/hermes`) | a file of captured facts | append, review, commit, clear | two programs rewrite one file without a lock | an entry is in the log, a fact, or discarded |

## The modules

| Module | What it is |
|---|---|
| `HandoffRecord`, `Handoff` | The handoff record's methods as guards and results; the abstract product, in which each accepted request is one indivisible step on one document. What the API promises. |
| `Ledger`, `LedgerTx` | The abstract command ledger, one step a commit; and the SQL transaction of both stores, an action per statement that matters, on connections that may be lost between any two. `LedgerTx` implements `Ledger`. |
| `HandoffService` | The route handlers over the ledger, an action per store call, on one slot (SQLite) or several (PostgreSQL), with retries, saturation, failing calls and crashes. It commits through an `INSTANCE` of `Ledger` and implements `Handoff`. |
| `Executor` | Permits, pool, blocking tasks, timeouts, disconnects, broken connections: what the slots of `HandoffService` rest on. |
| `Replica`, `ReplicaRestore` | `Ledger` with the actor-scoped snapshot and feed and the client's pull, an action per request or local transaction; then with dumps and their restore. |
| `Mailbox` | The handoff index, its backfill from a version 2 ledger, and clients that follow `next_before_seq` from page to page. |
| `Artifacts` | Catalog transactions, uploads, publications, downloads and the collector over a body store that is no part of the transactions. Time is what is left of each deadline, so it passes without bound. |
| `MemoryStore` | The tables of one embedded store as a value, each operation a transaction on it. No variables: the canonical store, a cold tier, a branch and a cache are all such values. |
| `MemorySync`, `MemoryBackup` | A canonical store with its writers, archiver and branches, and a cache that pulls it page by page; then with backups of both tiers and their restore. |
| `Assignments`, `LocalHandoff` | What the local handoff ledger promises; and the reads, decisions and writes of lanes and people that implement it. |
| `Recall` | The threads of one process on store, index, embeddings and archive: every step between two lock acquisitions is an action. |
| `SendOutbox` | One intent's directory. A step is a section under the lock or a request, and a process may die inside it and leave any prefix of its file operations. |
| `Pending` | The log of captures, with torn lines, renamed and truncated files and passes that die. A file is the set of its whole lines and whether it ends inside one. |
| `MemoryCommands` | Memory commands, the daemon registry, servers and their tools, with a call of the store as one step. |
| `HandoffProofs`, `LedgerProofs`, `ClientProofs`, `LocalHandoffProofs`, `ExecutorProofs`, `ArtifactsProofs`, `RecallProofs`, `MemoryProofs` | The theorems about the module each is named for (`HandoffProofs` also has those about `HandoffService`, `LedgerProofs` those about `LedgerTx`, `Replica` and `ReplicaRestore`, `ClientProofs` those about `Mailbox`, `SendOutbox`, `Pending` and `MemoryCommands`, `MemoryProofs` those about `MemoryStore`, `MemorySync` and `MemoryBackup`), and the lemmas they rest on. |
| `MC...` | Values for the constants of the runs. `MCClient` puts four small systems that share no state side by side, one of them in each behaviour; `MCServiceStorage` does the same with `LedgerTx` and `Executor`. |

How the code became actions:

* A read and the write that rests on it are separate actions wherever another
  actor may act between them: a store call, a lock taken again, an HTTP
  request, a file operation. What happens under one lock or in one transaction
  is one action.
* `HandoffService`: a handler reads the clock before it waits for a permit, so
  `Submit` stores it and later decisions use it; `Handoff` therefore lets a
  request be decided with any reading up to the present. Authentication,
  membership and replay are `Start`: members are constants here. The reads
  joined to a later one are of sessions and facts, which never change once
  present. `Crash` forgets every call; the ledger stays.
* SQLite takes its write lock with `BEGIN IMMEDIATE`, PostgreSQL with
  `SELECT ... FOR UPDATE` of the project row; `LockProject` is both.
* `MemorySync` numbers ULIDs and keeps stamps coarse, so that two writes may
  fall into one millisecond. A page is read record by record in the code; a
  record that is written after its page listed it is in `late`.
* A merge of `MemorySync` lists the entities and reads them one by one, imports
  segment after segment, lists and reads again (`MergeCapture`, which also
  fixes the stamp), and then upserts record after record, each a transaction of
  its own (`MergeUpsert`): the lock it holds meanwhile is its own process's, so
  other processes may write between any two of these. What was updated or
  deleted since the capture is written back as it was read; the later stamp
  wins.
* `Recall` reduces a text to what it holds and its embedding to the text: what
  matters is whose text it is, and of which moment. A semantic search answers
  its whole slate, since the code has no threshold, with what is near in
  meaning first. Its slate are the lexical hits or, without any, every fact
  that may be shown: so a search may answer facts that do not hold the term,
  and `SearchesAreTrue` says when it may. This is the search with its default
  prefilter and without graph expansion; `limit`, which cuts the least ranked
  off, is left out. Of equally new facts a geometric consolidation keeps the one
  listed last, and `fact_list` orders by id: `NewestOf` takes the greatest id.
* `MemoryCommands` has the routing of `registered_endpoint`, the tools' checks
  and writes, and what the two sides make of a failure. Entities, the
  environment's default source, previews and reply formats are left out.

Data that decides nothing is left out: topics, fact text, audit rows, wording,
JSON. Operators marked `Fault:` are used by no specification: each is a
plausible wrong version of the definition after it, and put in its place it
breaks a property of a run.

## The runs

| Run | Instance | What it shows |
|---|---|---|
| `service_storage` | 2 connections, commands that share ids, actors, fingerprints and a resource; or 3 calls on 2 pooled connections | SQL transactions implement the ledger, without a storage conflict, a refused commit or a lock that stays. Every permit can be held while another call waits, and a detached task overlaps its caller's retry. |
| `service` | 2 calls; one slot with a clock, one slot with two authors' evidence, two slots with the whole route | Handlers implement the indivisible requests; claims are exclusive, completions evidenced, refusals true, calls answered. |
| `replica` | 2 processes, 1 profile, 2 commands, batches of 1, 2 epochs | Races into one file, batches of hidden entries, recreation, reset, a restored dump. Every pull ends. |
| `artifacts` | 1 path, 2 requests, 2 bodies, 2 generations, both body stores, 1 failure, 1 crash | A second generation replaces the first while uploads, downloads and a collector pass are under way. |
| `memory_sync` | 2 entities, 2 facts, 2 names, 2 contents; eight scenarios of 1 to 6 writes | Facts, entities, relations, archive, branches, a merge beside entity writes, backup and restore, each with the writes that may interfere, torn pages and pulls that stop. |
| `local_handoff` | 2 lanes, 1 person, 2 facts, 4 changes | A failed attempt, its retry by the other lane and a result, with stale clocks and failing calls, implement `Assignments`. |
| `recall` | 2 threads, 3 facts, 3 calls; six scenes | Lexical, semantic and archive search, consolidations and automatic supersession, against writers, imports, renames and another process. |
| `client` | five scenes: 3 handoffs read in pages of 1; 2 processes and 3 operations of an intent; 2 captures, 2 reviews and a slash command, two of these open at a time; 2 calls, 1 manager and 1 server; 1 call, 2 managers and 2 servers | Pages miss and repeat nothing; the outbox accounts for what the server has; reviews lose nothing they could see; reports of commands are true; bound tokens stay in their source. |

Two actors of each kind are enough for the cases the code distinguishes: no
rule compares more than two claims, connections, pulls, reviews or writers at a
time, and where a third matters (a waiting caller behind a full pool, an old
claim behind two attempts, a third fact that a consolidation retires) there is
one. The bounds are named constants: clocks (`MaxClock`), attempts
(`MaxAttempts`, `u64::MAX` in the code, where it is the overflow check),
sequences (`MaxSeq`, `i64::MAX`), generations, revisions, epochs, operations,
servers, faults and crashes. Deadlock is checked where the system has no end
(`replica`, `artifacts`, `local_handoff`); the others stop when
their bounded commands, writes or calls are used up.

Where the code lets something happen that a property would otherwise exclude,
the property names it and excludes only that, so that everything else is still
checked; the excuses are variables that record exactly when the exception
arose, and each is explained below: `rewound` (a restored history), `repeated`
(a PUT repeated after its generation was collected), `late` and `skipped` (sync
below a watermark), `stray`, `unindexed` and `unembedded` (writes the caches
are not told of), `excused` (captures during a review), `Heard` and
`Contended` (commands).

### Findings

Four runs end in a counterexample to what the repository says.

* `service_duplicate_create`: on PostgreSQL two commands that create one
  handoff can both pass `ensure_absent` (`product.rs:690`), because a create
  states no revision; the later one replaces a record that a worker has already
  claimed. With one slot (SQLite) it cannot happen.
* `merge_hidden`: a merge fixes the stamp of what it brought in when it reads
  the store (`aidememo-core/src/branch.rs:311-344`) and upserts the records
  afterwards, one transaction each (`:346`). Another process can write under a
  later stamp in between; once a cache has pulled that, the rest of the merge
  stays below its cursor, against the comment on
  `make_merged_records_sync_visible`. The run has one scenario, two facts, one
  of them from a branch, and clocks up to 2: the other one's feedback takes the
  later stamp.
* `decision_lost`: adding decision A, then B, then A again supersedes A by B
  and B by A (`aidememo-core/src/lib.rs:850`): the entity has no current
  decision. The comment there says such additions are skipped.
* `pending_lost`: an entry captured while a review is open is lost when the
  review writes the log back (`cmd/pending/mod.rs:646`), which the module
  header says stays.

### Observations without a run

Met while modelling, by reading; most are what the excuses above stand for.

Server.
* The claim that returned a failure may return again (`handoff.rs:547`),
  though `SERVER_SSOT.md:160` reserves the handoff for a new claim.
* A retry that overlaps its first copy on a second slot can be refused
  (`product.rs:246`) although the command commits; `RefusedHadNoEffect` is
  therefore stated for one slot.
* A heartbeat or return may be accepted up to one acquire timeout after the
  lease ran out, if nobody claimed the handoff meanwhile.
* `apply_materialized_batch` (`aidememo-client/src/lib.rs:575`) does not compare
  the actor: a batch fetched for one profile can reach a file that was reset
  under another. The run has one profile.
* A restore keeps the epoch of the dump (`store-postgres/src/backup.rs:190`), so
  a replica that was ahead is not told, and the server's semantic projection,
  keyed by epoch and sequence, may answer from the lost history.
* The metadata-only feed (`aidememo-service/src/lib.rs:211`) decides the
  visibility of an old entry on the resource as it is now.
* A presigned PUT repeated after its generation was replaced and collected
  leaves a body nobody names: the replaced generation is queued for deletion at
  once, while its signature may still run (`aidememo-artifacts/src/lib.rs:600`,
  against `SERVER_SSOT.md:325`).

Client.
* Outbox: a torn `operation.json` or `replay.json` wedges its intent; a holder
  that stalls for thirty seconds loses the lock and its `Drop` then removes
  another's; a conflict reported to a concurrent copy is recorded and never
  published again.
* A registered port taken over by another store's server receives the
  command: `probe_health` does not ask which store answers (`daemon.rs:134`).
  `daemon start --port` on such a port registers the wrong server; a start for
  another store removes a healthy registration; two concurrent starts leave an
  orphan; a daemon whose environment sets a token is never registered, since
  `/health` answers 401; `stop` signals the recorded process id, whoever has it.
* `daemon_tool_call` (`main.rs:3379`) looks for a JSON-RPC error, while tool
  failures are results marked `isError`: a routed `fact supersede` reports
  success although nothing happened, and `edit` prints the error and exits
  with 0. It has no timeout either.
* A routed `fact add` drops `--source`, `--confidence` and `--observed-at`.
* `fact_add_many` creates entities before a later item is refused. `fact edit`
  reads, changes and writes: of two concurrent edits one is lost.
  `aidememo_fact_add` reports a failure if the fact it added was deleted before
  it reads it back.
* The plugin truncates the pending log before it writes it, so a crash loses
  what was left; a torn line swallows the next one.

Embedded store.
* A record whose name or content the cache holds under another id is skipped
  without an error, or wedges the pull (`NameTaken`); a record updated within
  the millisecond of a watermark, stamped before its write lock was taken, or
  listed by a page and read after an update is never sent (`late`); deletions
  do not propagate; a merge that fails at a later segment never gives earlier
  records the stamps downstream caches need. A merge writes a record that was
  deleted after its capture back to the store, and an update of another process
  made after the capture under an earlier stamp is lost to it.
* Archiving content that was archived before and added again always fails; the
  deletion of the archived fact may drop a concurrent update.
* Deleting an entity leaves the cold tier's links to it, and every later backup
  with a cold tier fails. A fact left in both tiers by a crash and then updated
  loses the update in a backup. A crash in a forced restore, followed by
  another, may overwrite the preserved files with a mixed pair.
* A store error while a search reads its facts (`index.rs:47`, `search.rs:62`)
  is swallowed, and the facts are not found; the steps of `Recall` do not fail
  there.
* Search: `vector_index_rebuild` keeps vectors by id although the content
  changed; imports, renames and merges never drop embeddings, though
  `lib.rs:95` lists when they are; another process's writes do not mark the
  index; `hybrid_search` expects a vector index that a concurrent rebuild of an
  empty store may have removed.
* Two concurrent additions of decisions may supersede each other, and an
  automatic resolution that fails halfway leaves two current. Two
  consolidations of spread clusters may supersede each other's medoids: in the
  scene with spread clusters one runs at a time. `fact_supersede` reads the old
  fact outside its write, and does not ask whether the new one is current:
  cycles can be made by hand (`HistoriesEnd` leaves scenes with such calls out).
* Local handoff: returns, heartbeats and completions do not compare the claim;
  two manual accepts both succeed; an accept may take effect and report an
  error, after which nobody has its claim token.

## Fairness

All of it is weak.

* `FairSvcSpec`: a queued call gets a slot or times out, and a call on a slot
  makes its next store call, which ends by the statement timeout. Nothing is
  assumed of clients, of the clock or of crashes.
* `PoolFairness`: permits are handed out or time out; a blocking task
  is running code, bounded by `statement_timeout` and `lock_timeout`, which
  `validate_postgres_policy` makes nonzero. None for operation timeouts.
* `TxFairness`: a transaction that holds the row runs on or is ended; one that
  waits for it gets it or runs into `lock_timeout`.
* `FairResSpec`: a pull that is running goes on. It ends because the feed is
  finite; `MAX_PULL_BATCHES` is not needed for it.
* `FairSpec` of `Artifacts`: the operator restarts the server, time passes, and
  the periodic collector claims and deletes.
* `FairBackSpec`: there is always another pull (`[]<>~Idle`), an import that was
  begun ends or dies (`[]<>~Importing`), and a pull that applied its page saves
  the cursor. The first two are stated by the state they lead to because the
  import is many actions. The merge, backup and restore scenarios have no
  puller, so these hold of no behaviour there; `PullsSettle` speaks of the other
  five.
* `LocalHandoff`, `Recall`, the outbox, the reviews and the commands promise
  nothing that must happen: whoever stops, stops.

## What is proved

TLAPS checks each theorem for all values of the constants, from the assumptions
the modules name (`Nil` is none of the values, limits are positive, kinds are
disjoint, sets that are counted or listed in order are finite; the store that a
memory scenario starts from has tables that agree, and no relation from the
future).

`HandoffProofs`. `IInv` is the types with what one record says of itself
(pending records have no claim, completed ones a success and a result), the
bound of a lease by its heartbeat, the evidence of every result, and the route
of attached contexts. The properties are not inductive by themselves: that a
completion has evidence needs that facts never change, that a lease is bounded
needs to know which records have one. `ClaimsAreExclusive` rests on this: a
lease that runs by the clock also runs by any older reading of it.

Its last part is about `HandoffService`. `SvcInv` is `IInv` of `Handoff` with what each held call
knows (`Sound`): a call that creates found its resource absent, and it still is
unless a copy of the same command was quicker; a call that moves a handoff
knows the record at the revision it states, or that revision has passed. A
commit of another call cannot make either untrue, since facts, sessions and
packets never change and every commit moves the revision. So when the
transaction lets a command through, `Handoff` allows its request in that very
step, and every step of the handlers is one request or a stutter
(`ServiceImplementsHandoff`); the properties of `Handoff` follow for what the
server does. The hypothesis `CreatesApart` excludes just the deployments of the
finding `service_duplicate_create`, on which the theorem is false: with more
than one slot, two commands that may create one resource. On one slot
(`OneAtATime`) what the replay check found out stays so, hence
`RefusalsAreTrue`, which needs no hypothesis.

`LedgerProofs`. Receipts, feed, heads and sequence are one history, and the
feed only grows. For the transactions: only the holder of the row is past its
lock, and what it has read (sequence, absence of a receipt, revision) is still
so; hence no storage conflict, and each step is a commit of `Ledger` or a
stutter (`TransactionsRefineLedger`), whence the tables agree there too. While a
transaction runs its connection shows no ending (`BusyIsOpen`), so a refusal is
new when it shows and was decided with no receipt to replay
(`RetriesAreAnswered`).

The second part of `LedgerProofs` is about replicas. Revisions grow along a resource's entries and its head is the
last of them (`History`). From this, applying the newest revisions of a range of
the feed to the view at its start gives the view at its end (`ApplyIsView`), and
a snapshot is the view at the head. `RInv` adds that the file is a view at its
cursor and that each answer in flight is true of the history it was given of,
if that is the present one (`PullSound`); a history that grows keeps both, a new
epoch makes them vacuous, and a restore that undoes nothing keeps the entries
they depend on. `FileIsProjection` has the hypothesis `OneProfile`, that the
processes pull for one actor: with two it is false, since
`apply_materialized_batch` compares no actors (see above). `PullsCover` holds
for any profiles. There is no hypothesis on how many pull, on the batch size or
on the epochs.

`ClientProofs`. For `Mailbox`, `IndexAgrees` is inductive with the types. What a listing
promises when it is done is strengthened to what it promises at its cursor: all
that was passed and not changed since the start was received, all that was
received stands at the cursor or before it and can only have moved forward.

For `SendOutbox`, each process is `Informed` of an operation that was
reserved; while that operation is in the directory, what the process means to
send is what the operation holds (`PlanSound`); once bound, it is what was
reserved, and the operation is in the directory or acknowledged
(`BindingSound`). A directory that can be read holds the last operation
reserved, and an archived one was followed by other evidence. All sections are
proved with the prefixes that a dying process leaves.

For `Pending`, that an entry is in the log, about to be written to it, a fact or
discarded says nothing of the copies that will replace the log. `ReviewInv` says
the same of each: of what a pass has read, until it writes (`PassSound`); and of
the temporary file, as long as some review may rename it, together with what
those who have it open will write (`TmpSound`; the file a dead review left may
lack anything, and is emptied before anyone renames it). A rename turns the
second into the claim about the log. Reviews and slash commands are any number.

For `MemoryCommands`, what is reported says nothing of the way there.
`CommandsInv` says at each place of a call what it has written (nothing up to
the writing step, and by its outcome afterwards: `OutcomeSound`), that a server
that took a call is the one on its port and within the bound of its token
(`HostSound`), that whoever is registered is a process of that port and store
(`RegistrySound`), that a fact in hand was found in the caller's source and
facts never change source (`CheckSound`), and that what a call added is exactly
its items, under ids nobody else has (`AddedSound`, from `SeedsAssumption`). So
reports are true (`ReportsTell`) and bound calls confined
(`BoundCallsAreConfined`), for every table of requests and whatever managers and
servers do. The two exceptions to the reports are in the property itself:
`Contended` ports, and the commands that do not hear of a failure (`Heard`).

`LocalHandoffProofs`. `IInv` says that what a call read under a stamp is the
record as long as that stamp is on record (`CallsFresh`, which needs that
stamps never repeat), whose call a lane's is (`LanesCall`), that a record is one
the transitions can make (`RecordsSound`), that an active lane's claim is on
record (`ClaimsHeld`) and that a completed lane's result is (`ReportsHold`). A
write that is let through was thus decided on the record it replaces, so the
separate calls implement `Assignments` (`LocalImplements`), lanes exclude one
another and their reports are true.

`ExecutorProofs`. `IInv` is the types, the two sums (permits and holders,
pooled and leased connections, each equal to the pool size) and that a
connection is in the pool or leased to one task. A holder who has no connection
yet makes the holders more than the leases; hence, of equal sums, the pool is
not empty when it takes one. Infinitely many executions are allowed.

`ArtifactsProofs`. That readers find the body is kept only together with: what
the catalog names was issued once and under one path (`Named`), bodies are in
the store the catalog is bound to (`Bound`, `Bodies`), a generation that a
collector pass has in hand is named, read and uploaded by nobody any more
(`Collected`), and each grant is covered by a deadline that keeps the collector
away: a download by its retention, a first upload by its reservation or by the
time its garbage falls due (`Deadlines`). The last is where the lengths of the
grants, grace and leases cancel out, so the theorems hold for all of them.
`PublicationIsIdempotent` follows from `Named`: a token that was answered has
the published reference in its receipt or in the path's row.

`RecallProofs`. A call that changed a text and has not yet marked the index or
dropped the embedding has the fact in hand; of every other fact, a clean index
and a cached embedding are its text, unless another process, an import, a rename
or a merge wrote it (`IndexSound`, `FrozenIndexSound`, `EmbedsSound`). A search
keeps, stage by stage, what it has found of the facts that nobody has in hand
(`Steady`): the text's hits after the ranking, the shown ones after the reading,
the slate and those near in meaning after the scores, both tiers' in the answer. A write takes
the facts it names out of every search's steady ones, so it need not keep them;
the steps that build, mark and drop need the three facts about the caches, which
is why neither theorem is inductive alone. `CachesFollow` and `SearchesAreTrue`
follow for any number of threads, facts, contents, links and calls, whatever
pairs and clusters a consolidation makes.

`MemoryProofs`. Every step of `MemorySync` keeps `MemoryFine`, in three parts.
`CanonFine`: the tables of the store and its archive agree, nothing is there
under an id that was not issued (else an insert could meet a row), an
`entity_add` holds an id that no store has, and a fact that is being moved is in
the cold tier already (without which dropping it would lose it). `BranchFine`:
all entities and relations of a branch are behind the cursor of its baseline, so
a push exports facts only. A merge may still write an
entity that was renamed or deleted since it read it; `HeldFine`, part of
`CanonFine`, says that its id was issued and that no `entity_add` holds it.
`PullFine`: a listed
entity is as it is or has an older stamp; of two versions of a record the one
with the later stamp is the store's (`VersionsFine`); what the next cursor of a
pull is past is on its page or was covered (`PullCovered`), and the same for the
relations that a scan has passed, where one with a later stamp may stand for an
earlier (`ScansCovered`). `CacheCovers` is only the last of these at the saved
cursor, and not inductive: a page must already be known to have what its cursor
will be past, when the import ends and the store has moved on.

The steps are of two kinds. Those that write share `WriteStep`, and that
it keeps the invariant is proved once (`WritesKeep`); those of a pull leave the
store alone. Under them are lemmas on the operators: a finite set is listed once
and in order (`SortedLists`), so LIMIT n takes all up to the last taken
(`FirstOfSorted`); what a page sends and what its cursor is past (`ExportSends`),
that two unlimited exports drain a store (`DrainedCursorDrains`), what each
transaction does to the tables (`PutEntityAgrees` and others), and what an import
leaves, whichever of its records fails (`ImportKeeps`). An import is a recursive
function; that it has a value of the right type needs an induction, which
`LeastFailure` replaces by the least counterexample.

With backups, `BackupFine` says of one under way that what was due and is kept
is in the copy of the hot tier or in the cold tier, present or copied. This
rests on the order of the copies and on the cold tier losing no fact; a backup
that is made has the rest (`ReconciledFine`). `RestoreFine` says at each step of
a restore which files are untouched, preserved, removed and installed. The five
invariants of the run `memory_sync` are theorems of `BackSpec`, for any number
of ids, contents, page limits, faults and writes.

Only model-checked: `PullsSettle`; of `Recall`, `HistoriesEnd` (which pairs a
pass supersedes is a nested fold over a sorted list, and that a chain of
successors has no cycle is an induction over its length: the provers have no
induction over data); that unpublished bodies are deleted in the end and all
other liveness, since temporal proofs under fairness and `ENABLED` are out of
the prover's reach.

## What is not modelled, and why

* Identity, provisioning and token revocation: memberships are constants. A
  revocation between two store calls of a request would be one more action of
  `HandoffService`; the service reads the membership once per store call.
* The redb backend's own transactions: `MemoryStore` is the SQLite tables;
  `Recall` has what both backends do.
* Sessions, workflow and profile tools of the MCP server, the commands that
  only read, and the project server's MCP gateway: composition and formatting
  of what the modelled operations answer.
* S3 branches and backups, tenant export, manifests and checksums.
* Ranking, the vector index and its sidecar, graph expansion, reranking,
  extraction, analytics: numeric and textual, without a protocol.
* Argument parsing, configuration, installation, language bindings, benches,
  plugins beyond the pending log, the website, HTTP and JSON.

These are most of the repository's lines: argument structures, SQL text, JSON
and formatting around the protocols that are modelled, and tests.
