----------------------------- MODULE SendOutbox -----------------------------
(***************************************************************************)
(* The sender's outbox of remote handoffs: one directory for each intent   *)
(* (profile, receiver, session), with the files operation.json,            *)
(* replay.json, status.json and committed.  A send reserves an operation   *)
(* there, whose handoff id the server will see, and publishes it; a        *)
(* publish of the outbox does the same for what earlier sends left.        *)
(*                                                                         *)
(* Here is one intent.  Every step is one section under the intent's lock  *)
(* or one request, and a process may die inside it: what it leaves is a    *)
(* prefix of the section's file operations, with the last file created but *)
(* not yet written.  The lock of a dead process is broken when it is       *)
(* stale; that one of a live process never gets so old is an assumption.   *)
(***************************************************************************)
EXTENDS Naturals, Sequences

CONSTANTS
  Processes,
  Payloads,   \* the packets a sender may want to send on this route
  Identities, \* whom the server may take the profile's token for
  MaxOps,     \* bound: operations reserved
  Absent,
  Torn        \* a file that was created and not written

VARIABLES
  directory,  \* the intent's directory, or Absent
  archive,    \* operations whose directories were renamed to .done
  reserved,   \* the payload of every operation reserved so far
  handoffs,   \* the handoffs the server has, by operation
  processes

outboxVars == <<directory, archive, reserved, handoffs, processes>>

Ids == 1..MaxOps

Broken == {Absent, Torn}

States == {"queued", "failed", "conflict", "committed"}

Operations == [id : Ids, payload : Payloads, actor : Identities \cup {Absent}]

Directories == [operation : Operations \cup Broken,
                replay : Payloads \cup Broken,
                status : States \cup Broken,
                committed : Ids \cup Broken]

HandoffRecords == [payload : Payloads, actor : Identities]

ProcessRecords ==
  [pc : {"idle", "reserving", "storing", "listing", "identifying", "binding",
         "queueing", "submitting", "committing", "failing"},
   payload : Payloads \cup {Absent}, id : Nat,
   actor : Identities \cup {Absent}, failure : {"failed", "conflict", Absent}]

ASSUME MaxOpsAssumption == MaxOps \in Nat

ASSUME AbsentAssumption ==
  /\ Absent \notin Identities \cup Operations \cup Directories
                 \cup HandoffRecords
  /\ Torn \notin Operations

EmptyDirectory == [operation |-> Absent, replay |-> Absent, status |-> Absent,
                   committed |-> Absent]

Resting == [pc |-> "idle", payload |-> Absent, id |-> 0, actor |-> Absent,
            failure |-> Absent]

OutboxInit ==
  /\ directory = Absent
  /\ archive = {}
  /\ reserved = <<>>
  /\ handoffs = [id \in Ids |-> Absent]
  /\ processes = [p \in Processes |-> Resting]

Go(p, pc) == processes' = [processes EXCEPT ![p].pc = pc]

(* An error before there is an operation to record it on, or the end.      *)
End(p) == processes' = [processes EXCEPT ![p] = Resting]

FailWith(p, failure) ==
  processes' = [processes EXCEPT ![p] = [@ EXCEPT !.pc = "failing",
                                                  !.failure = failure]]

(* The file operations of a section take the directory through these       *)
(* states: the process completes them and goes on, or dies after some.     *)
Section(p, states, next) ==
  \/ /\ directory' = states[Len(states)]
     /\ next
  \/ /\ \E i \in 1..(Len(states) - 1) : directory' = states[i]
     /\ End(p)

-----------------------------------------------------------------------------
(* reserve_send *)

Readable == directory # Absent /\ directory.operation \notin Broken

Pending == Readable /\ directory.committed = Absent

StartSend(p, payload) ==
  /\ processes[p].pc = "idle"
  /\ processes' = [processes EXCEPT ![p] =
       [Resting EXCEPT !.pc = "reserving", !.payload = payload]]
  /\ UNCHANGED <<directory, archive, reserved, handoffs>>

(* The same evidence: the operation is used again.                         *)
Reuse(p) ==
  /\ processes[p].pc = "reserving"
  /\ Readable
  /\ directory.operation.payload = processes[p].payload
  /\ processes' = [processes EXCEPT ![p] =
       [@ EXCEPT !.pc = "storing", !.id = directory.operation.id]]
  /\ UNCHANGED <<directory, archive, reserved, handoffs>>

(* Different evidence while one is pending, an unreadable record, or no    *)
(* lock within LOCK_TIMEOUT.                                               *)
Refuse(p) ==
  /\ processes[p].pc = "reserving"
  /\ End(p)
  /\ UNCHANGED <<directory, archive, reserved, handoffs>>

(* Fault: a commit is no reason to keep an operation.                      *)
ReplaceableCommitted(payload) ==
  \/ directory = Absent
  \/ directory # Absent /\ directory.operation = Absent
  \/ /\ Readable
     /\ directory.operation.payload # payload \/ directory.committed # Absent

(* Fault: other evidence replaces an operation that is pending.            *)
ReplaceablePending(payload) ==
  \/ directory = Absent
  \/ directory # Absent /\ directory.operation = Absent
  \/ Readable /\ directory.operation.payload # payload

(* No directory, one without its operation, or a committed one that other  *)
(* evidence follows.                                                       *)
Replaceable(payload) ==
  \/ directory = Absent
  \/ directory # Absent /\ directory.operation = Absent
  \/ /\ Readable
     /\ directory.committed # Absent
     /\ directory.operation.payload # payload

Reserve(p) ==
  LET id == Len(reserved) + 1
      operation == [id |-> id, payload |-> processes[p].payload,
                    actor |-> Absent]
      with(record) == [EmptyDirectory EXCEPT !.operation = record]
  IN  /\ processes[p].pc = "reserving"
      /\ Len(reserved) < MaxOps
      /\ Replaceable(processes[p].payload)
      /\ archive' = IF Readable THEN archive \cup {directory.operation.id}
                    ELSE archive
      /\ Section(p,
           <<Absent, EmptyDirectory, with(Torn), with(operation),
             [with(operation) EXCEPT !.status = Torn],
             [with(operation) EXCEPT !.status = "queued"]>>,
           processes' = [processes EXCEPT ![p] =
             [@ EXCEPT !.pc = "storing", !.id = id]])
      /\ reserved' = Append(reserved, processes[p].payload)
      /\ UNCHANGED handoffs

(* ensure_operation_id *)
Mine(p) == Readable /\ directory.operation.id = processes[p].id

(* store_replay_plan, and the end of a send that was committed before.     *)
StoreReplay(p) ==
  LET plan == processes[p].payload
      next == IF directory.committed # Absent THEN End(p)
              ELSE Go(p, "identifying")
  IN  /\ processes[p].pc = "storing"
      /\ \/ /\ Mine(p)
            /\ directory.replay = Absent
            /\ Section(p, <<[directory EXCEPT !.replay = Torn],
                            [directory EXCEPT !.replay = plan]>>, next)
         \/ /\ Mine(p)
            /\ directory.replay = plan
            /\ next
            /\ UNCHANGED directory
         \/ /\ ~(Mine(p) /\ directory.replay \in {Absent, plan})
            /\ End(p)
            /\ UNCHANGED directory
      /\ UNCHANGED <<archive, reserved, handoffs>>

-----------------------------------------------------------------------------
(* publish_remote_outbox.  pending() takes no lock: the operation and the  *)
(* rest of an entry may come from two directories.                         *)

ListOperation(p) ==
  /\ processes[p].pc = "idle"
  /\ Pending
  /\ directory.replay # Absent
  /\ processes' = [processes EXCEPT ![p] =
       [Resting EXCEPT !.pc = "listing", !.id = directory.operation.id]]
  /\ UNCHANGED <<directory, archive, reserved, handoffs>>

ListPlan(p) ==
  /\ processes[p].pc = "listing"
  /\ \/ /\ directory # Absent
        /\ directory.replay \notin Broken
        /\ directory.status \in {Absent, "queued", "failed"}
        /\ processes' = [processes EXCEPT ![p] =
             [@ EXCEPT !.pc = "identifying", !.payload = directory.replay]]
     \/ /\ ~(/\ directory # Absent
             /\ directory.replay \notin Broken
             /\ directory.status \in {Absent, "queued", "failed"})
        /\ End(p)
  /\ UNCHANGED <<directory, archive, reserved, handoffs>>

-----------------------------------------------------------------------------
(* publish_reserved_send and publish_queued_send *)

(* GET identity *)
Identify(p) ==
  /\ processes[p].pc = "identifying"
  /\ \/ \E actor \in Identities :
          processes' = [processes EXCEPT ![p] =
            [@ EXCEPT !.pc = "binding", !.actor = actor]]
     \/ FailWith(p, "failed")
  /\ UNCHANGED <<directory, archive, reserved, handoffs>>

(* bind_actor *)
Bind(p) ==
  LET actor == processes[p].actor
  IN  /\ processes[p].pc = "binding"
      /\ \/ /\ Mine(p)
            /\ directory.operation.actor \in {Absent, actor}
            /\ directory' = [directory EXCEPT !.operation.actor = actor]
            /\ Go(p, "queueing")
         \/ /\ Mine(p)
            /\ directory.operation.actor \notin {Absent, actor}
            /\ FailWith(p, "conflict")
            /\ UNCHANGED directory
         \/ /\ FailWith(p, "failed")
            /\ UNCHANGED directory
      /\ UNCHANGED <<archive, reserved, handoffs>>

(* write_status: a first write may be torn, a replacement may not.         *)
StatusWrites(state) ==
  LET written == [directory EXCEPT !.status = state]
  IN  IF directory.status = Absent
      THEN <<[directory EXCEPT !.status = Torn], written>>
      ELSE <<written>>

(* mark_queued *)
Queue(p) ==
  /\ processes[p].pc = "queueing"
  /\ \/ Mine(p) /\ Section(p, StatusWrites("queued"), Go(p, "submitting"))
     \/ FailWith(p, "failed") /\ UNCHANGED directory
  /\ UNCHANGED <<archive, reserved, handoffs>>

(* submit_remote_send: ids and command ids are those of the operation.     *)
(* The answer may be lost, and while another copy of the command runs it   *)
(* may be a conflict although the command commits.                         *)
Submit(p) ==
  LET process == processes[p]
      handoff == [payload |-> process.payload, actor |-> process.actor]
      known == handoffs[process.id]
  IN  /\ process.pc = "submitting"
      /\ \/ /\ known \in {Absent, handoff}
            /\ handoffs' = [handoffs EXCEPT ![process.id] = handoff]
            /\ \/ Go(p, "committing")
               \/ FailWith(p, "failed")
               \/ /\ \E q \in Processes \ {p} : processes[q].id = process.id
                  /\ FailWith(p, "conflict")
         \/ /\ known \notin {Absent, handoff}
            /\ FailWith(p, "conflict")
            /\ UNCHANGED handoffs
         \/ /\ FailWith(p, "failed")
            /\ UNCHANGED handoffs
      /\ UNCHANGED <<directory, archive, reserved>>

(* mark_committed *)
Acknowledge(p) ==
  LET id == processes[p].id
      marked == [directory EXCEPT !.committed = id]
  IN  /\ processes[p].pc = "committing"
      /\ \/ /\ Mine(p)
            /\ directory.committed \in {Absent, id}
            /\ Section(p,
                 <<IF directory.committed = Absent
                   THEN [directory EXCEPT !.committed = Torn] ELSE directory,
                   marked, [marked EXCEPT !.status = "committed"]>>,
                 End(p))
         \/ /\ FailWith(p, "failed")
            /\ UNCHANGED directory
      /\ UNCHANGED <<archive, reserved, handoffs>>

(* record_failure *)
RecordFailure(p) ==
  /\ processes[p].pc = "failing"
  /\ \/ Mine(p) /\ Section(p, StatusWrites(processes[p].failure), End(p))
     \/ End(p) /\ UNCHANGED directory
  /\ UNCHANGED <<archive, reserved, handoffs>>

Die(p) ==
  /\ processes[p].pc # "idle"
  /\ End(p)
  /\ UNCHANGED <<directory, archive, reserved, handoffs>>

OutboxNext ==
  \E p \in Processes :
    \/ \E payload \in Payloads : StartSend(p, payload)
    \/ Reuse(p)
    \/ Refuse(p)
    \/ Reserve(p)
    \/ StoreReplay(p)
    \/ ListOperation(p)
    \/ ListPlan(p)
    \/ Identify(p)
    \/ Bind(p)
    \/ Queue(p)
    \/ Submit(p)
    \/ Acknowledge(p)
    \/ RecordFailure(p)
    \/ Die(p)

OutboxSpec == OutboxInit /\ [][OutboxNext]_outboxVars

-----------------------------------------------------------------------------

OutboxTypeOK ==
  /\ directory \in Directories \cup {Absent}
  /\ archive \subseteq Ids
  /\ reserved \in Seq(Payloads)
  /\ Len(reserved) <= MaxOps
  /\ handoffs \in [Ids -> HandoffRecords \cup {Absent}]
  /\ processes \in [Processes -> ProcessRecords]

Sent == {id \in Ids : handoffs[id] # Absent}

Acknowledged ==
  archive \cup (IF Readable /\ directory.committed # Absent
                THEN {directory.operation.id} ELSE {})

(* What is acknowledged was sent, and of what was sent and is not          *)
(* acknowledged the operation is still there, so that a retry finds the    *)
(* same handoff id: "an exact retry reuses the same handoff/context IDs".  *)
OutboxMatchesServer ==
  /\ Acknowledged \subseteq Sent
  /\ \A id \in Sent \ Acknowledged :
       Readable /\ directory.operation.id = id

(* The server has each operation with the evidence it was reserved for,    *)
(* from the actor it is bound to.                                          *)
HandoffsMatchReservations ==
  \A id \in Sent :
    /\ handoffs[id].payload = reserved[id]
    /\ Readable /\ directory.operation.id = id
         => directory.operation.actor = handoffs[id].actor

(* What was sent and not acknowledged can be sent again, and the server    *)
(* has it as it was reserved (remote_handoff/send_operation.rs).           *)
OutboxAccounts == OutboxMatchesServer /\ HandoffsMatchReservations

(* Evidence that the server has gets no second operation until a send of   *)
(* other evidence was begun.                                               *)
RetriesReuseOperations ==
  \A id \in Sent, next \in DOMAIN reserved :
    id < next /\ reserved[id] = reserved[next]
      => \E between \in (id + 1)..(next - 1) : reserved[between] # reserved[id]
=============================================================================
