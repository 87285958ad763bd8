--------------------------- MODULE HandoffService ---------------------------
(***************************************************************************)
(* The typed product routes as the server runs them.  A request reads the  *)
(* clock, queues for a slot of the blocking executor, and on that slot     *)
(* makes several store calls: authentication and replay, the record it     *)
(* changes, the evidence and absence checks, and at last the command       *)
(* transaction, whose compare-and-swap is the only thing that connects     *)
(* what was read with what is written.  A client may send a command again  *)
(* at any time, whatever became of the earlier call, and the process may   *)
(* stop between any two steps.                                             *)
(*                                                                         *)
(* The SQLite executor has one slot, so its calls run one after another;   *)
(* the PostgreSQL executor has one slot for each pooled connection, and    *)
(* the store calls of different slots interleave.                          *)
(*                                                                         *)
(* The documents are the ledger's; Handoff is what the calls implement.    *)
(***************************************************************************)
EXTENDS Handoff, FiniteSets, Sequences

CONSTANTS
  CommandIds,
  Deployments, \* what clients send, with command ids, and how it is served
  Calls        \* HTTP requests the server holds at once

(* slots: executor permits, 1 for SQLite and pool_size for PostgreSQL.     *)
(* until is a bound on the clock.                                          *)
ASSUME DeploymentsAssumption ==
  Deployments \subseteq
    [templates : SUBSET [id : CommandIds, request : Requests],
     slots : Nat \ {0}, until : Nat]

VARIABLES
  deployment,
  next_seq, revision, receipts, changes,   \* with docs: the command ledger
  sent,       \* the revision a client states with each command, once known
  calls       \* the request each held call is serving, and how far it got

ledger == <<next_seq, revision, docs, receipts, changes>>

svcVars == <<deployment, ledger, clock, sent, calls>>

(* command_fingerprint: everything but the command id and the actor.       *)
Fingerprints == [request : Requests, expected : Nat]

Commands ==
  [id : CommandIds, actor : Actors, fingerprint : Fingerprints,
   resource : Resources, expected : Nat, document : Documents]

Ledger == INSTANCE Ledger WITH document <- docs

(* Fault: the stated revision is not passed down to the store.             *)
CommandWithoutRevision(cmd, document) ==
  [id |-> cmd.id, actor |-> cmd.request.actor,
   fingerprint |-> [request |-> cmd.request, expected |-> cmd.expected],
   resource |-> cmd.request.target, expected |-> 0,
   document |-> document]

(* The MutationCommand a call passes down, for the document it prepared.   *)
Command(cmd, document) ==
  [id |-> cmd.id, actor |-> cmd.request.actor,
   fingerprint |-> [request |-> cmd.request, expected |-> cmd.expected],
   resource |-> cmd.request.target, expected |-> cmd.expected,
   document |-> document]

-----------------------------------------------------------------------------

Answers == {"receipt", "conflict", "stale", "refused", "unavailable"}

Refusals == {"conflict", "stale", "refused"}

ASSUME NilIsNeither == Nil \notin Answers /\ Nil \notin Ledger!Receipts

(* A call between its replay check and its last store call holds a slot.   *)
Serving == {"admitted", "loaded", "prepared"}

Running == {k \in Calls : calls[k].pc \in Serving}

Idle(answer) ==
  [pc |-> "idle", cmd |-> Nil, now |-> 0, seen |-> Nil, prepared |-> Nil,
   answer |-> answer]

SvcInit ==
  /\ Init
  /\ Ledger!Init
  /\ deployment \in Deployments
  /\ sent = [t \in deployment.templates |->
               IF t.request.op \in Transitions THEN Nil ELSE 0]
  /\ calls = [k \in Calls |-> Idle(Nil)]

Answer(k, answer) == calls' = [calls EXCEPT ![k] = Idle(answer)]

(* A create states no revision.  A transition states one the client read,  *)
(* or guessed to be the first; it is part of the command, so a retry       *)
(* repeats it.                                                             *)
Statable(t) ==
  IF sent[t] # Nil THEN {sent[t]}
  ELSE {1, revision[t.request.target]} \ {0}

Submit(k, t) ==
  /\ calls[k].pc = "idle"
  /\ \E expected \in Statable(t) :
       /\ sent' = [sent EXCEPT ![t] = expected]
       /\ calls' = [calls EXCEPT ![k] =
            [Idle(Nil) EXCEPT !.pc = "queued", !.now = clock,
               !.cmd = [id |-> t.id, request |-> t.request,
                        expected |-> expected]]]
  /\ UNCHANGED <<deployment, ledger, clock>>

(* Fault: no replay check before mutable state is inspected.               *)
StartWithoutReplay(k) ==
  /\ calls[k].pc = "queued"
  /\ Cardinality(Running) < deployment.slots
  /\ IF calls[k].cmd.request.actor \in Writers
     THEN calls' = [calls EXCEPT ![k].pc = "admitted"]
     ELSE Answer(k, "refused")
  /\ UNCHANGED <<deployment, ledger, clock, sent>>

(* request_context and CommandService::replay, on the slot just taken.     *)
Start(k) ==
  LET c == Command(calls[k].cmd, Nil)
  IN  /\ calls[k].pc = "queued"
      /\ Cardinality(Running) < deployment.slots
      /\ \/ /\ c.actor \notin Writers
            /\ Answer(k, "refused")
         \/ /\ c.actor \in Writers
            /\ \/ /\ ~Ledger!Remembered(c)
                  /\ calls' = [calls EXCEPT ![k].pc = "admitted"]
               \/ /\ Ledger!Replays(c)
                  /\ Answer(k, "receipt")
               \/ /\ Ledger!Remembered(c)
                  /\ ~Ledger!Replays(c)
                  /\ Answer(k, "conflict")
      /\ UNCHANGED <<deployment, ledger, clock, sent>>

(* Fault: a call waits for a permit without a timeout.                     *)
SaturateNever(k) == FALSE /\ Answer(k, "unavailable")

(* No permit within acquire_timeout.                                       *)
Saturate(k) ==
  /\ calls[k].pc = "queued"
  /\ Cardinality(Running) >= deployment.slots
  /\ Answer(k, "unavailable")
  /\ UNCHANGED <<deployment, ledger, clock, sent>>

(* load_record of the handoff a transition changes, then require_revision. *)
LoadTarget(k) ==
  LET cmd == calls[k].cmd
      target == cmd.request.target
  IN  /\ calls[k].pc = "admitted"
      /\ cmd.request.op \in Transitions
      /\ \/ /\ Present(target)
            /\ revision[target] = cmd.expected
            /\ calls' = [calls EXCEPT ![k] =
                 [@ EXCEPT !.pc = "loaded", !.seen = docs[target]]]
         \/ /\ ~Present(target)
            /\ Answer(k, "refused")
         \/ /\ Present(target)
            /\ revision[target] # cmd.expected
            /\ Answer(k, "stale")
      /\ UNCHANGED <<deployment, ledger, clock, sent>>

(* ensure_absent of the resource a create writes.                          *)
CheckAbsent(k) ==
  LET q == calls[k].cmd.request
  IN  /\ calls[k].pc = "admitted"
      /\ q.op \notin Transitions
      /\ \/ /\ ~Present(q.target)
            /\ calls' = [calls EXCEPT ![k].pc = "loaded"]
         \/ /\ Present(q.target)
            /\ Answer(k, "refused")
      /\ UNCHANGED <<deployment, ledger, clock, sent>>

(* The remaining reads and the domain decision: for a transition on the    *)
(* record loaded before, for a create on what is there now, except that    *)
(* its own absence was established before.                                 *)
DecisionOn(call) ==
  LET q == call.cmd.request
  IN  IF q.op \in Transitions
      THEN [allowed |-> TransitionAllowed(q, call.seen, call.now),
            document |-> Transitioned(q, call.seen, call.now)]
      ELSE [allowed |-> CreatePermits(q), document |-> Written(q, call.now)]

Decide(k) ==
  LET q == calls[k].cmd.request
  IN  /\ calls[k].pc = "loaded"
      /\ \/ /\ DecisionOn(calls[k]).allowed
            /\ calls' = [calls EXCEPT ![k] =
                 [@ EXCEPT !.pc = "prepared", !.seen = Nil,
                           !.prepared = DecisionOn(calls[k]).document]]
         \/ /\ ~DecisionOn(calls[k]).allowed
            /\ Answer(k, "refused")
      /\ UNCHANGED <<deployment, ledger, clock, sent>>

(* execute_with_body: the command transaction.  The caller may have timed  *)
(* out by the time it commits.                                             *)
Execute(k) ==
  LET c == Command(calls[k].cmd, calls[k].prepared)
  IN  /\ calls[k].pc = "prepared"
      /\ \/ /\ Ledger!Commit(c)
            /\ \E answer \in {"receipt", "unavailable"} : Answer(k, answer)
         \/ /\ Ledger!Remembered(c)
            /\ Answer(k, IF Ledger!Replays(c) THEN "receipt" ELSE "conflict")
            /\ UNCHANGED ledger
         \/ /\ ~Ledger!Remembered(c)
            /\ ~Ledger!RevisionMatches(c)
            /\ Answer(k, "stale")
            /\ UNCHANGED ledger
      /\ UNCHANGED <<deployment, clock, sent>>

(* A store call fails, and with it the request.                            *)
Fail(k) ==
  /\ calls[k].pc \in Serving
  /\ Answer(k, "unavailable")
  /\ UNCHANGED <<deployment, ledger, clock, sent>>

(* The server process stops: what it held is gone, what it committed stays.*)
Crash ==
  /\ \E k \in Calls : calls[k].pc # "idle"
  /\ calls' = [k \in Calls |-> Idle(Nil)]
  /\ UNCHANGED <<deployment, ledger, clock, sent>>

Advance(k) ==
  LoadTarget(k) \/ CheckAbsent(k) \/ Decide(k) \/ Execute(k) \/ Fail(k)

SvcTick ==
  /\ clock < deployment.until
  /\ Tick
  /\ UNCHANGED <<deployment, next_seq, revision, receipts, changes, sent, calls>>

SvcNext ==
  \/ \E k \in Calls :
       \/ \E t \in deployment.templates : Submit(k, t)
       \/ Start(k)
       \/ Saturate(k)
       \/ LoadTarget(k)
       \/ CheckAbsent(k)
       \/ Decide(k)
       \/ Execute(k)
       \/ Fail(k)
  \/ Crash
  \/ SvcTick

SvcSpec == SvcInit /\ [][SvcNext]_svcVars

(* acquire_timeout ends a wait for a permit, statement_timeout a store     *)
(* call.                                                                   *)
FairSvcSpec ==
  /\ SvcSpec
  /\ \A k \in Calls :
       /\ WF_svcVars(Start(k) \/ Saturate(k))
       /\ WF_svcVars(Advance(k))

-----------------------------------------------------------------------------

(* The calls implement the indivisible requests of Handoff.                *)
ImplementsHandoff == Spec

(* Where calls run one after another a refusal means that the command did  *)
(* not take effect: "return the stored receipt when command_id has already *)
(* committed".  On two slots a copy of it may commit in between.           *)
RefusedHadNoEffect ==
  [][\A k \in Calls :
       /\ deployment.slots = 1
       /\ calls[k].pc # "idle"
       /\ calls'[k].answer \in Refusals
       => ~Ledger!Replays(Command(calls[k].cmd, Nil))]_svcVars

(* Every request is answered, by a receipt, a refusal or an unavailability.*)
EveryCallAnswered == \A k \in Calls : calls[k].pc # "idle" ~> calls[k].pc = "idle"
=============================================================================
