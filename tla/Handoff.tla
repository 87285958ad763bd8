------------------------------ MODULE Handoff ------------------------------
(***************************************************************************)
(* What the typed product routes promise (aidememo-server/src/product.rs   *)
(* over aidememo-domain/src/handoff.rs): sessions, facts, context packets  *)
(* and handoffs are documents, and each accepted request is one indivisible*)
(* step that reads the documents it depends on and writes exactly one.     *)
(* HandoffService shows that the handlers, which read and write in         *)
(* separate store calls, implement this.                                   *)
(*                                                                         *)
(* A handler reads the system clock once, before it queues for the store,  *)
(* so a step decides with a time "now" at or before the current clock.     *)
(***************************************************************************)
EXTENDS HandoffRecord

CONSTANTS
  Writers,    \* members whose role can_mutate()
  MaxClock    \* bound on the clock

ASSUME WritersAssumption == Writers \subseteq Actors

ASSUME ClockAssumption == MaxClock \in Nat

VARIABLES
  docs,       \* present canonical documents, by resource
  clock       \* SystemTime::now()

vars == <<docs, clock>>

Resources == Sessions \cup Handoffs \cup Contexts \cup Facts

(* A resource is addressed by kind and id, so no two kinds share one.      *)
ASSUME KindsAssumption ==
  /\ Sessions \cap (Handoffs \cup Contexts \cup Facts) = {}
  /\ Handoffs \cap (Contexts \cup Facts) = {}
  /\ Contexts \cap Facts = {}

SessionDoc == [actor : Actors]

Documents == SessionDoc \cup FactDoc \cup ContextDoc \cup HandoffDoc

ASSUME NilIsNoDocument == Nil \notin Documents

(* The seven mutating requests.  "target" is the resource the request      *)
(* writes.                                                                 *)
Requests ==
       [op : {"session.create"}, actor : Actors, target : Sessions]
  \cup [op : {"fact.create"}, actor : Actors, target : Facts,
        session : Sessions]
  \cup [op : {"handoff_context.create"}, actor : Actors, target : Contexts,
        handoff : Handoffs, session : Sessions, to : Actors]
  \cup [op : {"handoff.send"}, actor : Actors, target : Handoffs,
        session : Sessions, to : Actors, context : Maybe(Contexts)]
  \cup [op : {"handoff.accept", "handoff.heartbeat"}, actor : Actors,
        target : Handoffs, claim : Claims]
  \cup [op : {"handoff.return"}, actor : Actors, target : Handoffs,
        claim : Claims, fact : Facts, outcome : Outcomes]

Transitions == {"handoff.accept", "handoff.heartbeat", "handoff.return"}

Present(r) == docs[r] # Nil

(* load_record and require_writable_receiver, then the domain guard of the *)
(* create.                                                                 *)
FactPermits(q) == Present(q.session)

ContextPermits(q) ==
  /\ Present(q.session)
  /\ q.to \in Writers
  /\ SendAllowed(q.actor, q.to)

SendPermits(q) ==
  /\ Present(q.session)
  /\ q.to \in Writers
  /\ SendAllowed(q.actor, q.to)
  /\ q.context # Nil =>
       /\ Present(q.context)
       /\ ContextFits(docs[q.context], q.target, q.session, q.actor, q.to)

CreatePermits(q) ==
  \/ q.op = "session.create"
  \/ q.op = "fact.create" /\ FactPermits(q)
  \/ q.op = "handoff_context.create" /\ ContextPermits(q)
  \/ q.op = "handoff.send" /\ SendPermits(q)

TransitionAllowed(q, h, now) ==
  \/ /\ q.op = "handoff.accept"
     /\ AcceptAllowed(h, q.actor, q.claim, now)
  \/ /\ q.op = "handoff.heartbeat"
     /\ HeartbeatAllowed(h, q.actor, q.claim, now)
  \/ /\ q.op = "handoff.return"
     /\ Present(q.fact)
     /\ ReturnAllowed(h, q.actor, q.claim, q.fact, docs[q.fact],
                      q.outcome, now)

TransitionPermits(q, now) ==
  Present(q.target) /\ TransitionAllowed(q, docs[q.target], now)

(* ensure_absent stands before every create.                               *)
Permits(q, now) ==
  \/ q.op \notin Transitions /\ ~Present(q.target) /\ CreatePermits(q)
  \/ q.op \in Transitions /\ TransitionPermits(q, now)

(* The record a transition leaves behind, from the record h it loaded.     *)
Transitioned(q, h, now) ==
  CASE q.op = "handoff.accept" -> Accepted(h, q.claim, now)
    [] q.op = "handoff.heartbeat" -> Renewed(h, now)
    [] q.op = "handoff.return" -> Returned(h, q.fact, q.outcome)

(* The document the handler passes to execute_with_body.                   *)
Written(q, now) ==
  CASE q.op = "session.create" -> [actor |-> q.actor]
    [] q.op = "fact.create" -> [session |-> q.session, actor |-> q.actor]
    [] q.op = "handoff_context.create" ->
         [handoff |-> q.handoff, session |-> q.session,
          from |-> q.actor, to |-> q.to]
    [] q.op = "handoff.send" ->
         NewHandoff(q.session, q.actor, q.to, q.context)
    [] q.op \in Transitions -> Transitioned(q, docs[q.target], now)

-----------------------------------------------------------------------------

Init ==
  /\ docs = [r \in Resources |-> Nil]
  /\ clock = 0

(* One accepted request of a member with a writable role.                  *)
Perform(q, now) ==
  /\ q.actor \in Writers
  /\ Permits(q, now)
  /\ docs' = [docs EXCEPT ![q.target] = Written(q, now)]
  /\ UNCHANGED clock

Tick ==
  /\ clock < MaxClock
  /\ clock' = clock + 1
  /\ UNCHANGED docs

Next ==
  \/ Tick
  \/ \E q \in Requests : \E now \in 0..clock : Perform(q, now)

Spec == Init /\ [][Next]_vars

-----------------------------------------------------------------------------
(* Every resource holds a document of its own kind or none.                *)
TypeOK ==
  /\ clock \in Nat
  /\ DOMAIN docs = Resources
  /\ \A s \in Sessions : docs[s] \in Maybe(SessionDoc)
  /\ \A f \in Facts    : docs[f] \in Maybe(FactDoc)
  /\ \A x \in Contexts : docs[x] \in Maybe(ContextDoc)
  /\ \A h \in Handoffs : docs[h] \in Maybe(HandoffDoc)

(* A completed handoff is backed by evidence: the result fact exists, was  *)
(* written by the receiving actor and belongs to the handoff's session     *)
(* (return_handoff, validate_result_fact).                                 *)
CompletedHasEvidence ==
  \A h \in Handoffs : Present(h) /\ docs[h].status = "completed" =>
    /\ docs[h].outcome = "succeeded"
    /\ docs[h].result \in Facts
    /\ docs[docs[h].result] =
         [session |-> docs[h].session, actor |-> docs[h].to]

(* The lease of a running claim is exactly one lease after its last        *)
(* heartbeat, which lies in the past: a worker that stops heartbeating     *)
(* blocks the handoff for at most one lease.                               *)
LeaseFollowsHeartbeat ==
  \A h \in Handoffs :
    Present(h) /\ docs[h].status = "accepted" /\ docs[h].outcome # "failed" =>
      /\ docs[h].beat \in 0..clock
      /\ docs[h].expires = docs[h].beat + Lease
      /\ docs[h].claim # Nil
      /\ docs[h].attempts >= 1

(* A context packet attached to a handoff was routed with it: same         *)
(* session, sender and receiver (attach_context).                          *)
ContextRoutedWithHandoff ==
  \A h \in Handoffs : Present(h) /\ docs[h].context # Nil =>
    docs[docs[h].context] =
      [handoff |-> h, session |-> docs[h].session,
       from |-> docs[h].from, to |-> docs[h].to]

(* While a claim's lease runs by the wall clock, no step takes the handoff *)
(* from its holder, even one decided with an older clock reading: "a live  *)
(* claim remains exclusive".                                               *)
LiveClaimExclusive ==
  [][\A h \in Handoffs : Present(h) /\ LiveAt(docs[h], clock) =>
       /\ docs'[h] # Nil
       /\ docs'[h].claim = docs[h].claim
       /\ docs'[h].attempts = docs[h].attempts]_vars

(* Completion is final: the record, its evidence and its winner never      *)
(* change again.                                                           *)
CompletedIsFinal ==
  [][\A h \in Handoffs : Present(h) /\ docs[h].status = "completed" =>
       docs'[h] = docs[h]]_vars

(* Every change of the claim is a new attempt and the attempt counter      *)
(* never moves otherwise, so the counter fences off earlier workers.       *)
AttemptsFenceClaims ==
  [][\A h \in Handoffs : Present(h) =>
       /\ docs'[h] # Nil
       /\ \/ /\ docs'[h].attempts = docs[h].attempts
             /\ docs'[h].claim = docs[h].claim
          \/ /\ docs'[h].attempts = docs[h].attempts + 1
             /\ docs'[h].claim # docs[h].claim]_vars
=============================================================================
