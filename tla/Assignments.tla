----------------------------- MODULE Assignments -----------------------------
(***************************************************************************)
(* What the assignment ledger of the embedded store promises: one record   *)
(* for each handoff, changed by indivisible accepts, heartbeats, returns   *)
(* and completions, each decided on the record it replaces.                *)
(*                                                                         *)
(* A session stands for the pair of session and source scope.  Routing     *)
(* labels, focus, upstream card and times are left out.                    *)
(***************************************************************************)
EXTENDS Naturals

CONSTANTS
  Handoffs,
  Sessions,
  Actors,
  Claims,   \* claim tokens of automatic workers
  Facts,
  Nil

VARIABLES
  records,  \* the assignment of each handoff, or Nil
  facts     \* the session and the writer of each fact, or Nil

ledger == <<records, facts>>

Maybe(T) == T \cup {Nil}

Outcomes == {"succeeded", "failed"}

Assignment ==
  [session : Sessions, to : Actors, status : {"pending", "accepted", "completed"},
   claim : Maybe(Claims), attempts : Nat, result : Maybe(Facts),
   outcome : Maybe(Outcomes), revision : Nat]

Requests ==
  [op : {"accept"}, actor : Actors, claim : Maybe(Claims)]
    \cup [op : {"heartbeat", "complete"}, actor : Actors]
    \cup [op : {"return"}, actor : Actors, fact : Facts, outcome : Outcomes]

Writers == [session : Sessions, actor : Actors]

ASSUME NilAssumption ==
  Nil \notin Claims \cup Facts \cup Outcomes \cup Assignment \cup Writers

LedgerTypeOK ==
  /\ records \in [Handoffs -> Maybe(Assignment)]
  /\ facts \in [Facts -> Maybe(Writers)]

NewAssignment(session, to) ==
  [session |-> session, to |-> to, status |-> "pending", claim |-> Nil,
   attempts |-> 0, result |-> Nil, outcome |-> Nil, revision |-> 0]

-----------------------------------------------------------------------------

(* Fault: an active assignment can be claimed under another token.         *)
ClaimableWhileActive(r, claim) ==
  \/ r.status = "pending"
  \/ r.status = "accepted" /\ claim # Nil

(* A pending assignment, or one whose attempt was returned as failed.      *)
Claimable(r, claim) ==
  \/ r.status = "pending"
  \/ r.status = "accepted" /\ r.outcome = "failed" /\ claim # Nil

(* A retry forgets the failed attempt's result.                            *)
Accepted(r, claim) ==
  [session |-> r.session, to |-> r.to, status |-> "accepted", claim |-> claim,
   attempts |-> r.attempts + 1,
   result |-> IF r.status = "pending" THEN r.result ELSE Nil,
   outcome |-> IF r.status = "pending" THEN r.outcome ELSE Nil,
   revision |-> r.revision + 1]

(* The fact is of the assignment's session and was written by its receiver. *)
Evidence(r, fact) == facts[fact] = [session |-> r.session, actor |-> r.to]

Returned(r, fact, outcome) ==
  [session |-> r.session, to |-> r.to, claim |-> r.claim,
   status |-> IF outcome = "succeeded" THEN "completed" ELSE r.status,
   attempts |-> r.attempts, result |-> fact, outcome |-> outcome,
   revision |-> r.revision + 1]

(* A heartbeat, or a completion.                                           *)
Revised(r, status) ==
  [session |-> r.session, to |-> r.to, claim |-> r.claim, status |-> status,
   attempts |-> r.attempts, result |-> r.result, outcome |-> r.outcome,
   revision |-> r.revision + 1]

(* Requests that are answered with the record as it is.                    *)
Repeats(r, q) ==
  /\ q.actor = r.to
  /\ \/ /\ q.op = "accept"
        /\ r.status = "accepted"
        /\ r.claim = q.claim
     \/ /\ q.op = "return"
        /\ r.status = "completed"
        /\ r.result = q.fact
        /\ r.outcome = q.outcome
     \/ /\ q.op = "complete"
        /\ r.status = "completed"

Allowed(r, q) ==
  /\ q.actor = r.to
  /\ ~Repeats(r, q)
  /\ \/ q.op = "accept" /\ Claimable(r, q.claim)
     \/ q.op \in {"heartbeat", "complete"} /\ r.status = "accepted"
     \/ q.op = "return" /\ r.status = "accepted" /\ Evidence(r, q.fact)

Changed(r, q) ==
  CASE q.op = "accept" -> Accepted(r, q.claim)
    [] q.op = "heartbeat" -> Revised(r, r.status)
    [] q.op = "return" -> Returned(r, q.fact, q.outcome)
    [] q.op = "complete" -> Revised(r, "completed")

-----------------------------------------------------------------------------

Init ==
  /\ records = [h \in Handoffs |-> Nil]
  /\ facts = [f \in Facts |-> Nil]

Dispatched(h, session, to) ==
  /\ records[h] = Nil
  /\ records' = [records EXCEPT ![h] = NewAssignment(session, to)]
  /\ UNCHANGED facts

(* A fact with known content is the fact that is there.                    *)
FactAdded(f, session, actor) ==
  /\ facts[f] \in {Nil, [session |-> session, actor |-> actor]}
  /\ facts' = [facts EXCEPT ![f] = [session |-> session, actor |-> actor]]
  /\ UNCHANGED records

Change(h, q) ==
  /\ records[h] # Nil
  /\ Allowed(records[h], q)
  /\ records' = [records EXCEPT ![h] = Changed(records[h], q)]
  /\ UNCHANGED facts

Next ==
  \/ \E h \in Handoffs, session \in Sessions, to \in Actors :
       Dispatched(h, session, to)
  \/ \E f \in Facts, session \in Sessions, actor \in Actors :
       FactAdded(f, session, actor)
  \/ \E h \in Handoffs : \E q \in Requests : Change(h, q)

Spec == Init /\ [][Next]_ledger
=============================================================================
