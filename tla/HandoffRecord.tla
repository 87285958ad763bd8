--------------------------- MODULE HandoffRecord ---------------------------
(***************************************************************************)
(* The typed handoff record and its lease state machine, translated from   *)
(* aidememo-domain/src/handoff.rs.  There are no variables here: every     *)
(* method is a guard ("...Allowed", the conjunction of the method's early  *)
(* returns) and the record the method leaves behind.                       *)
(*                                                                         *)
(* A topic, focus, completion condition or fact text never decides a       *)
(* transition and is left out; a session stands for the pair (session,     *)
(* source), which the code always copies and compares together.            *)
(***************************************************************************)
EXTENDS Naturals

CONSTANTS
  Actors,     \* authenticated project members
  Sessions,   \* session identifiers
  Handoffs,   \* handoff identifiers
  Contexts,   \* context packet identifiers
  Facts,      \* result fact identifiers
  Claims,     \* claim identifiers chosen by workers
  Lease,      \* HANDOFF_LEASE_MS, in clock ticks
  MaxAttempts,\* largest attempt_count: u64::MAX in the code
  Nil         \* Option::None

ASSUME LeaseAssumption == Lease \in Nat \ {0}

ASSUME AttemptsAssumption == MaxAttempts \in Nat

ASSUME NilAssumption ==
  Nil \notin Nat \cup Actors \cup Sessions \cup Handoffs \cup Contexts
             \cup Facts \cup Claims \cup {"succeeded", "failed"}

Outcomes == {"succeeded", "failed"}

Maybe(T) == T \cup {Nil}

HandoffDoc ==
  [session  : Sessions,
   from     : Actors,
   to       : Actors,
   context  : Maybe(Contexts),
   status   : {"pending", "accepted", "completed"},
   claim    : Maybe(Claims),
   beat     : Maybe(Nat),
   expires  : Maybe(Nat),
   attempts : Nat,
   result   : Maybe(Facts),
   outcome  : Maybe(Outcomes)]

FactDoc == [session : Sessions, actor : Actors]

ContextDoc ==
  [handoff : Handoffs, session : Sessions, from : Actors, to : Actors]

-----------------------------------------------------------------------------

(* HandoffRecord::new followed by attach_context.                          *)
SendAllowed(from, to) == from # to

ContextFits(packet, handoff, session, from, to) ==
  packet = [handoff |-> handoff, session |-> session, from |-> from, to |-> to]

NewHandoff(session, from, to, context) ==
  [session |-> session, from |-> from, to |-> to, context |-> context,
   status |-> "pending", claim |-> Nil, beat |-> Nil, expires |-> Nil,
   attempts |-> 0, result |-> Nil, outcome |-> Nil]

(* claim_is_stale_at: only an accepted, not failed, leased claim expires.  *)
Stale(h, now) ==
  /\ h.status = "accepted"
  /\ h.outcome # "failed"
  /\ h.expires # Nil
  /\ now >= h.expires

(* accept_with_lease: a pending handoff is claimed, the holder's repeat is *)
(* a no-op while its lease runs, and another claim enters only after a     *)
(* failed outcome or an expired lease, and only if the attempt counter's   *)
(* checked_add does not overflow.                                          *)
RepeatsClaim(h, claim) == h.status = "accepted" /\ h.claim = claim

(* Fault: accept_with_lease that forgets to ask whether the lease expired. *)
ClaimableWhileLive(h, now) ==
  h.status \in {"pending", "accepted"} /\ h.attempts < MaxAttempts

Claimable(h, now) ==
  /\ \/ h.status = "pending"
     \/ h.status = "accepted" /\ (h.outcome = "failed" \/ Stale(h, now))
  /\ h.attempts < MaxAttempts

AcceptAllowed(h, actor, claim, now) ==
  /\ actor = h.to
  /\ IF RepeatsClaim(h, claim) THEN ~Stale(h, now) ELSE Claimable(h, now)

BeginClaim(h, claim, now) ==
  [h EXCEPT !.status = "accepted", !.claim = claim,
            !.beat = now, !.expires = now + Lease,
            !.attempts = @ + 1, !.result = Nil, !.outcome = Nil]

Accepted(h, claim, now) ==
  IF RepeatsClaim(h, claim) THEN h ELSE BeginClaim(h, claim, now)

(* heartbeat *)
HeartbeatAllowed(h, actor, claim, now) ==
  /\ actor = h.to
  /\ h.status = "accepted"
  /\ h.claim = claim
  /\ h.outcome # "failed"
  /\ ~Stale(h, now)

Renewed(h, now) == [h EXCEPT !.beat = now, !.expires = now + Lease]

(* Fault: validate_result_fact that does not ask who wrote the fact.       *)
ReturnAllowedAnyAuthor(h, actor, claim, fact, factDoc, outcome, now) ==
  /\ actor = h.to
  /\ h.status \in {"accepted", "completed"}
  /\ h.claim = claim
  /\ ~Stale(h, now)
  /\ factDoc.session = h.session
  /\ h.status = "completed" => h.result = fact /\ h.outcome = outcome

(* return_result_at, then return_result.  The exact repeat of a completed  *)
(* return is allowed and changes nothing; nothing here asks whether the    *)
(* matching claim has already returned a failure.                          *)
ReturnAllowed(h, actor, claim, fact, factDoc, outcome, now) ==
  /\ actor = h.to
  /\ h.status \in {"accepted", "completed"}
  /\ h.claim = claim
  /\ ~Stale(h, now)
  /\ factDoc.session = h.session
  /\ factDoc.actor = h.to
  /\ h.status = "completed" => h.result = fact /\ h.outcome = outcome

Returned(h, fact, outcome) ==
  IF h.status = "completed" THEN h
  ELSE IF outcome = "succeeded"
       THEN [h EXCEPT !.status = "completed", !.result = fact,
                      !.outcome = "succeeded"]
       ELSE [h EXCEPT !.result = fact, !.outcome = "failed",
                      !.beat = Nil, !.expires = Nil]

(* A claim whose holder may still heartbeat or return at time now.         *)
LiveAt(h, now) ==
  /\ h.status = "accepted"
  /\ h.outcome # "failed"
  /\ ~Stale(h, now)
=============================================================================
