--------------------------- MODULE HandoffProofs ---------------------------
(***************************************************************************)
(* Proofs about Handoff and HandoffService, for every set of members,      *)
(* documents and claims and every lease.  The lemmas of the first part     *)
(* speak of one record and one method of domain/handoff.rs; the second     *)
(* lifts them to steps, and the third follows the handlers, whose store    *)
(* calls are separate, to the requests they implement.                     *)
(***************************************************************************)
EXTENDS HandoffService, FiniteSetTheorems, TLAPS

(* What the inductive argument knows about one present handoff record.     *)
Shape(h) ==
  /\ h.status = "pending" =>
       h.claim = Nil /\ h.attempts = 0 /\ h.outcome = Nil
  /\ h.status = "accepted" =>
       /\ h.claim # Nil
       /\ h.attempts >= 1
       /\ h.outcome # "succeeded"
  /\ h.status = "completed" => h.outcome = "succeeded" /\ h.result \in Facts

(* The lease of a running claim, as of time t.                             *)
Leased(h, t) ==
  h.status = "accepted" /\ h.outcome # "failed" =>
    /\ h.beat \in 0..t
    /\ h.expires = h.beat + Lease

-----------------------------------------------------------------------------
(* A request of a kind has the fields of that kind.                        *)
LEMMA RequestFields ==
  ASSUME NEW q \in Requests
  PROVE  /\ q.actor \in Actors
         /\ q.op = "session.create" => q.target \in Sessions
         /\ q.op = "fact.create" => q.target \in Facts /\ q.session \in Sessions
         /\ q.op = "handoff_context.create" =>
              /\ q.target \in Contexts
              /\ q.handoff \in Handoffs
              /\ q.session \in Sessions
              /\ q.to \in Actors
         /\ q.op = "handoff.send" =>
              /\ q.target \in Handoffs
              /\ q.session \in Sessions
              /\ q.to \in Actors
              /\ q.context \in Maybe(Contexts)
         /\ q.op \in Transitions => q.target \in Handoffs
         /\ q.op \in {"handoff.accept", "handoff.heartbeat"} =>
              q.claim \in Claims
         /\ q.op = "handoff.return" =>
              /\ q.claim \in Claims
              /\ q.fact \in Facts
              /\ q.outcome \in Outcomes
  BY DEF Requests, Transitions

(* accept_with_lease returns a well-formed, leased record of the same      *)
(* route, and either repeats the claim or begins a new attempt with it.    *)
LEMMA AcceptStep ==
  ASSUME NEW h \in HandoffDoc, NEW a, NEW c \in Claims, NEW now \in Nat,
         Shape(h), AcceptAllowed(h, a, c, now)
  PROVE  LET g == Accepted(h, c, now)
         IN  /\ g \in HandoffDoc
             /\ Shape(g)
             /\ g.session = h.session /\ g.from = h.from /\ g.to = h.to
             /\ g.context = h.context
             /\ g.status = "accepted"
             /\ \/ g = h
                \/ /\ g.beat = now
                   /\ g.expires = now + Lease
                   /\ g.claim = c /\ h.claim # c
                   /\ g.attempts = h.attempts + 1
                   /\ h.status # "completed"
                   /\ h.status = "accepted" => h.outcome = "failed" \/ Stale(h, now)
<1> DEFINE b == BeginClaim(h, c, now)
<1>1. CASE RepeatsClaim(h, c)
  BY <1>1 DEF Accepted, RepeatsClaim
<1>2. CASE ~RepeatsClaim(h, c)
  <2>1. /\ h.status = "pending" \/ h.status = "accepted"
        /\ h.status = "accepted" => h.outcome = "failed" \/ Stale(h, now)
    BY <1>2 DEF AcceptAllowed, Claimable
  <2>2. h.claim # c
    BY <1>2, <2>1, NilAssumption DEF RepeatsClaim, Shape
  <2>3. b \in HandoffDoc
    <3>1. now + Lease \in Nat /\ h.attempts + 1 \in Nat
      BY LeaseAssumption DEF HandoffDoc
    <3>2. QED
      BY <3>1, Zenon DEF BeginClaim, HandoffDoc, Maybe
  <2>4. /\ b.session = h.session /\ b.from = h.from /\ b.to = h.to
        /\ b.context = h.context /\ b.status = "accepted"
        /\ b.beat = now /\ b.expires = now + Lease
        /\ b.claim = c /\ b.attempts = h.attempts + 1
        /\ b.outcome = Nil
    BY DEF BeginClaim, HandoffDoc
  <2>5. Shape(b)
    BY <2>4, NilAssumption DEF Shape, HandoffDoc
  <2>6. QED
    BY <1>2, <2>1, <2>2, <2>3, <2>4, <2>5 DEF Accepted
<1>3. QED
  BY <1>1, <1>2

(* heartbeat moves the lease of a live claim and nothing else.             *)
LEMMA HeartbeatStep ==
  ASSUME NEW h \in HandoffDoc, NEW a, NEW c \in Claims, NEW now \in Nat,
         Shape(h), HeartbeatAllowed(h, a, c, now)
  PROVE  LET g == Renewed(h, now)
         IN  /\ g \in HandoffDoc
             /\ Shape(g)
             /\ g.session = h.session /\ g.from = h.from /\ g.to = h.to
             /\ g.context = h.context
             /\ h.status = "accepted" /\ g.status = "accepted"
             /\ g.claim = h.claim /\ g.attempts = h.attempts
             /\ g.beat = now /\ g.expires = now + Lease
<1>1. Renewed(h, now) \in HandoffDoc
  <2>1. now + Lease \in Nat
    BY LeaseAssumption
  <2>2. QED
    BY <2>1, Zenon DEF Renewed, HandoffDoc, Maybe
<1>2. QED
  BY <1>1 DEF Renewed, HandoffDoc, HeartbeatAllowed, Shape

(* return_result_at keeps the route, the claim and the attempt; it         *)
(* completes the handoff only with the evidence it was given, and leaves a *)
(* completed record as it was.                                             *)
LEMMA ReturnStep ==
  ASSUME NEW h \in HandoffDoc, NEW a, NEW c \in Claims, NEW f \in Facts,
         NEW d, NEW o \in Outcomes, NEW now \in Nat,
         Shape(h), ReturnAllowed(h, a, c, f, d, o, now)
  PROVE  LET g == Returned(h, f, o)
         IN  /\ g \in HandoffDoc
             /\ Shape(g)
             /\ g.session = h.session /\ g.from = h.from /\ g.to = h.to
             /\ g.context = h.context
             /\ g.claim = h.claim /\ g.attempts = h.attempts
             /\ h.status = "completed" => g = h
             /\ g.status = "accepted" => g.outcome = "failed"
             /\ g.status = "completed" => g.result = f
<1>1. CASE h.status = "completed"
  BY <1>1 DEF Returned, ReturnAllowed
<1>2. CASE h.status = "accepted" /\ o = "succeeded"
  <2>1. Returned(h, f, o) = [h EXCEPT !.status = "completed", !.result = f,
                                      !.outcome = "succeeded"]
    BY <1>2 DEF Returned
  <2>2. Returned(h, f, o) \in HandoffDoc
    BY <2>1 DEF HandoffDoc, Maybe, Outcomes
  <2>3. QED
    BY <1>2, <2>1, <2>2 DEF HandoffDoc, Shape
<1>3. CASE h.status = "accepted" /\ o = "failed"
  <2>1. Returned(h, f, o) = [h EXCEPT !.result = f, !.outcome = "failed",
                                      !.beat = Nil, !.expires = Nil]
    BY <1>3 DEF Returned
  <2>2. Returned(h, f, o) \in HandoffDoc
    BY <2>1 DEF HandoffDoc, Maybe, Outcomes
  <2>3. QED
    BY <1>3, <2>1, <2>2 DEF HandoffDoc, Shape
<1>4. QED
  BY <1>1, <1>2, <1>3 DEF ReturnAllowed, Outcomes
-----------------------------------------------------------------------------
(* The inductive invariant: the safety invariants of Handoff together with *)
(* the shape of every record, which none of them implies.                  *)
AllShaped == \A h \in Handoffs : Present(h) => Shape(docs[h])

IInv ==
  /\ TypeOK
  /\ AllShaped
  /\ LeaseFollowsHeartbeat
  /\ CompletedHasEvidence
  /\ ContextRoutedWithHandoff

(* A document of each kind is never mistaken for None.                     *)
LEMMA PresentKinds == ASSUME TypeOK, NEW r \in Resources, Present(r)
  PROVE  /\ r \in Sessions => docs[r] \in SessionDoc
         /\ r \in Facts => docs[r] \in FactDoc
         /\ r \in Contexts => docs[r] \in ContextDoc
         /\ r \in Handoffs => docs[r] \in HandoffDoc
  BY DEF TypeOK, Present, Maybe

(* Only the target of a request is written.                                *)
LEMMA OneDocumentWritten ==
  ASSUME TypeOK, NEW q \in Requests, NEW now \in 0..clock, Perform(q, now)
  PROVE  /\ q.target \in Resources
         /\ DOMAIN docs' = Resources
         /\ docs'[q.target] = Written(q, now)
         /\ \A r \in Resources : r # q.target => docs'[r] = docs[r]
<1>1. q.op \in {"session.create", "fact.create", "handoff_context.create",
                "handoff.send"} \cup Transitions
  BY DEF Requests, Transitions
<1>2. q.target \in Resources
  BY <1>1, RequestFields DEF Resources
<1>3. QED
  BY <1>2 DEF Perform, TypeOK

(* A handoff record as one request leaves it: the step of domain/handoff.rs*)
(* with everything the invariants and the action properties need.          *)
Follows(h, g, t) ==
  /\ g \in HandoffDoc
  /\ Shape(g)
  /\ Leased(g, t)
  /\ g.session = h.session /\ g.from = h.from /\ g.to = h.to
  /\ g.context = h.context
  /\ h.status = "completed" => g = h
  /\ LiveAt(h, t) => g.claim = h.claim /\ g.attempts = h.attempts
  /\ \/ g.attempts = h.attempts /\ g.claim = h.claim
     \/ g.attempts = h.attempts + 1 /\ g.claim # h.claim

LEMMA TransitionFollows ==
  ASSUME IInv, NEW q \in Requests, NEW now \in 0..clock,
         q.op \in Transitions, Perform(q, now)
  PROVE  /\ q.target \in Handoffs
         /\ Present(q.target)
         /\ Follows(docs[q.target], docs'[q.target], clock)
         /\ docs'[q.target].status = "completed" =>
              \/ docs'[q.target] = docs[q.target]
              \/ /\ docs'[q.target].result \in Facts
                 /\ docs[docs'[q.target].result] =
                      [session |-> docs[q.target].session,
                       actor   |-> docs[q.target].to]
<1> DEFINE h == docs[q.target]
           g == docs'[q.target]
<1>1. q.target \in Handoffs /\ TransitionPermits(q, now) /\ now \in Nat
      /\ clock \in Nat /\ now <= clock
  BY RequestFields DEF Perform, Permits, CreatePermits, Transitions, IInv, TypeOK
<1>2. Present(q.target) /\ h \in HandoffDoc /\ Shape(h) /\ Leased(h, clock)
  BY <1>1, PresentKinds
  DEF TransitionPermits, TransitionAllowed, IInv, AllShaped,
      LeaseFollowsHeartbeat, Leased,
      Resources
<1>3. g = Written(q, now)
  BY OneDocumentWritten DEF IInv
<1>4. CASE q.op = "handoff.accept"
  <2>1. g = Accepted(h, q.claim, now)
    BY <1>3, <1>4 DEF Written, Transitioned
  <2>2. AcceptAllowed(h, q.actor, q.claim, now) /\ q.claim \in Claims
    BY <1>1, <1>4, RequestFields DEF TransitionPermits, TransitionAllowed
  <2>3. /\ g \in HandoffDoc /\ Shape(g)
        /\ g.session = h.session /\ g.from = h.from /\ g.to = h.to
        /\ g.context = h.context
        /\ g.status = "accepted"
        /\ \/ g = h
           \/ /\ g.beat = now /\ g.expires = now + Lease
              /\ g.claim # h.claim
              /\ g.attempts = h.attempts + 1
              /\ h.status # "completed"
              /\ h.status = "accepted" => h.outcome = "failed" \/ Stale(h, now)
    BY <1>1, <1>2, <2>1, <2>2, AcceptStep
  <2>4. Leased(g, clock)
    BY <1>1, <1>2, <2>3 DEF Leased
  <2>5. h.status = "completed" => g = h
    BY <2>3
  <2>6. LiveAt(h, clock) => g = h
    <3>1. Stale(h, now) => Stale(h, clock)
      BY <1>1, <1>2, LeaseAssumption DEF Stale, Leased
    <3>2. QED
      BY <2>3, <3>1 DEF LiveAt
  <2>7. QED
    BY <1>1, <1>2, <2>3, <2>4, <2>5, <2>6 DEF Follows
<1>5. CASE q.op = "handoff.heartbeat"
  <2>1. g = Renewed(h, now)
    BY <1>3, <1>5 DEF Written, Transitioned
  <2>2. HeartbeatAllowed(h, q.actor, q.claim, now) /\ q.claim \in Claims
    BY <1>1, <1>5, RequestFields DEF TransitionPermits, TransitionAllowed
  <2>3. /\ g \in HandoffDoc /\ Shape(g)
        /\ g.session = h.session /\ g.from = h.from /\ g.to = h.to
        /\ g.context = h.context
        /\ h.status = "accepted" /\ g.status = "accepted"
        /\ g.claim = h.claim /\ g.attempts = h.attempts
        /\ g.beat = now /\ g.expires = now + Lease
    BY <1>1, <1>2, <2>1, <2>2, HeartbeatStep
  <2>4. QED
    BY <1>1, <1>2, <2>3 DEF Follows, Leased
<1>6. CASE q.op = "handoff.return"
  <2>1. g = Returned(h, q.fact, q.outcome)
    BY <1>3, <1>6 DEF Written, Transitioned
  <2>2. /\ ReturnAllowed(h, q.actor, q.claim, q.fact, docs[q.fact],
                         q.outcome, now)
        /\ Present(q.fact)
        /\ q.claim \in Claims /\ q.fact \in Facts /\ q.outcome \in Outcomes
    BY <1>1, <1>6, RequestFields DEF TransitionPermits, TransitionAllowed
  <2>3. /\ g \in HandoffDoc /\ Shape(g)
        /\ g.session = h.session /\ g.from = h.from /\ g.to = h.to
        /\ g.context = h.context
        /\ g.claim = h.claim /\ g.attempts = h.attempts
        /\ h.status = "completed" => g = h
        /\ g.status = "accepted" => g.outcome = "failed"
        /\ g.status = "completed" => g.result = q.fact
    BY <1>1, <1>2, <2>1, <2>2, ReturnStep
  <2>4. docs[q.fact] \in FactDoc
    BY <2>2, PresentKinds DEF IInv, Resources
  <2>5. docs[q.fact] = [session |-> h.session, actor |-> h.to]
    BY <2>2, <2>4 DEF ReturnAllowed, FactDoc
  <2>6. Follows(h, g, clock)
    BY <2>3 DEF Follows, Leased
  <2>7. QED
    BY <1>1, <1>2, <2>2, <2>3, <2>5, <2>6
<1>7. QED
  BY <1>4, <1>5, <1>6 DEF Transitions

(* A create request writes a resource that was absent, with a document of  *)
(* its kind; a sent handoff starts pending, on the route of its context.   *)
LEMMA CreateStep ==
  ASSUME IInv, NEW q \in Requests, NEW now \in 0..clock,
         q.op \notin Transitions, Perform(q, now)
  PROVE  /\ q.target \in Resources
         /\ ~Present(q.target)
         /\ q.target \in Sessions => docs'[q.target] \in SessionDoc
         /\ q.target \in Facts    => docs'[q.target] \in FactDoc
         /\ q.target \in Contexts => docs'[q.target] \in ContextDoc
         /\ q.target \in Handoffs =>
              LET g == docs'[q.target]
              IN  /\ g \in HandoffDoc
                  /\ Shape(g)
                  /\ g.status = "pending"
                  /\ g.context # Nil =>
                       /\ g.context \in Contexts
                       /\ docs[g.context] =
                            [handoff |-> q.target, session |-> g.session,
                             from |-> g.from, to |-> g.to]
<1>1. docs'[q.target] = Written(q, now) /\ q.target \in Resources
  BY OneDocumentWritten DEF IInv
<1>2. CASE q.op = "session.create"
  <2>1. q.target \in Sessions /\ ~Present(q.target)
    BY <1>2, RequestFields
    DEF Perform, Permits, CreatePermits, TransitionPermits,
        TransitionAllowed, Transitions
  <2>2. docs'[q.target] \in SessionDoc
    BY <1>1, <1>2, RequestFields DEF Written, Transitioned, SessionDoc
  <2>3. QED
    BY <1>1, <2>1, <2>2, KindsAssumption
<1>3. CASE q.op = "fact.create"
  <2>1. q.target \in Facts /\ ~Present(q.target)
    BY <1>3, RequestFields
    DEF Perform, Permits, CreatePermits, FactPermits, TransitionPermits,
        TransitionAllowed, Transitions
  <2>2. docs'[q.target] \in FactDoc
    BY <1>1, <1>3, RequestFields DEF Written, Transitioned, FactDoc
  <2>3. QED
    BY <1>1, <2>1, <2>2, KindsAssumption
<1>4. CASE q.op = "handoff_context.create"
  <2>1. q.target \in Contexts /\ ~Present(q.target)
    BY <1>4, RequestFields
    DEF Perform, Permits, CreatePermits, ContextPermits, TransitionPermits,
        TransitionAllowed, Transitions
  <2>2. docs'[q.target] \in ContextDoc
    BY <1>1, <1>4, RequestFields DEF Written, Transitioned, ContextDoc
  <2>3. QED
    BY <1>1, <2>1, <2>2, KindsAssumption
<1>5. CASE q.op = "handoff.send"
  <2>1. /\ q.target \in Handoffs /\ q.session \in Sessions
        /\ q.to \in Actors /\ q.actor \in Actors
        /\ q.context \in Maybe(Contexts)
        /\ SendPermits(q) /\ ~Present(q.target)
    BY <1>5, RequestFields DEF Perform, Permits, CreatePermits, Transitions
  <2>2. docs'[q.target] = NewHandoff(q.session, q.actor, q.to, q.context)
    BY <1>1, <1>5 DEF Written, Transitioned
  <2>3. NewHandoff(q.session, q.actor, q.to, q.context) \in HandoffDoc
    BY <2>1 DEF NewHandoff, HandoffDoc, Maybe
  <2>4. Shape(NewHandoff(q.session, q.actor, q.to, q.context))
    BY DEF NewHandoff, Shape
  <2>5. /\ docs'[q.target].status = "pending"
        /\ docs'[q.target].context = q.context
        /\ docs'[q.target].session = q.session
        /\ docs'[q.target].from = q.actor
        /\ docs'[q.target].to = q.to
    BY <2>2 DEF NewHandoff
  <2>6. q.context # Nil =>
          /\ q.context \in Contexts
          /\ docs[q.context] =
               [handoff |-> q.target, session |-> q.session,
                from |-> q.actor, to |-> q.to]
    BY <2>1 DEF SendPermits, ContextFits, Maybe
  <2>7. QED
    BY <1>1, <2>1, <2>2, <2>3, <2>4, <2>5, <2>6, KindsAssumption
<1>6. QED
  BY <1>2, <1>3, <1>4, <1>5 DEF Requests, Transitions
-----------------------------------------------------------------------------
LEMMA InitIInv == Init => IInv
<1> SUFFICES ASSUME Init PROVE IInv
  OBVIOUS
<1>1. DOMAIN docs = Resources /\ clock = 0
  BY DEF Init
<1>2. \A r \in Resources : docs[r] = Nil
  BY DEF Init
<1>3. TypeOK
  BY <1>1, <1>2 DEF TypeOK, Resources, Maybe
<1>4. \A h \in Handoffs : ~Present(h)
  BY <1>2 DEF Present, Resources
<1>5. QED
  BY <1>3, <1>4
  DEF IInv, AllShaped, LeaseFollowsHeartbeat, CompletedHasEvidence,
      ContextRoutedWithHandoff

(* What one request does to every handoff and every other document: each   *)
(* present document that is not a handoff is immutable, and each handoff   *)
(* follows its previous record or is new and pending.                      *)
LEMMA PerformStep ==
  ASSUME IInv, NEW q \in Requests, NEW now \in 0..clock, Perform(q, now)
  PROVE  /\ TypeOK'
         /\ \A r \in Resources \ Handoffs : Present(r) => docs'[r] = docs[r]
         /\ \A h \in Handoffs : Present(h) =>
              /\ docs'[h] # Nil
              /\ Follows(docs[h], docs'[h], clock)
              /\ docs'[h].status = "completed" =>
                   \/ docs'[h] = docs[h]
                   \/ /\ docs'[h].result \in Facts
                      /\ docs[docs'[h].result] =
                           [session |-> docs[h].session, actor |-> docs[h].to]
         /\ \A h \in Handoffs : ~Present(h) /\ docs'[h] # Nil =>
              /\ Shape(docs'[h])
              /\ docs'[h].status = "pending"
              /\ docs'[h].context # Nil =>
                   /\ docs'[h].context \in Contexts
                   /\ docs[docs'[h].context] =
                        [handoff |-> h, session |-> docs'[h].session,
                         from |-> docs'[h].from, to |-> docs'[h].to]
<1>1. /\ q.target \in Resources /\ DOMAIN docs' = Resources
      /\ \A r \in Resources : r # q.target => docs'[r] = docs[r]
      /\ clock' = clock
  BY OneDocumentWritten DEF IInv, Perform
<1>2. ASSUME NEW h \in Handoffs, Present(h), docs'[h] = docs[h]
      PROVE  Follows(docs[h], docs'[h], clock)
  <2>1. docs[h] \in HandoffDoc /\ Shape(docs[h]) /\ Leased(docs[h], clock)
    BY <1>2, PresentKinds
    DEF IInv, AllShaped, LeaseFollowsHeartbeat, Leased, Resources
  <2>2. QED
    BY <1>2, <2>1 DEF Follows
<1>3. \A r \in Resources : docs'[r] = docs[r] \/ r = q.target
  BY <1>1
<1>4. Nil \notin HandoffDoc
  BY NilIsNoDocument DEF Documents
<1>5. CASE q.op \in Transitions
  <2>1. /\ q.target \in Handoffs /\ Present(q.target)
        /\ Follows(docs[q.target], docs'[q.target], clock)
        /\ docs'[q.target].status = "completed" =>
             \/ docs'[q.target] = docs[q.target]
             \/ /\ docs'[q.target].result \in Facts
                /\ docs[docs'[q.target].result] =
                     [session |-> docs[q.target].session,
                      actor   |-> docs[q.target].to]
    BY <1>5, TransitionFollows
  <2>2. TypeOK'
    BY <1>1, <1>3, <2>1, KindsAssumption
    DEF IInv, TypeOK, Resources, Maybe, Follows
  <2>3. docs'[q.target] # Nil
    BY <1>4, <2>1 DEF Follows
  <2>4. QED
    BY <1>1, <1>2, <1>3, <2>1, <2>2, <2>3, KindsAssumption
    DEF Resources, Present
<1>6. CASE q.op \notin Transitions
  <2>1. /\ ~Present(q.target)
        /\ q.target \in Sessions => docs'[q.target] \in SessionDoc
        /\ q.target \in Facts    => docs'[q.target] \in FactDoc
        /\ q.target \in Contexts => docs'[q.target] \in ContextDoc
        /\ q.target \in Handoffs =>
             /\ docs'[q.target] \in HandoffDoc
             /\ Shape(docs'[q.target])
             /\ docs'[q.target].status = "pending"
             /\ docs'[q.target].context # Nil =>
                  /\ docs'[q.target].context \in Contexts
                  /\ docs[docs'[q.target].context] =
                       [handoff |-> q.target,
                        session |-> docs'[q.target].session,
                        from |-> docs'[q.target].from,
                        to |-> docs'[q.target].to]
    BY <1>6, CreateStep
  <2>2. TypeOK'
    BY <1>1, <1>3, <2>1 DEF IInv, TypeOK, Resources, Maybe
  <2>3. QED
    BY <1>1, <1>2, <1>3, <2>1, <2>2 DEF Resources, Present
<1>7. QED
  BY <1>5, <1>6

LEMMA PerformIInv ==
  ASSUME IInv, NEW q \in Requests, NEW now \in 0..clock, Perform(q, now)
  PROVE  IInv'
<1>1. /\ TypeOK'
      /\ \A r \in Resources \ Handoffs : Present(r) => docs'[r] = docs[r]
      /\ clock' = clock
  BY PerformStep DEF Perform
<1>2. ASSUME NEW h \in Handoffs, docs'[h] # Nil, Present(h)
      PROVE  /\ Follows(docs[h], docs'[h], clock)
             /\ docs[h] \in HandoffDoc
             /\ docs'[h].status = "completed" =>
                  \/ docs'[h] = docs[h]
                  \/ /\ docs'[h].result \in Facts
                     /\ docs[docs'[h].result] =
                          [session |-> docs[h].session, actor |-> docs[h].to]
  BY <1>2, PerformStep, PresentKinds DEF IInv, Resources
<1>3. ASSUME NEW h \in Handoffs, docs'[h] # Nil, ~Present(h)
      PROVE  /\ Shape(docs'[h])
             /\ docs'[h].status = "pending"
             /\ docs'[h].context # Nil =>
                  /\ docs'[h].context \in Contexts
                  /\ docs[docs'[h].context] =
                       [handoff |-> h, session |-> docs'[h].session,
                        from |-> docs'[h].from, to |-> docs'[h].to]
  BY <1>3, PerformStep
<1>4. AllShaped'
  BY <1>2, <1>3 DEF AllShaped, Present, Follows
<1>5. LeaseFollowsHeartbeat'
  <2> SUFFICES ASSUME NEW h \in Handoffs, docs'[h] # Nil,
                      docs'[h].status = "accepted", docs'[h].outcome # "failed"
               PROVE  /\ docs'[h].beat \in 0..clock
                      /\ docs'[h].expires = docs'[h].beat + Lease
                      /\ docs'[h].claim # Nil
                      /\ docs'[h].attempts >= 1
    BY <1>1 DEF LeaseFollowsHeartbeat, Present
  <2>1. Present(h)
    BY <1>3
  <2>2. Leased(docs'[h], clock) /\ Shape(docs'[h])
    BY <1>2, <2>1 DEF Follows
  <2>3. QED
    BY <2>2 DEF Leased, Shape
<1>6. ASSUME NEW r \in Facts \cup Contexts, Present(r)
      PROVE  docs'[r] = docs[r]
  BY <1>1, <1>6, KindsAssumption DEF Resources
<1>7. \A f \in Facts, s \in Sessions, a \in Actors :
        docs[f] = [session |-> s, actor |-> a] => docs'[f] = docs[f]
  <2>1. \A s \in Sessions, a \in Actors :
          [session |-> s, actor |-> a] # Nil
    BY NilIsNoDocument DEF Documents, FactDoc
  <2>2. QED
    BY <1>6, <2>1 DEF Present
<1>8. CompletedHasEvidence'
  <2> SUFFICES ASSUME NEW h \in Handoffs, docs'[h] # Nil,
                      docs'[h].status = "completed"
               PROVE  /\ docs'[h].outcome = "succeeded"
                      /\ docs'[h].result \in Facts
                      /\ docs'[docs'[h].result] =
                           [session |-> docs'[h].session,
                            actor |-> docs'[h].to]
    BY DEF CompletedHasEvidence, Present
  <2>1. Present(h)
    BY <1>3
  <2>2. /\ Shape(docs'[h]) /\ docs[h] \in HandoffDoc
        /\ docs'[h].session = docs[h].session /\ docs'[h].to = docs[h].to
    BY <1>2, <2>1 DEF Follows
  <2>3. /\ docs'[h].result \in Facts
        /\ docs[docs'[h].result] =
             [session |-> docs[h].session, actor |-> docs[h].to]
    BY <1>2, <2>1 DEF IInv, CompletedHasEvidence
  <2>4. docs[h].session \in Sessions /\ docs[h].to \in Actors
    BY <2>2 DEF HandoffDoc
  <2>5. docs'[docs'[h].result] = docs[docs'[h].result]
    BY <1>7, <2>3, <2>4
  <2>6. QED
    BY <2>2, <2>3, <2>5 DEF Shape
<1>9. ContextRoutedWithHandoff'
  <2> SUFFICES ASSUME NEW h \in Handoffs, docs'[h] # Nil,
                      docs'[h].context # Nil
               PROVE  docs'[docs'[h].context] =
                        [handoff |-> h, session |-> docs'[h].session,
                         from |-> docs'[h].from, to |-> docs'[h].to]
    BY DEF ContextRoutedWithHandoff, Present
  <2>1. docs'[h].context \in Contexts
    BY <1>1 DEF TypeOK, HandoffDoc, Maybe
  <2>2. docs[docs'[h].context] =
          [handoff |-> h, session |-> docs'[h].session,
           from |-> docs'[h].from, to |-> docs'[h].to]
    <3>1. CASE Present(h)
      BY <1>2, <3>1 DEF Follows, IInv, ContextRoutedWithHandoff
    <3>2. CASE ~Present(h)
      BY <1>3, <3>2
    <3>3. QED
      BY <3>1, <3>2
  <2>3. [handoff |-> h, session |-> docs'[h].session,
         from |-> docs'[h].from, to |-> docs'[h].to] # Nil
    <3>1. docs'[h] \in HandoffDoc
      BY <1>1 DEF TypeOK, Maybe
    <3>2. [handoff |-> h, session |-> docs'[h].session,
           from |-> docs'[h].from, to |-> docs'[h].to] \in ContextDoc
      BY <3>1 DEF HandoffDoc, ContextDoc
    <3>3. QED
      BY <3>2, NilIsNoDocument DEF Documents
  <2>4. QED
    BY <1>6, <2>1, <2>2, <2>3 DEF Present
<1>10. QED
  BY <1>1, <1>4, <1>5, <1>8, <1>9 DEF IInv

LEMMA NextIInv == IInv /\ [Next]_vars => IInv'
<1> SUFFICES ASSUME IInv, [Next]_vars PROVE IInv'
  OBVIOUS
<1>1. CASE UNCHANGED vars
  BY <1>1
  DEF vars, IInv, TypeOK, AllShaped, LeaseFollowsHeartbeat,
      CompletedHasEvidence, ContextRoutedWithHandoff, Present
<1>2. CASE Tick
  <2>1. clock \in Nat /\ clock' = clock + 1 /\ docs' = docs
    BY <1>2 DEF Tick, IInv, TypeOK
  <2>2. LeaseFollowsHeartbeat'
    BY <2>1 DEF IInv, LeaseFollowsHeartbeat, Present
  <2>3. QED
    BY <2>1, <2>2
    DEF IInv, TypeOK, AllShaped, CompletedHasEvidence,
        ContextRoutedWithHandoff, Present
<1>3. ASSUME NEW q \in Requests, NEW now \in 0..clock, Perform(q, now)
      PROVE  IInv'
  BY <1>3, PerformIInv
<1>4. QED
  BY <1>1, <1>2, <1>3 DEF Next
-----------------------------------------------------------------------------
(* Every reachable state is typed, every running claim is bounded by its   *)
(* last heartbeat, every completion has evidence and every attached        *)
(* context has the handoff's route.                                        *)
THEOREM Invariance == Spec => []IInv
<1>1. Init => IInv
  BY InitIInv
<1>2. IInv /\ [Next]_vars => IInv'
  BY NextIInv
<1>3. QED
  BY <1>1, <1>2, PTL DEF Spec

(* Type correctness of the product documents.                              *)
THEOREM TypeCorrect == Spec => []TypeOK
<1>1. IInv => TypeOK
  BY DEF IInv
<1>2. QED
  BY <1>1, Invariance, PTL

(* A dead worker blocks a handoff for at most one lease after its last     *)
(* heartbeat.                                                              *)
THEOREM LeaseBounded == Spec => []LeaseFollowsHeartbeat
<1>1. IInv => LeaseFollowsHeartbeat
  BY DEF IInv
<1>2. QED
  BY <1>1, Invariance, PTL

(* No handoff completes without a fact of the receiver in its session.     *)
THEOREM CompletionNeedsEvidence == Spec => []CompletedHasEvidence
<1>1. IInv => CompletedHasEvidence
  BY DEF IInv
<1>2. QED
  BY <1>1, Invariance, PTL

(* A context packet never travels on another handoff's route.              *)
THEOREM ContextRouteKept == Spec => []ContextRoutedWithHandoff
<1>1. IInv => ContextRoutedWithHandoff
  BY DEF IInv
<1>2. QED
  BY <1>1, Invariance, PTL

(* What any step does to a present handoff: nothing, or one step of the    *)
(* record state machine.                                                   *)
LEMMA HandoffFollows ==
  ASSUME IInv, [Next]_vars, NEW h \in Handoffs, Present(h)
  PROVE  /\ docs'[h] # Nil
         /\ docs'[h] = docs[h] \/ Follows(docs[h], docs'[h], clock)
<1>1. CASE UNCHANGED docs
  BY <1>1 DEF Present
<1>2. ASSUME NEW q \in Requests, NEW now \in 0..clock, Perform(q, now)
      PROVE  docs'[h] # Nil /\ Follows(docs[h], docs'[h], clock)
  BY <1>2, PerformStep
<1>3. QED
  BY <1>1, <1>2 DEF Next, Tick, vars

(* A live claim is exclusive: no step takes an unexpired handoff from the  *)
(* worker holding it, whatever clock reading the step was decided with.    *)
THEOREM ClaimsAreExclusive == Spec => LiveClaimExclusive
<1>1. IInv /\ [Next]_vars =>
        [\A h \in Handoffs : Present(h) /\ LiveAt(docs[h], clock) =>
           /\ docs'[h] # Nil
           /\ docs'[h].claim = docs[h].claim
           /\ docs'[h].attempts = docs[h].attempts]_vars
  <2> SUFFICES ASSUME IInv, [Next]_vars, NEW h \in Handoffs,
                      Present(h), LiveAt(docs[h], clock)
               PROVE  /\ docs'[h] # Nil
                      /\ docs'[h].claim = docs[h].claim
                      /\ docs'[h].attempts = docs[h].attempts
    OBVIOUS
  <2>1. QED
    BY HandoffFollows DEF Follows
<1>2. QED
  BY <1>1, Invariance, PTL DEF Spec, LiveClaimExclusive

(* A completed handoff, its evidence and its winner never change.          *)
THEOREM CompletionIsFinal == Spec => CompletedIsFinal
<1>1. IInv /\ [Next]_vars =>
        [\A h \in Handoffs : Present(h) /\ docs[h].status = "completed" =>
           docs'[h] = docs[h]]_vars
  <2> SUFFICES ASSUME IInv, [Next]_vars, NEW h \in Handoffs,
                      Present(h), docs[h].status = "completed"
               PROVE  docs'[h] = docs[h]
    OBVIOUS
  <2>1. QED
    BY HandoffFollows DEF Follows
<1>2. QED
  BY <1>1, Invariance, PTL DEF Spec, CompletedIsFinal

(* The attempt counter moves exactly when the claim does.                  *)
THEOREM AttemptsFence == Spec => AttemptsFenceClaims
<1>1. IInv /\ [Next]_vars =>
        [\A h \in Handoffs : Present(h) =>
           /\ docs'[h] # Nil
           /\ \/ /\ docs'[h].attempts = docs[h].attempts
                 /\ docs'[h].claim = docs[h].claim
              \/ /\ docs'[h].attempts = docs[h].attempts + 1
                 /\ docs'[h].claim # docs[h].claim]_vars
  <2> SUFFICES ASSUME IInv, [Next]_vars, NEW h \in Handoffs, Present(h)
               PROVE  /\ docs'[h] # Nil
                      /\ \/ /\ docs'[h].attempts = docs[h].attempts
                            /\ docs'[h].claim = docs[h].claim
                         \/ /\ docs'[h].attempts = docs[h].attempts + 1
                            /\ docs'[h].claim # docs[h].claim
    OBVIOUS
  <2>1. QED
    BY HandoffFollows DEF Follows
<1>2. QED
  BY <1>1, Invariance, PTL DEF Spec, AttemptsFenceClaims

-----------------------------------------------------------------------------
(* The handlers of HandoffService implement Handoff, for every deployment  *)
(* that runs calls one after another or creates each resource by one       *)
(* command: what a call read before its command transaction still holds    *)
(* when that commits.                                                      *)

(* The deployments without two commands that may create one resource at    *)
(* once.  With two, what the first wrote can be overwritten.               *)
CreatesApart(d) ==
  \/ d.slots = 1
  \/ \A t, u \in d.templates :
       /\ t.request.op \notin Transitions /\ u.request.op \notin Transitions
       /\ t.request.target = u.request.target
       => t.id = u.id

Recorded(c) ==
  c = [pc |-> c.pc, cmd |-> c.cmd, now |-> c.now, seen |-> c.seen,
       prepared |-> c.prepared, answer |-> c.answer]

(* A command of a client: a transition states a revision.                  *)
Asked(cmd) ==
  /\ cmd.request \in Requests
  /\ cmd.id \in CommandIds
  /\ [id |-> cmd.id, request |-> cmd.request] \in deployment.templates
  /\ cmd.expected \in Nat
  /\ cmd.request.op \in Transitions => cmd.expected # 0

WellFormed(c) ==
  /\ Recorded(c)
  /\ c.pc # "idle" => Asked(c.cmd) /\ c.now \in 0..clock /\ c.answer = Nil
  /\ c.pc \in Serving => c.cmd.request.actor \in Writers

(* What a call that creates has found out: its resource is absent, unless  *)
(* a copy of its command was quicker, and the request is permitted.        *)
CreateHolds(c) ==
  LET q == c.cmd.request
  IN  q.op \notin Transitions =>
        /\ c.pc \in {"loaded", "prepared"} =>
             Ledger!Remembered(c.cmd) \/ ~Present(q.target)
        /\ c.pc = "prepared" =>
             CreatePermits(q) /\ c.prepared = Written(q, c.now)

(* What a call that moves a handoff has found out, unless another revision *)
(* was committed since.                                                    *)
TransitionHolds(c) ==
  LET q == c.cmd.request
  IN  q.op \in Transitions =>
        /\ c.pc \in {"loaded", "prepared"} =>
             revision[q.target] >= c.cmd.expected
        /\ c.pc = "loaded" /\ revision[q.target] = c.cmd.expected =>
             c.seen = docs[q.target]
        /\ c.pc = "prepared" /\ revision[q.target] = c.cmd.expected =>
             /\ TransitionAllowed(q, docs[q.target], c.now)
             /\ c.prepared = Transitioned(q, docs[q.target], c.now)

Sound(c) ==
  WellFormed(c) /\ (c.pc # "idle" => CreateHolds(c) /\ TransitionHolds(c))

(* A revision counts the commits of a present document.                    *)
Tables ==
  /\ next_seq \in Nat
  /\ revision \in [Resources -> Nat]
  /\ \A r \in Resources : revision[r] = 0 <=> docs[r] = Nil
  /\ DOMAIN receipts = CommandIds
  /\ \A id \in CommandIds : receipts[id] # Nil => receipts[id].actor \in Writers

(* On one slot what the replay check found out stays so.                   *)
OneAtATime ==
  deployment.slots = 1 =>
    \A k \in Running : /\ ~Ledger!Remembered(calls[k].cmd)
                       /\ \A j \in Running : j = k

Stated ==
  /\ deployment \in Deployments
  /\ DOMAIN sent = deployment.templates
  /\ \A t \in deployment.templates :
       /\ sent[t] \in Maybe(Nat)
       /\ t.request.op \in Transitions => sent[t] # 0

SvcInv ==
  /\ IInv
  /\ CreatesApart(deployment)
  /\ Tables
  /\ Stated
  /\ DOMAIN calls = Calls
  /\ \A k \in Calls : Sound(calls[k])
  /\ OneAtATime

-----------------------------------------------------------------------------

(* A call is as sound as before when the ledger and the clock are.         *)
LEMMA SoundKept ==
  ASSUME NEW c, UNCHANGED <<deployment, ledger, clock>>
  PROVE  Sound(c)' <=> Sound(c)
  BY DEF Sound, WellFormed, Recorded, Asked, CreateHolds, TransitionHolds,
         ledger, Ledger!Remembered, Present, CreatePermits, FactPermits,
         ContextPermits, SendPermits, TransitionAllowed, Written

LEMMA IdleIsSound ==
  ASSUME NEW answer
  PROVE  /\ Sound(Idle(answer)) /\ Sound(Idle(answer))'
         /\ Idle(answer).pc = "idle"
  BY DEF Sound, WellFormed, Recorded, Idle, Serving

(* A step of one call that leaves the ledger alone.                        *)
LEMMA OneCallMoves ==
  ASSUME SvcInv, NEW k \in Calls, NEW call,
         UNCHANGED <<deployment, ledger, clock>>, Stated',
         calls' = [calls EXCEPT ![k] = call],
         Sound(call),
         call.pc \in Serving =>
           \/ calls[k].pc \in Serving /\ call.cmd = calls[k].cmd
           \/ deployment.slots = 1 =>
                Running = {} /\ ~Ledger!Remembered(call.cmd)
  PROVE  SvcInv' /\ UNCHANGED vars
<1>1. UNCHANGED vars
  BY DEF ledger, vars
<1>2. IInv'
  BY <1>1, NextIInv DEF SvcInv
<1>3. CreatesApart(deployment)' /\ Tables'
  BY DEF SvcInv, CreatesApart, Tables, ledger
<1>4. DOMAIN calls' = Calls /\ calls'[k] = call
      /\ \A j \in Calls \ {k} : calls'[j] = calls[j]
  BY DEF SvcInv
<1>5. ASSUME NEW j \in Calls
      PROVE  Sound(calls[j])'
  <2>1. PICK c : c = calls'[j]
    OBVIOUS
  <2>2. Sound(c)
    BY <1>4, <2>1 DEF SvcInv
  <2>3. Sound(c)'
    BY <2>2, SoundKept
  <2>. QED
    BY <2>1, <2>3
<1>6. OneAtATime'
  BY <1>4 DEF SvcInv, OneAtATime, Running, Ledger!Remembered, ledger
<1>. QED
  BY <1>1, <1>2, <1>3, <1>4, <1>5, <1>6 DEF SvcInv

(* Whatever a call is answered, the ledger is as it was.                   *)
LEMMA Answered ==
  ASSUME SvcInv, NEW k \in Calls, NEW answer, Answer(k, answer),
         UNCHANGED <<deployment, ledger, clock, sent>>
  PROVE  SvcInv' /\ UNCHANGED vars
<1>1. Stated'
  BY DEF SvcInv, Stated
<1>. QED
  BY <1>1, IdleIsSound, OneCallMoves DEF Answer, Serving

LEMMA Step_Submit ==
  ASSUME SvcInv, NEW k \in Calls, NEW t \in deployment.templates, Submit(k, t)
  PROVE  SvcInv' /\ UNCHANGED vars
<1>1. PICK expected \in Statable(t) :
        /\ sent' = [sent EXCEPT ![t] = expected]
        /\ calls' = [calls EXCEPT ![k] =
             [Idle(Nil) EXCEPT !.pc = "queued", !.now = clock,
                !.cmd = [id |-> t.id, request |-> t.request,
                         expected |-> expected]]]
  BY DEF Submit
<1>. DEFINE cmd == [id |-> t.id, request |-> t.request, expected |-> expected]
            call == [pc |-> "queued", cmd |-> cmd, now |-> clock,
                     seen |-> Nil, prepared |-> Nil, answer |-> Nil]
<1>2. UNCHANGED <<deployment, ledger, clock>>
  BY DEF Submit
<1>3. /\ t.id \in CommandIds /\ t.request \in Requests
      /\ t = [id |-> t.id, request |-> t.request]
  BY DeploymentsAssumption DEF SvcInv, Stated
<1>4. expected \in Nat /\ (t.request.op \in Transitions => expected # 0)
  <2>1. sent[t] \in Maybe(Nat) /\ (t.request.op \in Transitions => sent[t] # 0)
    BY DEF SvcInv, Stated
  <2>2. CASE sent[t] # Nil
    BY <2>1, <2>2 DEF Statable, Maybe
  <2>3. CASE sent[t] = Nil
    <3>1. t.request.target \in Resources
      BY <1>3, RequestFields DEF Resources, Requests, Transitions
    <3>2. revision[t.request.target] \in Nat
      BY <3>1 DEF SvcInv, Tables
    <3>. QED
      BY <2>3, <3>2 DEF Statable
  <2>. QED
    BY <2>2, <2>3
<1>5. Stated'
  BY <1>1, <1>2, <1>4 DEF SvcInv, Stated, Maybe
<1>6. call.pc = "queued" /\ call.cmd = cmd /\ call.now = clock
      /\ call.answer = Nil /\ Recorded(call)
  BY DEF Recorded
<1>7. Sound(call)
  <2>1. clock \in 0..clock
    BY DEF SvcInv, IInv, TypeOK
  <2>. QED
    BY <1>3, <1>4, <1>6, <2>1
       DEF Sound, WellFormed, Asked, CreateHolds, TransitionHolds, Serving
<1>8. calls' = [calls EXCEPT ![k] = call]
  <2>. DEFINE queued == [Idle(Nil) EXCEPT !.pc = "queued"]
              timed == [queued EXCEPT !.now = clock]
  <2>1. queued = [pc |-> "queued", cmd |-> Nil, now |-> 0, seen |-> Nil,
                  prepared |-> Nil, answer |-> Nil]
    BY DEF Idle
  <2>. HIDE DEF queued
  <2>2. timed = [pc |-> "queued", cmd |-> Nil, now |-> clock, seen |-> Nil,
                 prepared |-> Nil, answer |-> Nil]
    BY <2>1
  <2>. HIDE DEF timed
  <2>3. [timed EXCEPT !.cmd = cmd] = call
    BY <2>2
  <2>4. [Idle(Nil) EXCEPT !.pc = "queued", !.now = clock, !.cmd = cmd]
          = [timed EXCEPT !.cmd = cmd]
    BY DEF timed, queued
  <2>. QED
    BY <1>1, <2>3, <2>4
<1>. HIDE DEF call
<1>. QED
  BY <1>2, <1>5, <1>6, <1>7, <1>8, OneCallMoves DEF Serving

(* The replay check lets a call run whose command has not committed.       *)
LEMMA Step_Start ==
  ASSUME SvcInv, NEW k \in Calls, Start(k)
  PROVE  SvcInv' /\ UNCHANGED vars
<1>1. CASE \E answer : Answer(k, answer)
  BY <1>1, Answered DEF Start
<1>2. CASE calls' = [calls EXCEPT ![k].pc = "admitted"]
           /\ calls[k].cmd.request.actor \in Writers
           /\ ~Ledger!Remembered(calls[k].cmd)
  <2>. DEFINE call == [calls[k] EXCEPT !.pc = "admitted"]
  <2>1. /\ calls[k].pc = "queued" /\ Sound(calls[k])
        /\ UNCHANGED <<deployment, ledger, clock, sent>>
        /\ Cardinality(Running) < deployment.slots
    BY DEF Start, SvcInv
  <2>2. Recorded(calls[k])
    BY <2>1 DEF Sound, WellFormed
  <2>3. /\ call.pc = "admitted" /\ call.cmd = calls[k].cmd
        /\ call.now = calls[k].now /\ call.answer = calls[k].answer
        /\ Recorded(call)
    BY <2>2 DEF Recorded
  <2>4. Sound(call)
    BY <1>2, <2>1, <2>3
       DEF Sound, WellFormed, CreateHolds, TransitionHolds, Serving
  <2>5. deployment.slots = 1 => Running = {}
    <3>. SUFFICES ASSUME deployment.slots = 1, NEW j \in Running
                  PROVE  FALSE
      OBVIOUS
    <3>1. Running = {j}
      BY DEF SvcInv, OneAtATime
    <3>2. Cardinality({j}) = 1
      BY FS_Singleton
    <3>. QED
      BY <2>1, <3>1, <3>2
  <2>6. calls' = [calls EXCEPT ![k] = call] /\ Stated'
    BY <1>2, <2>1 DEF SvcInv, Stated
  <2>. HIDE DEF call
  <2>. QED
    BY <1>2, <2>1, <2>3, <2>4, <2>5, <2>6, OneCallMoves
<1>. QED
  BY <1>1, <1>2 DEF Start, Command, Ledger!Remembered

(* load_record: while the revision stays, so does the record that was read. *)
LEMMA Step_LoadTarget ==
  ASSUME SvcInv, NEW k \in Calls, LoadTarget(k)
  PROVE  SvcInv' /\ UNCHANGED vars
<1>. DEFINE cmd == calls[k].cmd
            target == cmd.request.target
<1>1. /\ calls[k].pc = "admitted" /\ cmd.request.op \in Transitions
      /\ UNCHANGED <<deployment, ledger, clock, sent>>
      /\ Sound(calls[k])
  BY DEF LoadTarget, SvcInv
<1>2. CASE \E answer : Answer(k, answer)
  BY <1>1, <1>2, Answered
<1>3. CASE /\ revision[target] = cmd.expected
           /\ calls' = [calls EXCEPT ![k] =
                [@ EXCEPT !.pc = "loaded", !.seen = docs[target]]]
  <2>. DEFINE call == [pc |-> "loaded", cmd |-> cmd, now |-> calls[k].now,
                       seen |-> docs[target],
                       prepared |-> calls[k].prepared,
                       answer |-> calls[k].answer]
  <2>1. calls' = [calls EXCEPT ![k] = call]
    <3>. DEFINE loaded == [calls[k] EXCEPT !.pc = "loaded"]
    <3>1. loaded = [pc |-> "loaded", cmd |-> cmd, now |-> calls[k].now,
                    seen |-> calls[k].seen, prepared |-> calls[k].prepared,
                    answer |-> calls[k].answer]
      BY <1>1 DEF Sound, WellFormed, Recorded
    <3>2. [calls[k] EXCEPT !.pc = "loaded", !.seen = docs[target]]
            = [loaded EXCEPT !.seen = docs[target]]
      OBVIOUS
    <3>. HIDE DEF loaded
    <3>3. [loaded EXCEPT !.seen = docs[target]] = call
      BY <3>1
    <3>. QED
      BY <1>3, <3>2, <3>3
  <2>2. Sound(call)
    <3>1. revision[target] \in Nat
      BY <1>1, RequestFields
         DEF Sound, WellFormed, Asked, Serving, Resources, SvcInv, Tables
    <3>. QED
      BY <1>1, <1>3, <3>1
         DEF Sound, WellFormed, Recorded, CreateHolds, TransitionHolds, Serving
  <2>3. Stated'
    BY <1>1 DEF SvcInv, Stated
  <2>. QED
    BY <1>1, <2>1, <2>2, <2>3, OneCallMoves DEF Serving
<1>. QED
  BY <1>2, <1>3 DEF LoadTarget

LEMMA Step_CheckAbsent ==
  ASSUME SvcInv, NEW k \in Calls, CheckAbsent(k)
  PROVE  SvcInv' /\ UNCHANGED vars
<1>. DEFINE q == calls[k].cmd.request
<1>1. /\ calls[k].pc = "admitted" /\ q.op \notin Transitions
      /\ UNCHANGED <<deployment, ledger, clock, sent>>
      /\ Sound(calls[k])
  BY DEF CheckAbsent, SvcInv
<1>2. CASE \E answer : Answer(k, answer)
  BY <1>1, <1>2, Answered
<1>3. CASE ~Present(q.target) /\ calls' = [calls EXCEPT ![k].pc = "loaded"]
  <2>. DEFINE call == [calls[k] EXCEPT !.pc = "loaded"]
  <2>1. /\ call.pc = "loaded" /\ call.cmd = calls[k].cmd
        /\ call.now = calls[k].now /\ call.answer = calls[k].answer
        /\ Recorded(call)
    BY <1>1 DEF Sound, WellFormed, Recorded
  <2>2. Sound(call)
    BY <1>1, <1>3, <2>1
       DEF Sound, WellFormed, CreateHolds, TransitionHolds, Serving
  <2>3. calls' = [calls EXCEPT ![k] = call] /\ Stated'
    BY <1>1, <1>3 DEF SvcInv, Stated
  <2>. HIDE DEF call
  <2>. QED
    BY <1>1, <2>1, <2>2, <2>3, OneCallMoves DEF Serving
<1>. QED
  BY <1>2, <1>3 DEF CheckAbsent

(* The decision is the abstract one while the revision stays.              *)
LEMMA Step_Decide ==
  ASSUME SvcInv, NEW k \in Calls, Decide(k)
  PROVE  SvcInv' /\ UNCHANGED vars
<1>. DEFINE q == calls[k].cmd.request
            decision == DecisionOn(calls[k])
<1>1. /\ calls[k].pc = "loaded"
      /\ UNCHANGED <<deployment, ledger, clock, sent>>
      /\ Sound(calls[k])
  BY DEF Decide, SvcInv
<1>2. CASE \E answer : Answer(k, answer)
  BY <1>1, <1>2, Answered
<1>3. CASE /\ decision.allowed
           /\ calls' = [calls EXCEPT ![k] =
                [@ EXCEPT !.pc = "prepared", !.seen = Nil,
                          !.prepared = decision.document]]
  <2>. DEFINE call == [pc |-> "prepared", cmd |-> calls[k].cmd,
                       now |-> calls[k].now, seen |-> Nil,
                       prepared |-> decision.document,
                       answer |-> calls[k].answer]
  <2>1. calls' = [calls EXCEPT ![k] = call]
    <3>. DEFINE first == [calls[k] EXCEPT !.pc = "prepared"]
                second == [first EXCEPT !.seen = Nil]
    <3>1. first = [pc |-> "prepared", cmd |-> calls[k].cmd,
                   now |-> calls[k].now, seen |-> calls[k].seen,
                   prepared |-> calls[k].prepared,
                   answer |-> calls[k].answer]
      BY <1>1 DEF Sound, WellFormed, Recorded
    <3>2. [calls[k] EXCEPT !.pc = "prepared", !.seen = Nil,
                           !.prepared = decision.document]
            = [second EXCEPT !.prepared = decision.document]
      OBVIOUS
    <3>. HIDE DEF first
    <3>3. second = [pc |-> "prepared", cmd |-> calls[k].cmd,
                    now |-> calls[k].now, seen |-> Nil,
                    prepared |-> calls[k].prepared,
                    answer |-> calls[k].answer]
      BY <3>1
    <3>. HIDE DEF second, decision
    <3>4. [second EXCEPT !.prepared = decision.document] = call
      BY <3>3
    <3>. QED
      BY <1>3, <3>2, <3>4 DEF decision
  <2>2. /\ q.op \notin Transitions =>
             /\ CreatePermits(q)
             /\ decision.document = Written(q, calls[k].now)
        /\ q.op \in Transitions =>
             /\ TransitionAllowed(q, calls[k].seen, calls[k].now)
             /\ decision.document =
                  Transitioned(q, calls[k].seen, calls[k].now)
    BY <1>3 DEF DecisionOn
  <2>3. Sound(call)
    <3>. HIDE DEF decision
    <3>. QED
      BY <1>1, <2>2
         DEF Sound, WellFormed, Recorded, CreateHolds, TransitionHolds, Serving
  <2>4. Stated'
    BY <1>1 DEF SvcInv, Stated
  <2>. HIDE DEF decision
  <2>. QED
    BY <1>1, <2>1, <2>3, <2>4, OneCallMoves DEF Serving
<1>. QED
  BY <1>2, <1>3 DEF Decide

(* The rows of a command transaction that matter here.                     *)
LEMMA CommitWrites ==
  ASSUME NEW cmd, NEW document, Ledger!Commit(Command(cmd, document))
  PROVE  /\ ~Ledger!Remembered(cmd)
         /\ cmd.expected = 0 \/ revision[cmd.request.target] = cmd.expected
         /\ revision' = [revision EXCEPT ![cmd.request.target] =
                           revision[cmd.request.target] + 1]
         /\ docs' = [docs EXCEPT ![cmd.request.target] = document]
         /\ \E receipt : /\ receipts' = [receipts EXCEPT ![cmd.id] = receipt]
                         /\ receipt.actor = cmd.request.actor
                         /\ receipt = [actor |-> cmd.request.actor,
                              fingerprint |-> [request |-> cmd.request,
                                               expected |-> cmd.expected],
                              resource |-> cmd.request.target,
                              seq |-> next_seq + 1,
                              revision |-> revision[cmd.request.target] + 1]
<1>. DEFINE c == Command(cmd, document)
<1>1. /\ c.id = cmd.id /\ c.resource = cmd.request.target
      /\ c.expected = cmd.expected /\ c.document = document
      /\ c.actor = cmd.request.actor
      /\ c.fingerprint = [request |-> cmd.request, expected |-> cmd.expected]
  BY DEF Command
<1>2. Ledger!Commit(c)
  OBVIOUS
<1>. HIDE DEF c
<1>3. /\ ~Ledger!Remembered(cmd)
      /\ cmd.expected = 0 \/ revision[cmd.request.target] = cmd.expected
  BY <1>1, <1>2 DEF Ledger!Commit, Ledger!Remembered, Ledger!RevisionMatches
<1>4. /\ revision' = [revision EXCEPT ![cmd.request.target] =
                        revision[cmd.request.target] + 1]
      /\ docs' = [docs EXCEPT ![cmd.request.target] = document]
  BY <1>1, <1>2 DEF Ledger!Commit, Ledger!WriteRows
<1>. DEFINE receipt ==
       [actor |-> cmd.request.actor,
        fingerprint |-> [request |-> cmd.request, expected |-> cmd.expected],
        resource |-> cmd.request.target, seq |-> next_seq + 1,
        revision |-> revision[cmd.request.target] + 1]
<1>5. receipts' = [receipts EXCEPT ![cmd.id] = receipt]
  BY <1>1, <1>2 DEF Ledger!Commit, Ledger!WriteRows
<1>6. receipt.actor = cmd.request.actor
  OBVIOUS
<1>. QED
  BY <1>3, <1>4, <1>5, <1>6

(* A command transaction performs the request indivisibly: what the call   *)
(* found out in its earlier store calls holds when the transaction starts. *)
LEMMA CommitPerforms ==
  ASSUME SvcInv, NEW k \in Calls, calls[k].pc = "prepared", UNCHANGED clock,
         Ledger!Commit(Command(calls[k].cmd, calls[k].prepared))
  PROVE  /\ calls[k].cmd.request \in Requests
         /\ calls[k].now \in 0..clock
         /\ Perform(calls[k].cmd.request, calls[k].now)
<1>. DEFINE call == calls[k]
            q == call.cmd.request
<1>1. Sound(call)
  BY DEF SvcInv
<1>2. /\ q \in Requests /\ call.now \in 0..clock /\ q.actor \in Writers
      /\ q.op \in Transitions => call.cmd.expected # 0
      /\ call.cmd.expected \in Nat
  BY <1>1 DEF Sound, WellFormed, Asked, Serving
<1>3. /\ ~Ledger!Remembered(call.cmd)
      /\ call.cmd.expected = 0 \/ revision[q.target] = call.cmd.expected
      /\ docs' = [docs EXCEPT ![q.target] = call.prepared]
  BY CommitWrites
<1>4. CASE q.op \notin Transitions
  <2>1. /\ ~Present(q.target) /\ CreatePermits(q)
        /\ call.prepared = Written(q, call.now)
    BY <1>1, <1>3, <1>4 DEF Sound, CreateHolds
  <2>. QED
    BY <1>2, <1>3, <1>4, <2>1 DEF Perform, Permits
<1>5. CASE q.op \in Transitions
  <2>1. /\ TransitionAllowed(q, docs[q.target], call.now)
        /\ call.prepared = Transitioned(q, docs[q.target], call.now)
    BY <1>1, <1>2, <1>3, <1>5 DEF Sound, TransitionHolds
  <2>2. Present(q.target)
    <3>1. q.target \in Resources
      BY <1>2, <1>5, RequestFields DEF Resources
    <3>. QED
      BY <1>2, <1>3, <1>5, <3>1 DEF SvcInv, Tables, Present
  <2>3. Written(q, call.now) = Transitioned(q, docs[q.target], call.now)
    BY <1>5 DEF Written, Transitions
  <2>. QED
    BY <1>2, <1>3, <1>5, <2>1, <2>2, <2>3
       DEF Perform, Permits, TransitionPermits
<1>. QED
  BY <1>2, <1>4, <1>5

(* Every request writes a document.                                        *)
LEMMA WritesPresent ==
  ASSUME IInv, NEW q \in Requests, NEW now \in 0..clock, Perform(q, now)
  PROVE  q.target \in Resources /\ docs'[q.target] # Nil
<1>1. CASE q.op \in Transitions
  <2>1. q.target \in Handoffs /\ Present(q.target)
    BY <1>1, TransitionFollows
  <2>. QED
    BY <2>1, PerformStep DEF Resources
<1>2. CASE q.op \notin Transitions
  <2>1. q.target \in Resources /\ docs'[q.target] \in Documents
    BY <1>2, CreateStep DEF Resources, Documents
  <2>. QED
    BY <2>1, NilIsNoDocument
<1>. QED
  BY <1>1, <1>2

(* What another call has found out survives a command transaction: the     *)
(* documents it depends on are immutable, or their revision moves.         *)
LEMMA OthersStaySound ==
  ASSUME SvcInv, NEW k \in Calls, calls[k].pc = "prepared",
         UNCHANGED <<deployment, clock>>,
         Ledger!Commit(Command(calls[k].cmd, calls[k].prepared)),
         NEW j \in Calls \ {k}, NEW c, c = calls[j],
         \A id \in CommandIds : receipts[id] # Nil => receipts'[id] # Nil,
         receipts'[calls[k].cmd.id] # Nil
  PROVE  Sound(c)'
<1>. DEFINE q == c.cmd.request
            p == calls[k].cmd.request
<1>1. Sound(c) /\ Sound(calls[k])
  BY DEF SvcInv
<1>2. WellFormed(c)'
  BY <1>1 DEF Sound, WellFormed, Recorded, Asked
<1>. SUFFICES ASSUME c.pc # "idle"
              PROVE  CreateHolds(c)' /\ TransitionHolds(c)'
  BY <1>2 DEF Sound
<1>3. /\ q \in Requests /\ c.cmd.id \in CommandIds /\ c.cmd.expected \in Nat
      /\ [id |-> c.cmd.id, request |-> q] \in deployment.templates
      /\ CreateHolds(c) /\ TransitionHolds(c)
  BY <1>1 DEF Sound, WellFormed, Asked
<1>4. /\ p \in Requests /\ calls[k].now \in 0..clock /\ Perform(p, calls[k].now)
      /\ [id |-> calls[k].cmd.id, request |-> p] \in deployment.templates
  BY <1>1, CommitPerforms DEF Sound, WellFormed, Asked
<1>5. /\ p.target \in Resources
      /\ \A r \in Resources : r # p.target =>
           docs'[r] = docs[r] /\ revision'[r] = revision[r]
      /\ revision'[p.target] = revision[p.target] + 1
      /\ revision[p.target] \in Nat
  BY <1>4, CommitWrites, OneDocumentWritten DEF SvcInv, IInv, Tables
<1>6. \A r \in Resources \ Handoffs : Present(r) => docs'[r] = docs[r]
  BY <1>4, PerformStep DEF SvcInv
<1>7. CASE q.op \notin Transitions
  <2>1. q.target \in Resources
    BY <1>3, <1>7, RequestFields DEF Requests, Resources, Transitions
  <2>2. ASSUME c.pc \in {"loaded", "prepared"}
        PROVE  Ledger!Remembered(c.cmd)' \/ ~Present(q.target)'
    <3>1. CASE Ledger!Remembered(c.cmd)
      BY <1>3, <3>1 DEF Ledger!Remembered
    <3>2. CASE ~Ledger!Remembered(c.cmd) /\ p.target # q.target
      BY <1>3, <1>5, <1>7, <2>1, <2>2, <3>2 DEF CreateHolds, Present
    <3>3. CASE ~Ledger!Remembered(c.cmd) /\ p.target = q.target
      <4>1. ~Present(q.target)
        BY <1>3, <1>7, <2>2, <3>3 DEF CreateHolds
      <4>2. p.op \notin Transitions
        BY <1>4, <3>3, <4>1 DEF Perform, Permits, TransitionPermits
      <4>3. deployment.slots # 1
        BY <2>2 DEF SvcInv, OneAtATime, Running, Serving
      <4>. DEFINE t == [id |-> c.cmd.id, request |-> q]
                  u == [id |-> calls[k].cmd.id, request |-> p]
      <4>4. t.id = u.id
        <5>1. t \in deployment.templates /\ u \in deployment.templates
          BY <1>3, <1>4
        <5>2. /\ t.request.op \notin Transitions
              /\ u.request.op \notin Transitions
              /\ t.request.target = u.request.target
          BY <1>7, <3>3, <4>2
        <5>. HIDE DEF t, u
        <5>. QED
          BY <4>3, <5>1, <5>2 DEF SvcInv, CreatesApart
      <4>. QED
        BY <4>4 DEF Ledger!Remembered
    <3>. QED
      BY <3>1, <3>2, <3>3
  <2>3. ASSUME c.pc = "prepared"
        PROVE  CreatePermits(q)' /\ c.prepared = Written(q, c.now)'
    <3>1. CreatePermits(q) /\ c.prepared = Written(q, c.now)
      BY <1>3, <1>7, <2>3 DEF CreateHolds
    <3>2. q.op \in {"session.create", "fact.create", "handoff_context.create",
                    "handoff.send"}
      BY <1>3, <1>7 DEF Requests, Transitions
    <3>3. Written(q, c.now)' = Written(q, c.now)
      BY <3>2 DEF Written, NewHandoff
    <3>4. \A r \in Sessions \cup Contexts : Present(r) => docs'[r] = docs[r]
      BY <1>6, KindsAssumption DEF Resources
    <3>5. CreatePermits(q)'
      BY <1>3, <3>1, <3>4, RequestFields
         DEF CreatePermits, FactPermits, ContextPermits, SendPermits, Present,
             Maybe
    <3>. QED
      BY <3>1, <3>3, <3>5
  <2>4. CreateHolds(c)'
    BY <2>2, <2>3 DEF CreateHolds
  <2>5. TransitionHolds(c)'
    BY <1>7 DEF TransitionHolds
  <2>. QED
    BY <2>4, <2>5
<1>8. CASE q.op \in Transitions
  <2>1. q.target \in Resources
    <3>1. q \in Requests /\ q.op \in Transitions
      BY <1>3, <1>8
    <3>. HIDE DEF q
    <3>2. q.target \in Handoffs
      BY <3>1, RequestFields
    <3>. QED
      BY <3>2 DEF Resources
  <2>2. revision[q.target] \in Nat /\ revision'[q.target] >= revision[q.target]
    BY <1>5, <2>1 DEF SvcInv, Tables
  <2>3. ASSUME c.pc \in {"loaded", "prepared"},
               revision'[q.target] = c.cmd.expected
        PROVE  /\ revision[q.target] = c.cmd.expected
               /\ docs'[q.target] = docs[q.target]
    <3>1. revision[q.target] >= c.cmd.expected
      BY <1>3, <1>8, <2>3 DEF TransitionHolds
    <3>2. p.target # q.target
      BY <1>3, <1>5, <2>2, <2>3, <3>1
    <3>. QED
      BY <1>5, <2>1, <2>3, <3>2
  <2>4. ASSUME c.pc = "prepared", revision'[q.target] = c.cmd.expected
        PROVE  /\ TransitionAllowed(q, docs[q.target], c.now)'
               /\ c.prepared = Transitioned(q, docs[q.target], c.now)'
    <3>1. /\ TransitionAllowed(q, docs[q.target], c.now)
          /\ c.prepared = Transitioned(q, docs[q.target], c.now)
          /\ docs'[q.target] = docs[q.target]
      BY <1>3, <1>8, <2>3, <2>4 DEF TransitionHolds
    <3>2. \A f \in Facts : Present(f) => docs'[f] = docs[f]
      BY <1>6, KindsAssumption DEF Resources
    <3>3. c.prepared = Transitioned(q, docs[q.target], c.now)'
      BY <3>1
    <3>4. TransitionAllowed(q, docs[q.target], c.now)'
      BY <1>3, <3>1, <3>2, RequestFields DEF TransitionAllowed, Present
    <3>. QED
      BY <3>3, <3>4
  <2>5. c.pc \in {"loaded", "prepared"} => revision'[q.target] >= c.cmd.expected
    BY <1>3, <1>5, <1>8, <2>1, <2>2 DEF TransitionHolds, SvcInv, Tables
  <2>6. c.pc = "loaded" /\ revision'[q.target] = c.cmd.expected
          => c.seen = docs'[q.target]
    BY <1>3, <1>8, <2>3 DEF TransitionHolds
  <2>. QED
    BY <1>8, <2>4, <2>5, <2>6 DEF TransitionHolds, CreateHolds
<1>. QED
  BY <1>7, <1>8, <1>3 DEF CreateHolds, TransitionHolds

(* execute_with_body is where a call takes effect.                         *)
LEMMA Step_Commit ==
  ASSUME SvcInv, NEW k \in Calls, NEW answer, calls[k].pc = "prepared",
         Ledger!Commit(Command(calls[k].cmd, calls[k].prepared)),
         Answer(k, answer), UNCHANGED <<deployment, clock, sent>>
  PROVE  SvcInv' /\ Next
<1>. DEFINE cmd == calls[k].cmd
            q == cmd.request
<1>1. q \in Requests /\ calls[k].now \in 0..clock /\ Perform(q, calls[k].now)
  BY CommitPerforms
<1>2. Next
  BY <1>1 DEF Next
<1>3. IInv'
  BY <1>2, NextIInv DEF SvcInv
<1>4. q.actor \in Writers /\ cmd.id \in CommandIds
  BY DEF SvcInv, Sound, WellFormed, Asked, Serving
<1>5. PICK receipt : /\ receipts' = [receipts EXCEPT ![cmd.id] = receipt]
                     /\ receipt.actor = q.actor
                     /\ receipt = [actor |-> q.actor,
                          fingerprint |-> [request |-> q,
                                           expected |-> cmd.expected],
                          resource |-> q.target, seq |-> next_seq + 1,
                          revision |-> revision[q.target] + 1]
  BY CommitWrites
<1>6. /\ revision' = [revision EXCEPT ![q.target] = revision[q.target] + 1]
      /\ docs' = [docs EXCEPT ![q.target] = calls[k].prepared]
  BY CommitWrites
<1>7. receipts'[cmd.id] = receipt /\ DOMAIN receipts' = CommandIds
      /\ \A id \in CommandIds \ {cmd.id} : receipts'[id] = receipts[id]
  BY <1>4, <1>5 DEF SvcInv, Tables
<1>8. Tables'
  <2>1. q.target \in Resources /\ docs'[q.target] # Nil
    BY <1>1, WritesPresent DEF SvcInv
  <2>2. revision[q.target] \in Nat /\ revision \in [Resources -> Nat]
    BY <2>1 DEF SvcInv, Tables
  <2>3. revision' \in [Resources -> Nat] /\ revision'[q.target] # 0
    BY <1>6, <2>1, <2>2
  <2>4. \A r \in Resources : revision'[r] = 0 <=> docs'[r] = Nil
    <3>. TAKE r \in Resources
    <3>1. CASE r = q.target
      BY <2>1, <2>3, <3>1
    <3>2. CASE r # q.target
      BY <1>6, <2>2, <3>2 DEF SvcInv, IInv, TypeOK, Tables
    <3>. QED
      BY <3>1, <3>2
  <2>5. \A id \in CommandIds :
          receipts'[id] # Nil => receipts'[id].actor \in Writers
    <3>. TAKE id \in CommandIds
    <3>1. CASE id = cmd.id
      BY <1>4, <1>5, <1>7, <3>1
    <3>2. CASE id # cmd.id
      BY <1>7, <3>2 DEF SvcInv, Tables
    <3>. QED
      BY <3>1, <3>2
  <2>6. next_seq' \in Nat
    BY DEF SvcInv, Tables, Ledger!Commit, Ledger!WriteRows
  <2>. QED
    BY <1>7, <2>3, <2>4, <2>5, <2>6 DEF Tables
<1>9. receipt # Nil
  <2>1. q.target \in Resources /\ q.actor \in Actors
    BY <1>1, RequestFields, WritesPresent DEF SvcInv
  <2>2. [request |-> q, expected |-> cmd.expected] \in Fingerprints
    BY <1>1 DEF SvcInv, Sound, WellFormed, Asked, Fingerprints
  <2>3. next_seq + 1 \in Nat
    BY DEF SvcInv, Tables
  <2>4. revision[q.target] + 1 \in Nat
    BY <2>1 DEF SvcInv, Tables
  <2>5. receipt \in Ledger!Receipts
    BY <1>5, <2>1, <2>2, <2>3, <2>4 DEF Ledger!Receipts
  <2>. QED
    BY <2>5, NilIsNeither
<1>10. \A id \in CommandIds : receipts[id] # Nil => receipts'[id] # Nil
  BY <1>7, <1>9
<1>11. DOMAIN calls' = Calls /\ calls'[k] = Idle(answer)
       /\ \A j \in Calls \ {k} : calls'[j] = calls[j]
  BY DEF SvcInv, Answer
<1>12. ASSUME NEW j \in Calls
       PROVE  Sound(calls[j])'
  <2>1. PICK c : c = calls'[j]
    OBVIOUS
  <2>2. CASE j = k
    BY <1>11, <2>2, IdleIsSound
  <2>3. CASE j # k
    <3>1. c = calls[j] /\ receipts'[calls[k].cmd.id] # Nil
      BY <1>7, <1>9, <1>11, <2>1, <2>3
    <3>2. Sound(c)'
      BY <1>10, <2>3, <3>1, OthersStaySound
    <3>. QED
      BY <2>1, <3>2
  <2>. QED
    BY <2>2, <2>3
<1>13. OneAtATime'
  <2>1. deployment.slots = 1 => Running' = {}
    <3>1. Idle(answer).pc \notin Serving /\ k \in Running
      BY IdleIsSound DEF Serving, Running
    <3>2. ASSUME deployment.slots = 1, NEW j \in Running' PROVE FALSE
      BY <1>11, <3>1, <3>2 DEF Running, SvcInv, OneAtATime
    <3>. QED
      BY <3>2
  <2>. QED
    BY <2>1 DEF OneAtATime
<1>14. CreatesApart(deployment)' /\ Stated'
  BY DEF SvcInv, CreatesApart, Stated
<1>. QED
  BY <1>2, <1>3, <1>8, <1>11, <1>12, <1>13, <1>14 DEF SvcInv

(* A replayed, conflicting or stale command leaves the ledger alone.       *)
LEMMA Step_Execute ==
  ASSUME SvcInv, NEW k \in Calls, Execute(k)
  PROVE  SvcInv' /\ [Next]_vars
<1>1. CASE \E answer : Answer(k, answer) /\ UNCHANGED ledger
  BY <1>1, Answered DEF Execute
<1>2. CASE /\ Ledger!Commit(Command(calls[k].cmd, calls[k].prepared))
           /\ \E answer : Answer(k, answer)
  BY <1>2, Step_Commit DEF Execute
<1>. QED
  BY <1>1, <1>2 DEF Execute

(* A restart forgets the calls and nothing else.                           *)
LEMMA Step_Crash ==
  ASSUME SvcInv, Crash
  PROVE  SvcInv' /\ UNCHANGED vars
<1>1. UNCHANGED vars /\ UNCHANGED <<deployment, ledger, clock, sent>>
  BY DEF Crash, ledger, vars
<1>2. IInv'
  BY <1>1, NextIInv DEF SvcInv
<1>3. CreatesApart(deployment)' /\ Tables' /\ Stated'
  BY <1>1 DEF SvcInv, CreatesApart, Tables, ledger, Stated
<1>4. DOMAIN calls' = Calls /\ \A k \in Calls : calls'[k] = Idle(Nil)
  BY DEF Crash
<1>5. ASSUME NEW k \in Calls
      PROVE  Sound(calls[k])'
  BY <1>4, IdleIsSound
<1>6. OneAtATime'
  BY <1>4, IdleIsSound DEF OneAtATime, Running, Serving
<1>. QED
  BY <1>1, <1>2, <1>3, <1>4, <1>5, <1>6 DEF SvcInv

(* A call decides with the time it read, however late.                     *)
LEMMA Step_Tick ==
  ASSUME SvcInv, SvcTick
  PROVE  SvcInv' /\ Next
<1>1. Next /\ UNCHANGED <<deployment, ledger, sent, calls>> /\ clock' = clock + 1
  BY DEF SvcTick, Next, Tick, ledger
<1>2. IInv' /\ clock \in Nat
  BY <1>1, NextIInv DEF SvcInv, IInv, TypeOK
<1>3. CreatesApart(deployment)' /\ Tables' /\ Stated' /\ OneAtATime'
  BY <1>1 DEF SvcInv, CreatesApart, Tables, ledger, Stated, OneAtATime,
              Running, Ledger!Remembered
<1>4. ASSUME NEW k \in Calls
      PROVE  Sound(calls[k])'
  <2>1. PICK c : c = calls'[k] /\ c = calls[k]
    BY <1>1
  <2>2. Sound(c)
    BY <2>1 DEF SvcInv
  <2>3. 0..clock \subseteq 0..clock'
    BY <1>1, <1>2
  <2>4. WellFormed(c)'
    BY <1>1, <2>2, <2>3 DEF Sound, WellFormed, Recorded, Asked
  <2>5. c.pc # "idle" => CreateHolds(c)' /\ TransitionHolds(c)'
    BY <1>1, <2>2
       DEF Sound, CreateHolds, TransitionHolds, ledger, Ledger!Remembered,
           Present, CreatePermits, FactPermits, ContextPermits, SendPermits,
           TransitionAllowed, Written
  <2>. QED
    BY <2>1, <2>4, <2>5 DEF Sound
<1>. QED
  BY <1>1, <1>2, <1>3, <1>4 DEF SvcInv

LEMMA InitSvcInv == SvcInit /\ CreatesApart(deployment) => SvcInv
<1>. SUFFICES ASSUME SvcInit, CreatesApart(deployment)
              PROVE  SvcInv
  OBVIOUS
<1>1. IInv
  BY InitIInv DEF SvcInit
<1>2. Tables
  BY DEF SvcInit, Init, Ledger!Init, Tables
<1>3. Stated
  BY NilAssumption DEF SvcInit, Stated, Maybe
<1>4. DOMAIN calls = Calls /\ \A k \in Calls : calls[k] = Idle(Nil)
  BY DEF SvcInit
<1>5. OneAtATime /\ \A k \in Calls : Sound(calls[k])
  BY <1>4, IdleIsSound DEF OneAtATime, Running, Serving
<1>. QED
  BY <1>1, <1>2, <1>3, <1>4, <1>5 DEF SvcInv

(* Every step of the handlers performs at most one request, indivisibly.   *)
LEMMA NextSvcInv ==
  ASSUME SvcInv, [SvcNext]_svcVars
  PROVE  SvcInv' /\ [Next]_vars
<1>1. CASE UNCHANGED svcVars
  <2>1. UNCHANGED <<deployment, ledger, clock, sent, calls>> /\ UNCHANGED vars
    BY <1>1 DEF svcVars, ledger, vars
  <2>2. IInv'
    BY <2>1, NextIInv DEF SvcInv
  <2>3. \A k \in Calls : Sound(calls[k])'
    <3>. TAKE k \in Calls
    <3>1. PICK c : c = calls'[k] /\ c = calls[k]
      BY <2>1
    <3>. QED
      BY <2>1, <3>1, SoundKept DEF SvcInv
  <2>4. OneAtATime'
    BY <2>1 DEF SvcInv, OneAtATime, Running, Ledger!Remembered, ledger
  <2>. QED
    BY <2>1, <2>2, <2>3, <2>4
       DEF SvcInv, CreatesApart, Tables, Stated, ledger
<1>2. ASSUME NEW k \in Calls, NEW t \in deployment.templates, Submit(k, t)
      PROVE  SvcInv' /\ [Next]_vars
  BY <1>2, Step_Submit
<1>3. ASSUME NEW k \in Calls, Start(k)
      PROVE  SvcInv' /\ [Next]_vars
  BY <1>3, Step_Start
<1>4. ASSUME NEW k \in Calls, Saturate(k) \/ Fail(k)
      PROVE  SvcInv' /\ [Next]_vars
  BY <1>4, Answered DEF Saturate, Fail
<1>5. ASSUME NEW k \in Calls, LoadTarget(k)
      PROVE  SvcInv' /\ [Next]_vars
  BY <1>5, Step_LoadTarget
<1>6. ASSUME NEW k \in Calls, CheckAbsent(k)
      PROVE  SvcInv' /\ [Next]_vars
  BY <1>6, Step_CheckAbsent
<1>7. ASSUME NEW k \in Calls, Decide(k)
      PROVE  SvcInv' /\ [Next]_vars
  BY <1>7, Step_Decide
<1>8. ASSUME NEW k \in Calls, Execute(k)
      PROVE  SvcInv' /\ [Next]_vars
  BY <1>8, Step_Execute
<1>9. CASE Crash
  BY <1>9, Step_Crash
<1>10. CASE SvcTick
  BY <1>10, Step_Tick
<1>. QED
  BY <1>1, <1>2, <1>3, <1>4, <1>5, <1>6, <1>7, <1>8, <1>9, <1>10 DEF SvcNext

(* The store calls of every interleaving of requests, retries and restarts *)
(* come to indivisible requests (product.rs over store.rs), for every      *)
(* number of slots and every set of commands, provided no two commands     *)
(* that may create one resource run on different slots.                    *)
THEOREM ServiceImplementsHandoff ==
  SvcSpec /\ CreatesApart(deployment) => ImplementsHandoff
<1>1. SvcInit => Init
  BY DEF SvcInit
<1>2. SvcInit /\ CreatesApart(deployment) => SvcInv
  BY InitSvcInv
<1>3. SvcInv /\ [SvcNext]_svcVars => SvcInv' /\ [Next]_vars
  BY NextSvcInv
<1>. QED
  BY <1>1, <1>2, <1>3, PTL DEF SvcSpec, Spec, ImplementsHandoff

(* No interleaving of the handlers completes a handoff without a fact of   *)
(* the receiver in its session (validate_result_fact).                     *)
THEOREM ServiceNeedsEvidence ==
  SvcSpec /\ CreatesApart(deployment) => []CompletedHasEvidence
  BY ServiceImplementsHandoff, CompletionNeedsEvidence, PTL
     DEF ImplementsHandoff

(* A live claim stays exclusive although its handlers read the clock and   *)
(* the record before they commit (accept_handoff, heartbeat_handoff).      *)
THEOREM ServiceKeepsClaims ==
  SvcSpec /\ CreatesApart(deployment) => LiveClaimExclusive
  BY ServiceImplementsHandoff, ClaimsAreExclusive, PTL
     DEF ImplementsHandoff

(* On one slot a refused command has not taken effect, and will not in the *)
(* same call: the replay check and the command transaction agree           *)
(* (CommandService::replay, execute_with_body).                            *)
THEOREM RefusalsAreTrue == SvcSpec => RefusedHadNoEffect
<1>. DEFINE Inv == deployment.slots = 1 => SvcInv
            NoEffect == \A k \in Calls :
                          /\ deployment.slots = 1
                          /\ calls[k].pc # "idle"
                          /\ calls'[k].answer \in Refusals
                          => ~Ledger!Replays(Command(calls[k].cmd, Nil))
<1>1. SvcInit => Inv
  BY InitSvcInv DEF CreatesApart
<1>2. Inv /\ [SvcNext]_svcVars => Inv'
  <2>1. [SvcNext]_svcVars => deployment' = deployment
    BY DEF SvcNext, svcVars, Submit, Start, Saturate, LoadTarget, CheckAbsent,
           Decide, Execute, Fail, Crash, SvcTick
  <2>. QED
    BY <2>1, NextSvcInv
<1>3. Inv /\ [SvcNext]_svcVars => [NoEffect]_svcVars
  <2>. SUFFICES ASSUME SvcInv, SvcNext, deployment.slots = 1, NEW k \in Calls,
                       calls[k].pc # "idle", calls'[k].answer \in Refusals
                PROVE  ~Ledger!Replays(Command(calls[k].cmd, Nil))
    OBVIOUS
  <2>. DEFINE c == Command(calls[k].cmd, Nil)
  <2>1. /\ c.id = calls[k].cmd.id /\ c.actor = calls[k].cmd.request.actor
        /\ c.id \in CommandIds
    BY DEF Command, SvcInv, Sound, WellFormed, Asked
  <2>2. calls[k].pc \notin Serving => Start(k)
    <3>1. calls[k].answer = Nil /\ DOMAIN calls = Calls
      BY DEF SvcInv, Sound, WellFormed
    <3>2. calls'[k].answer # Nil /\ calls'[k].answer \notin {"unavailable"}
      BY NilIsNeither DEF Answers, Refusals
    <3>3. ~SvcTick /\ ~Crash /\ ~Saturate(k)
      BY <3>1, <3>2 DEF SvcTick, Crash, Saturate, Answer, Idle
    <3>4. calls'[k] # calls[k]
      BY <3>1, <3>2
    <3>5. ASSUME NEW j \in Calls, NEW t \in deployment.templates, Submit(j, t)
          PROVE  FALSE
      BY <3>1, <3>4, <3>5 DEF Submit
    <3>6. ASSUME NEW j \in Calls,
                 \/ Start(j) \/ Saturate(j) \/ LoadTarget(j) \/ CheckAbsent(j)
                 \/ Decide(j) \/ Execute(j) \/ Fail(j)
          PROVE  j = k
      BY <3>1, <3>4, <3>6
         DEF Start, Saturate, LoadTarget, CheckAbsent, Decide, Execute, Fail,
             Answer
    <3>7. CASE calls[k].pc \notin Serving
      BY <3>3, <3>5, <3>6, <3>7
         DEF SvcNext, LoadTarget, CheckAbsent, Decide, Execute, Fail, Serving
    <3>. QED
      BY <3>7
  <2>3. CASE calls[k].pc \in Serving
    BY <2>1, <2>3
       DEF SvcInv, OneAtATime, Running, Ledger!Remembered, Ledger!Replays
  <2>4. CASE Start(k)
    <3>1. CASE c.actor \notin Writers
      <4>1. ~Ledger!Replays(c)
        <5>. HIDE DEF c
        <5>. QED
          BY <2>1, <3>1
             DEF SvcInv, Tables, Ledger!Replays, Ledger!Remembered
      <4>. QED
        BY <4>1
    <3>2. CASE calls' = [calls EXCEPT ![k].pc = "admitted"]
      <4>1. calls[k].answer = Nil /\ Recorded(calls[k]) /\ DOMAIN calls = Calls
        BY DEF SvcInv, Sound, WellFormed
      <4>2. calls'[k].answer = Nil
        BY <3>2, <4>1 DEF Recorded
      <4>. QED
        BY <4>2, NilIsNeither DEF Answers, Refusals
    <3>3. CASE Answer(k, "receipt")
      BY <3>3 DEF Answer, Idle, SvcInv, Refusals
    <3>. QED
      BY <2>4, <3>1, <3>2, <3>3 DEF Start
  <2>. QED
    BY <2>2, <2>3, <2>4
<1>. QED
  BY <1>1, <1>2, <1>3, PTL DEF SvcSpec, RefusedHadNoEffect
=============================================================================
