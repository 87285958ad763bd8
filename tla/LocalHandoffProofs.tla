------------------------- MODULE LocalHandoffProofs -------------------------
(***************************************************************************)
(* What LocalHandoff promises for every number of handoffs, lanes, people  *)
(* and facts, whatever the callers' clocks read and whoever stops where.   *)
(*                                                                         *)
(* The invariant behind all of it: a decided request holds the record as   *)
(* it is, or a stamp older than the record's, because no stamp is given    *)
(* twice.                                                                  *)
(***************************************************************************)
EXTENDS LocalHandoff, TLAPS

Decided ==
  [pc : {"loaded"}, h : Handoffs, q : Requests, seen : Assignment, stamp : Nat]

(* A decided request is still allowed on what it read, which is the record *)
(* unless its stamp is out of date.                                        *)
Fresh(call) ==
  /\ records[call.h] # Nil
  /\ call.stamp <= stamps[call.h]
  /\ call.stamp = stamps[call.h] => call.seen = records[call.h]
  /\ Allowed(call.seen, call.q)

CallsFresh == \A c \in Callers : calls[c].pc = "loaded" => Fresh(calls[c])

(* A lane's request is the one its stage calls for.                        *)
LanesCall ==
  \A l \in Lanes :
    /\ lanes[l].stage = "accepting" =>
         /\ calls[l] # Idle
         /\ calls[l].h = lanes[l].h
         /\ calls[l].q.op = "accept"
         /\ calls[l].q.claim = l
    /\ lanes[l].stage = "running" =>
         \/ calls[l] = Idle
         \/ calls[l].h = lanes[l].h /\ calls[l].q.op = "heartbeat"
    /\ lanes[l].stage = "returning" =>
         /\ calls[l] # Idle
         /\ calls[l].h = lanes[l].h
         /\ calls[l].q.op = "return"
         /\ calls[l].q.fact = lanes[l].fact
    /\ lanes[l].stage \notin Active \cup {"accepting"} => calls[l] = Idle

(* A pending record was never claimed, a failure was recorded for the      *)
(* claim on record, and what was returned is evidence.                     *)
RecordsSound ==
  \A h \in Handoffs :
    records[h] # Nil =>
      LET r == records[h]
      IN /\ r.status = "pending" => r.claim = Nil /\ r.outcome = Nil
         /\ r.outcome = "failed" => r.claim \in failed
         /\ r.result # Nil => Evidence(r, r.result)

ClaimsHeld ==
  \A l \in Lanes :
    lanes[l].stage \in Active =>
      /\ records[lanes[l].h] # Nil
      /\ records[lanes[l].h].claim = l \/ l \in failed

Reported(lane) ==
  LET r == records[lane.h]
  IN /\ r # Nil
     /\ lane.fact \in Facts
     /\ r.status = "completed"
     /\ r.outcome = "succeeded"
     /\ r.result = lane.fact
     /\ Evidence(r, lane.fact)

(* LanesReportTruth, for a record and a fact that are there.               *)
ReportsHold ==
  \A l \in Lanes : lanes[l].stage = "completed" => Reported(lanes[l])

IInv ==
  /\ LocalTypeOK
  /\ CallsFresh
  /\ LanesCall
  /\ RecordsSound
  /\ ClaimsHeld
  /\ ReportsHold

-----------------------------------------------------------------------------
(* What an allowed request makes of a record.                              *)

LEMMA AcceptedFields ==
  ASSUME NEW r \in Assignment, NEW claim \in Maybe(Claims)
  PROVE  LET s == Accepted(r, claim)
         IN /\ s \in Assignment
            /\ s.session = r.session /\ s.to = r.to
            /\ s.status \in {"accepted", r.status}
            /\ s.status # "pending"
            /\ s.claim = claim
            /\ \/ s.result = Nil /\ s.outcome = Nil
               \/ /\ r.status = "pending"
                  /\ s.result = r.result /\ s.outcome = r.outcome
<1>1. r.attempts + 1 \in Nat /\ r.revision + 1 \in Nat
  BY DEF Assignment
<1> QED
  BY <1>1 DEF Accepted, Assignment, Maybe

LEMMA ReturnedFields ==
  ASSUME NEW r \in Assignment, NEW fact \in Facts, NEW outcome \in Outcomes
  PROVE  LET s == Returned(r, fact, outcome)
         IN /\ s \in Assignment
            /\ s.session = r.session /\ s.to = r.to
            /\ s.status = IF outcome = "succeeded" THEN "completed" ELSE r.status
            /\ s.claim = r.claim
            /\ s.result = fact /\ s.outcome = outcome
<1>1. r.revision + 1 \in Nat
  BY DEF Assignment
<1> QED
  BY <1>1 DEF Returned, Assignment, Maybe, Outcomes

LEMMA RevisedFields ==
  ASSUME NEW r \in Assignment, NEW status \in {"accepted", "completed"}
  PROVE  LET s == Revised(r, status)
         IN /\ s \in Assignment
            /\ s.session = r.session /\ s.to = r.to
            /\ s.status = status
            /\ s.claim = r.claim
            /\ s.result = r.result /\ s.outcome = r.outcome
<1>1. r.revision + 1 \in Nat
  BY DEF Assignment
<1> QED
  BY <1>1 DEF Revised, Assignment

(* A completed record allows nothing; only an accept changes the claim, of *)
(* a pending record or a failed one; only a return gives a result.         *)
LEMMA ChangeSound ==
  ASSUME NEW r \in Assignment, NEW q \in Requests, Allowed(r, q)
  PROVE  LET s == Changed(r, q)
         IN /\ s \in Assignment
            /\ s.session = r.session /\ s.to = r.to
            /\ r.status # "completed"
            /\ s.status # "pending"
            /\ q.op = "accept" =>
                 /\ s.claim = q.claim
                 /\ r.status = "pending" \/ r.outcome = "failed"
                 /\ \/ s.result = Nil /\ s.outcome = Nil
                    \/ /\ r.status = "pending"
                       /\ s.result = r.result /\ s.outcome = r.outcome
            /\ q.op # "accept" =>
                 /\ r.status = "accepted"
                 /\ s.claim = r.claim
            /\ q.op = "return" =>
                 /\ s.result = q.fact /\ s.outcome = q.outcome
                 /\ q.fact \in Facts /\ q.outcome \in Outcomes
                 /\ Evidence(r, q.fact)
                 /\ q.outcome = "succeeded" => s.status = "completed"
            /\ q.op \notin {"accept", "return"} =>
                 s.result = r.result /\ s.outcome = r.outcome
<1>1. CASE q.op = "accept"
  <2>1. q.claim \in Maybe(Claims)
    BY <1>1 DEF Requests
  <2>2. Changed(r, q) = Accepted(r, q.claim)
    BY <1>1 DEF Changed
  <2>3. Claimable(r, q.claim)
    BY <1>1 DEF Allowed
  <2> QED
    BY <1>1, <2>1, <2>2, <2>3, AcceptedFields DEF Claimable
<1>2. CASE q.op = "return"
  <2>1. q.fact \in Facts /\ q.outcome \in Outcomes
    BY <1>2 DEF Requests
  <2>2. Changed(r, q) = Returned(r, q.fact, q.outcome)
    BY <1>2 DEF Changed
  <2>3. r.status = "accepted" /\ Evidence(r, q.fact)
    BY <1>2 DEF Allowed
  <2> QED
    BY <1>2, <2>1, <2>2, <2>3, ReturnedFields
<1>3. CASE q.op \in {"heartbeat", "complete"}
  <2>1. PICK status \in {"accepted", "completed"} : Changed(r, q) = Revised(r, status)
    BY <1>3 DEF Changed, Allowed
  <2>2. r.status = "accepted"
    BY <1>3 DEF Allowed
  <2> QED
    BY <1>3, <2>1, <2>2, RevisedFields
<1>4. q.op \in {"accept", "return", "heartbeat", "complete"}
  BY DEF Requests
<1> QED
  BY <1>1, <1>2, <1>3, <1>4

(* What a stage becomes when its request is answered.                      *)
LEMMA StageAfterAnswer ==
  ASSUME NEW stage, NEW q, NEW ok \in BOOLEAN
  PROVE  LET s == StageAfter(stage, q, ok)
         IN /\ stage = "accepting" =>
                 s = IF ok THEN "running" ELSE "stopped"
            /\ stage = "returning" =>
                 /\ s \in {"failed", "completed", "record_failed"}
                 /\ s = "completed" => ok /\ q.outcome # "failed"
            /\ stage \notin {"accepting", "returning"} => s = stage
  BY DEF StageAfter

-----------------------------------------------------------------------------
(* Parts of the steps.                                                     *)

(* A fact, once written, keeps its session and its writer.                 *)
LEMMA FactsStay ==
  ASSUME LedgerTypeOK,
         NEW f \in Facts, NEW session \in Sessions, NEW actor \in Actors,
         FactAdded(f, session, actor)
  PROVE  /\ LedgerTypeOK'
         /\ records' = records
         /\ \A g \in Facts : facts[g] # Nil => facts'[g] = facts[g]
  BY DEF LedgerTypeOK, FactAdded, Maybe, Writers

(* An answered request is over, and a lane moves on as it was told to.     *)
LEMMA AnswerSound ==
  ASSUME LocalTypeOK, LanesCall,
         NEW c \in Callers, calls[c] # Idle, NEW ok \in BOOLEAN, Answered(c, ok)
  PROVE  /\ calls' \in [Callers -> CallStates]
         /\ lanes' \in [Lanes -> LaneStates]
         /\ LanesCall'
         /\ calls'[c] = Idle
         /\ \A d \in Callers \ {c} : calls'[d] = calls[d]
         /\ \A l \in Lanes :
              \/ lanes'[l] = lanes[l]
              \/ /\ l = c
                 /\ lanes'[l].h = lanes[l].h
                 /\ lanes'[l].fact = lanes[l].fact
                 /\ lanes'[l].stage = "running" =>
                      lanes[l].stage = "accepting" /\ ok
                 /\ lanes'[l].stage = "completed" =>
                      /\ lanes[l].stage = "returning"
                      /\ ok
                      /\ calls[l].q.outcome # "failed"
                 /\ lanes'[l].stage # "returning"
<1>1. /\ calls' = [calls EXCEPT ![c] = Idle]
      /\ Idle \in CallStates
  BY DEF Answered, CallStates
<1>2. /\ calls' \in [Callers -> CallStates]
      /\ calls'[c] = Idle
      /\ \A d \in Callers \ {c} : calls'[d] = calls[d]
  BY <1>1 DEF LocalTypeOK
<1>3. CASE c \notin Lanes
  <2>1. lanes' = lanes
    <3>1. \A l \in Lanes : lanes'[l] = lanes[l]
      BY <1>3 DEF Answered
    <3> QED
      BY <3>1 DEF Answered, LocalTypeOK
  <2> QED
    BY <1>2, <1>3, <2>1 DEF LocalTypeOK, LanesCall, Callers
<1>4. CASE c \in Lanes
  <2> DEFINE stage == lanes[c].stage
             next == StageAfter(stage, calls[c].q, ok)
  <2>1. stage \in Active \cup {"accepting"}
    BY <1>4 DEF LanesCall
  <2>2. lanes[c] \in [stage : Stages, h : Handoffs, actor : Actors, fact : Maybe(Facts)]
    BY <1>4, <2>1 DEF LocalTypeOK, LaneStates, Free, Active
  <2>3. /\ lanes' = [l \in Lanes |->
              IF l = c THEN [lanes[c] EXCEPT !.stage = next] ELSE lanes[l]]
        /\ stage = "accepting" => next = IF ok THEN "running" ELSE "stopped"
        /\ stage = "returning" => next \in {"failed", "completed", "record_failed"}
        /\ stage = "returning" /\ next = "completed" =>
             ok /\ calls[c].q.outcome # "failed"
        /\ stage = "running" => next = "running"
    BY StageAfterAnswer DEF Answered
  <2> HIDE DEF next
  <2>4. next \in Stages
    BY <2>1, <2>3 DEF Stages, Active
  <2>5. /\ lanes'[c].stage = next
        /\ lanes'[c].h = lanes[c].h
        /\ lanes'[c].fact = lanes[c].fact
        /\ lanes'[c] \in LaneStates
        /\ stage = next => lanes'[c] = lanes[c]
    BY <1>4, <2>2, <2>3, <2>4 DEF LaneStates
  <2>6. \A l \in Lanes \ {c} : lanes'[l] = lanes[l]
    BY <2>3
  <2>7. lanes' \in [Lanes -> LaneStates]
    BY <2>3, <2>5, <2>6 DEF LocalTypeOK
  <2>8. LanesCall'
    BY <1>2, <2>1, <2>3, <2>5, <2>6 DEF LanesCall, Callers, Active
  <2> QED
    BY <1>2, <2>1, <2>3, <2>5, <2>6, <2>7, <2>8 DEF Active
<1> QED
  BY <1>3, <1>4

(* A step that changes no record, and no fact but an unwritten one, keeps  *)
(* what is said of the records, and what it leaves of the decisions.       *)
LEMMA RecordsKept ==
  ASSUME IInv, LedgerTypeOK', UNCHANGED <<records, stamps, failed>>,
         \A f \in Facts : facts[f] # Nil => facts'[f] = facts[f]
  PROVE  /\ \A r \in Assignment, f \in Facts : Evidence(r, f) => Evidence(r, f)'
         /\ \A r \in Assignment, q \in Requests : Allowed(r, q) => Allowed(r, q)'
         /\ RecordsSound'
<1>1. \A r \in Assignment, f \in Facts : Evidence(r, f) => Evidence(r, f)'
  <2> SUFFICES ASSUME NEW r \in Assignment, NEW f \in Facts, Evidence(r, f)
              PROVE  Evidence(r, f)'
    OBVIOUS
  <2>1. [session |-> r.session, actor |-> r.to] \in Writers
    BY DEF Assignment, Writers
  <2> QED
    BY <2>1, NilAssumption DEF Evidence
<1>2. \A r \in Assignment, q \in Requests : Allowed(r, q) => Allowed(r, q)'
  <2> SUFFICES ASSUME NEW r \in Assignment, NEW q \in Requests, Allowed(r, q)
              PROVE  Allowed(r, q)'
    OBVIOUS
  <2>1. CASE q.op = "return"
    <3>1. q.fact \in Facts
      BY <2>1 DEF Requests
    <3> QED
      BY <1>1, <2>1, <3>1 DEF Allowed
  <2>2. CASE q.op # "return"
    BY <2>2 DEF Allowed
  <2> QED
    BY <2>1, <2>2
<1>3. RecordsSound'
  <2> SUFFICES ASSUME NEW h \in Handoffs, records[h] # Nil
              PROVE  LET r == records[h]
                     IN /\ r.status = "pending" => r.claim = Nil /\ r.outcome = Nil
                        /\ r.outcome = "failed" => r.claim \in failed
                        /\ r.result # Nil => Evidence(r, r.result)'
    BY DEF RecordsSound, Evidence
  <2>1. records[h] \in Assignment
    BY DEF IInv, LocalTypeOK, LedgerTypeOK, Maybe
  <2>2. records[h].result \in Maybe(Facts)
    BY <2>1 DEF Assignment
  <2>3. records[h].result # Nil =>
          records[h].result \in Facts /\ Evidence(records[h], records[h].result)
    BY <2>2 DEF IInv, RecordsSound, Maybe
  <2>4. \A f \in Facts : Evidence(records[h], f) => facts'[f] =
          [session |-> records[h].session, actor |-> records[h].to]
    BY <1>1, <2>1 DEF Evidence
  <2>5. records[h].result # Nil => Evidence(records[h], records[h].result)'
    BY <2>3, <2>4 DEF Evidence
  <2> QED
    BY <2>5 DEF IInv, RecordsSound
<1> QED
  BY <1>1, <1>2, <1>3

LEMMA FreshKept ==
  ASSUME IInv, LedgerTypeOK', UNCHANGED <<records, stamps, failed>>,
         \A f \in Facts : facts[f] # Nil => facts'[f] = facts[f],
         NEW call \in Decided, Fresh(call)
  PROVE  Fresh(call)'
<1>1. call.seen \in Assignment /\ call.q \in Requests
  BY DEF Decided
<1>2. PICK r \in Assignment, q \in Requests : r = call.seen /\ q = call.q
  BY <1>1
<1>3. Allowed(r, q)
  BY <1>2 DEF Fresh
<1>4. Allowed(r, q)'
  BY <1>3, RecordsKept
<1>5. Allowed(call.seen, call.q)'
  BY <1>2, <1>4
<1> QED
  BY <1>5 DEF Fresh

LEMMA DecidedCalls ==
  ASSUME LocalTypeOK, NEW c \in Callers, calls[c].pc = "loaded"
  PROVE  calls[c] \in Decided
  BY DEF LocalTypeOK, CallStates, Idle, Decided

(* A step that decides no request keeps the decisions.                     *)
LEMMA DecisionsKept ==
  ASSUME IInv, LedgerTypeOK', UNCHANGED <<records, stamps, failed>>,
         \A f \in Facts : facts[f] # Nil => facts'[f] = facts[f],
         \A c \in Callers : calls'[c].pc = "loaded" => calls'[c] = calls[c]
  PROVE  CallsFresh'
<1> SUFFICES ASSUME NEW c \in Callers, calls'[c].pc = "loaded"
            PROVE  Fresh(calls[c])'
  BY DEF CallsFresh
<1>1. calls'[c] = calls[c] /\ calls[c].pc = "loaded"
  OBVIOUS
<1>2. PICK call \in Decided : call = calls[c]
  BY <1>1, DecidedCalls DEF IInv
<1>3. Fresh(call)
  BY <1>1, <1>2 DEF IInv, CallsFresh
<1>4. Fresh(call)'
  BY <1>3, FreshKept
<1>5. call = calls'[c]
  BY <1>1, <1>2
<1> QED
  BY <1>4, <1>5 DEF Fresh, Allowed, Evidence, Repeats

(* A step that changes no record keeps what is said of the lanes it leaves *)
(* at their work.                                                          *)
LEMMA LanesKept ==
  ASSUME IInv, LedgerTypeOK', UNCHANGED <<records, stamps, failed>>,
         \A f \in Facts : facts[f] # Nil => facts'[f] = facts[f],
         lanes' \in [Lanes -> LaneStates],
         \A l \in Lanes :
           lanes'[l].stage \in Active =>
             \/ lanes[l].stage \in Active /\ lanes'[l].h = lanes[l].h
             \/ /\ records[lanes'[l].h] # Nil
                /\ records[lanes'[l].h].claim = l,
         \A l \in Lanes :
           lanes'[l].stage = "completed" =>
             \/ lanes'[l] = lanes[l]
             \/ Reported(lanes'[l])
  PROVE  ClaimsHeld' /\ ReportsHold'
<1>1. ClaimsHeld'
  BY DEF IInv, ClaimsHeld
<1>2. ReportsHold'
  <2> SUFFICES ASSUME NEW l \in Lanes, lanes'[l].stage = "completed"
              PROVE  Reported(lanes[l])'
    BY DEF ReportsHold
  <2>1. Reported(lanes'[l])
    BY DEF IInv, ReportsHold
  <2>2. PICK lane \in LaneStates : lane = lanes'[l]
    OBVIOUS
  <2>3. Reported(lane) /\ lane.stage = "completed"
    BY <2>1, <2>2
  <2>4. lane.h \in Handoffs
    BY <2>3 DEF LaneStates, Free
  <2>5. records[lane.h] \in Assignment
    BY <2>3, <2>4 DEF Reported, IInv, LocalTypeOK, LedgerTypeOK, Maybe
  <2>6. PICK r \in Assignment : r = records[lane.h]
    BY <2>5
  <2>7. Evidence(r, lane.fact)'
    BY <2>3, <2>6, RecordsKept DEF Reported
  <2>8. Reported(lane)'
    BY <2>3, <2>6, <2>7 DEF Reported
  <2> QED
    BY <2>2, <2>8 DEF Reported, Evidence
<1> QED
  BY <1>1, <1>2

(* An answer that changes no record.                                       *)
LEMMA AnswerKept ==
  ASSUME IInv, UNCHANGED <<ledger, stamps, failed>>,
         NEW c \in Callers, calls[c] # Idle, NEW ok \in BOOLEAN, Answered(c, ok),
         ok => /\ records[calls[c].h] # Nil
               /\ Repeats(records[calls[c].h], calls[c].q)
  PROVE  IInv'
<1>1. /\ calls' \in [Callers -> CallStates]
      /\ lanes' \in [Lanes -> LaneStates]
      /\ LanesCall'
      /\ calls'[c] = Idle
      /\ \A d \in Callers \ {c} : calls'[d] = calls[d]
      /\ \A l \in Lanes :
           \/ lanes'[l] = lanes[l]
           \/ /\ l = c
              /\ lanes'[l].h = lanes[l].h
              /\ lanes'[l].fact = lanes[l].fact
              /\ lanes'[l].stage = "running" => lanes[l].stage = "accepting" /\ ok
              /\ lanes'[l].stage = "completed" =>
                   /\ lanes[l].stage = "returning"
                   /\ ok
                   /\ calls[l].q.outcome # "failed"
              /\ lanes'[l].stage # "returning"
  BY AnswerSound DEF IInv
<1>2. LocalTypeOK' /\ LedgerTypeOK'
  BY <1>1 DEF IInv, LocalTypeOK, LedgerTypeOK, ledger
<1>3. \A f \in Facts : facts[f] # Nil => facts'[f] = facts[f]
  BY DEF ledger
<1>4. UNCHANGED <<records, stamps, failed>>
  BY DEF ledger
<1>5. CallsFresh'
  <2>1. \A d \in Callers : calls'[d].pc = "loaded" => calls'[d] = calls[d]
    BY <1>1 DEF Idle
  <2> QED
    BY <1>2, <1>3, <1>4, <2>1, DecisionsKept
<1>6. RecordsSound'
  BY <1>2, <1>3, <1>4, RecordsKept
<1>7. ASSUME NEW l \in Lanes, lanes'[l].stage \in Active
      PROVE  \/ lanes[l].stage \in Active /\ lanes'[l].h = lanes[l].h
             \/ /\ records[lanes'[l].h] # Nil
                /\ records[lanes'[l].h].claim = l
  <2>1. CASE lanes'[l] = lanes[l]
    BY <1>7, <2>1
  <2>2. CASE lanes'[l] # lanes[l]
    <3>1. /\ l = c
          /\ lanes'[l].h = lanes[l].h
          /\ lanes[l].stage = "accepting"
          /\ ok
      BY <1>1, <1>7, <2>2 DEF Active
    <3>2. /\ calls[l].h = lanes[l].h
          /\ calls[l].q.op = "accept"
          /\ calls[l].q.claim = l
      BY <3>1 DEF IInv, LanesCall
    <3> QED
      BY <3>1, <3>2 DEF Repeats
  <2> QED
    BY <2>1, <2>2
<1>8. ASSUME NEW l \in Lanes, lanes'[l].stage = "completed"
      PROVE  lanes'[l] = lanes[l] \/ Reported(lanes'[l])
  <2> SUFFICES ASSUME lanes'[l] # lanes[l]
              PROVE  Reported(lanes'[l])
    OBVIOUS
  <2>1. /\ l = c
        /\ lanes'[l].h = lanes[l].h
        /\ lanes'[l].fact = lanes[l].fact
        /\ lanes[l].stage = "returning"
        /\ ok
        /\ calls[l].q.outcome # "failed"
    BY <1>1, <1>8
  <2>2. /\ calls[l] # Idle
        /\ calls[l].h = lanes[l].h
        /\ calls[l].q.op = "return"
        /\ calls[l].q.fact = lanes[l].fact
    BY <2>1 DEF IInv, LanesCall
  <2>3. calls[l].h \in Handoffs /\ calls[l].q \in Requests
    BY <2>1, <2>2 DEF IInv, LocalTypeOK, CallStates
  <2>4. calls[l].q.fact \in Facts /\ calls[l].q.outcome = "succeeded"
    BY <2>1, <2>2, <2>3 DEF Requests, Outcomes
  <2> DEFINE r == records[calls[l].h]
  <2>5. /\ r # Nil
        /\ r.status = "completed"
        /\ r.result = calls[l].q.fact
        /\ r.outcome = "succeeded"
    BY <2>1, <2>2, <2>4 DEF Repeats
  <2>6. Evidence(r, r.result)
    <3>1. r.result # Nil
      BY <2>4, <2>5, NilAssumption
    <3> QED
      BY <2>3, <2>5, <3>1 DEF IInv, RecordsSound
  <2> QED
    BY <2>1, <2>2, <2>4, <2>5, <2>6 DEF Reported
<1>9. ClaimsHeld' /\ ReportsHold'
  BY <1>1, <1>2, <1>3, <1>4, <1>7, <1>8, LanesKept
<1> QED
  BY <1>1, <1>2, <1>5, <1>6, <1>9 DEF IInv

-----------------------------------------------------------------------------
(* The steps.                                                              *)

LEMMA InitHolds == LocalInit => IInv
<1> SUFFICES ASSUME LocalInit
            PROVE  IInv
  OBVIOUS
<1>1. LocalTypeOK
  BY DEF LocalInit, Init, LocalTypeOK, LedgerTypeOK, Maybe, CallStates, LaneStates
<1>2. CallsFresh
  BY DEF LocalInit, CallsFresh, Idle
<1>3. LanesCall
  BY DEF LocalInit, LanesCall, Free, Active, Callers
<1>4. RecordsSound
  BY DEF LocalInit, Init, RecordsSound
<1>5. ClaimsHeld
  BY DEF LocalInit, ClaimsHeld, Free, Active
<1>6. ReportsHold
  BY DEF LocalInit, ReportsHold, Free
<1> QED
  BY <1>1, <1>2, <1>3, <1>4, <1>5, <1>6 DEF IInv

LEMMA DispatchKeeps ==
  ASSUME IInv, NEW h \in Handoffs, NEW session \in Sessions, NEW to \in Actors,
         NEW clock \in Clock, Dispatch(h, session, to, clock)
  PROVE  IInv'
<1> DEFINE new == NewAssignment(session, to)
<1>1. /\ new \in Assignment
      /\ new.status = "pending"
      /\ new.claim = Nil /\ new.outcome = Nil /\ new.result = Nil
  BY DEF NewAssignment, Assignment, Maybe
<1> HIDE DEF new
<1>2. /\ records[h] = Nil
      /\ records' = [records EXCEPT ![h] = new]
      /\ stamps' = [stamps EXCEPT ![h] = clock]
      /\ UNCHANGED <<facts, calls, lanes, failed>>
  BY DEF Dispatch, Dispatched, new
<1>3. LocalTypeOK'
  BY <1>1, <1>2, BoundsAssumption
  DEF IInv, LocalTypeOK, LedgerTypeOK, Maybe, Clock
<1>4. \A g \in Handoffs \ {h} : records'[g] = records[g] /\ stamps'[g] = stamps[g]
  BY <1>2 DEF IInv, LocalTypeOK, LedgerTypeOK
<1>5. records'[h] = new
  BY <1>2 DEF IInv, LocalTypeOK, LedgerTypeOK
<1>6. CallsFresh'
  <2> SUFFICES ASSUME NEW c \in Callers, calls[c].pc = "loaded"
              PROVE  Fresh(calls[c])'
    BY <1>2 DEF CallsFresh
  <2>1. calls[c].h \in Handoffs /\ Fresh(calls[c])
    BY DecidedCalls DEF IInv, CallsFresh, Decided
  <2>2. calls[c].h # h
    BY <1>2, <2>1 DEF Fresh
  <2> QED
    BY <1>2, <1>4, <2>1, <2>2 DEF Fresh, Allowed, Evidence, Repeats
<1>7. LanesCall'
  BY <1>2 DEF IInv, LanesCall
<1>8. RecordsSound'
  <2> SUFFICES ASSUME NEW g \in Handoffs, records'[g] # Nil
              PROVE  LET r == records'[g]
                     IN /\ r.status = "pending" => r.claim = Nil /\ r.outcome = Nil
                        /\ r.outcome = "failed" => r.claim \in failed'
                        /\ r.result # Nil =>
                             facts'[r.result] = [session |-> r.session, actor |-> r.to]
    BY DEF RecordsSound, Evidence
  <2>1. CASE g = h
    <3>1. Nil # "failed"
      BY NilAssumption DEF Outcomes
    <3> QED
      BY <1>1, <1>5, <2>1, <3>1
  <2>2. CASE g # h
    BY <1>2, <1>4, <2>2 DEF IInv, RecordsSound, Evidence
  <2> QED
    BY <2>1, <2>2
<1>9. \A l \in Lanes :
        lanes[l].stage \in Active \cup {"completed"} => lanes[l].h \in Handoffs
  BY DEF IInv, LocalTypeOK, LaneStates, Free, Active
<1>10. ClaimsHeld'
  BY <1>2, <1>4, <1>9 DEF IInv, ClaimsHeld
<1>11. ReportsHold'
  <2> SUFFICES ASSUME NEW l \in Lanes, lanes[l].stage = "completed"
              PROVE  Reported(lanes[l])'
    BY <1>2 DEF ReportsHold
  <2>1. Reported(lanes[l])
    BY DEF IInv, ReportsHold
  <2>2. records[lanes[l].h] # Nil
    BY <2>1 DEF Reported
  <2>3. records'[lanes[l].h] = records[lanes[l].h]
    BY <1>2, <1>4, <1>9, <2>2
  <2> QED
    BY <1>2, <2>1, <2>3 DEF Reported, Evidence
<1> QED
  BY <1>3, <1>6, <1>7, <1>8, <1>10, <1>11 DEF IInv

LEMMA PersistChanges ==
  ASSUME IInv, NEW c \in Callers, NEW clock \in Clock, NEW ok \in BOOLEAN,
         Persist(c, clock, ok)
  PROVE  /\ calls[c] \in Decided
         /\ records[calls[c].h] \in Assignment
         /\ Allowed(records[calls[c].h], calls[c].q)
         /\ records' = [records EXCEPT
              ![calls[c].h] = Changed(records[calls[c].h], calls[c].q)]
         /\ stamps'[calls[c].h] \in Nat
         /\ stamps[calls[c].h] < stamps'[calls[c].h]
         /\ stamps' = [stamps EXCEPT ![calls[c].h] = stamps'[calls[c].h]]
         /\ failed' = IF calls[c].q.op = "return" /\ calls[c].q.outcome = "failed"
                      THEN failed \cup {records[calls[c].h].claim} ELSE failed
         /\ calls[c].q.op = "accept" \/ ok
         /\ Answered(c, ok)
         /\ UNCHANGED facts
<1>1. calls[c].pc = "loaded" /\ stamps[calls[c].h] = calls[c].stamp
  BY DEF Persist
<1>2. calls[c] \in Decided /\ Fresh(calls[c])
  BY <1>1, DecidedCalls DEF IInv, CallsFresh
<1>3. calls[c].h \in Handoffs /\ calls[c].seen \in Assignment
  BY <1>2 DEF Decided
<1>4. calls[c].seen = records[calls[c].h]
  BY <1>1, <1>2 DEF Fresh
<1>5. stamps[calls[c].h] \in Nat /\ stamps \in [Handoffs -> Nat]
  BY <1>3 DEF IInv, LocalTypeOK
<1>6. clock \in Nat
  BY BoundsAssumption DEF Clock
<1>7. Write(c, clock, ok)
  BY DEF Persist
<1>8. stamps' = [stamps EXCEPT ![calls[c].h] = Stamped(stamps[calls[c].h], clock)]
  BY <1>7 DEF Write
<1>9. stamps'[calls[c].h] = Stamped(stamps[calls[c].h], clock)
  BY <1>3, <1>5, <1>8
<1>10. /\ Stamped(stamps[calls[c].h], clock) \in Nat
       /\ stamps[calls[c].h] < Stamped(stamps[calls[c].h], clock)
  BY <1>5, <1>6 DEF Stamped, Larger
<1> QED
  BY <1>2, <1>3, <1>4, <1>7, <1>8, <1>9, <1>10 DEF Write, Persist, Fresh

LEMMA PersistKeeps ==
  ASSUME IInv, NEW c \in Callers, NEW clock \in Clock, NEW ok \in BOOLEAN,
         Persist(c, clock, ok)
  PROVE  IInv'
<1> DEFINE h == calls[c].h
           q == calls[c].q
           r == records[h]
           s == Changed(r, q)
           stamp == stamps'[h]
<1>1. /\ calls[c] \in Decided
      /\ r \in Assignment
      /\ Allowed(r, q)
      /\ records' = [records EXCEPT ![h] = s]
      /\ stamp \in Nat /\ stamps[h] < stamp
      /\ stamps' = [stamps EXCEPT ![h] = stamp]
      /\ failed' = IF q.op = "return" /\ q.outcome = "failed"
                   THEN failed \cup {r.claim} ELSE failed
      /\ q.op = "accept" \/ ok
      /\ Answered(c, ok)
      /\ UNCHANGED facts
  BY PersistChanges
<1>2. h \in Handoffs /\ q \in Requests /\ calls[c] # Idle
  BY <1>1 DEF Decided, Idle
<1>3. /\ s \in Assignment
      /\ s.session = r.session /\ s.to = r.to
      /\ r.status # "completed"
      /\ s.status # "pending"
      /\ q.op = "accept" =>
           /\ s.claim = q.claim
           /\ r.status = "pending" \/ r.outcome = "failed"
           /\ \/ s.result = Nil /\ s.outcome = Nil
              \/ /\ r.status = "pending"
                 /\ s.result = r.result /\ s.outcome = r.outcome
      /\ q.op # "accept" => s.claim = r.claim
      /\ q.op = "return" =>
           /\ s.result = q.fact /\ s.outcome = q.outcome
           /\ q.fact \in Facts /\ q.outcome \in Outcomes
           /\ Evidence(r, q.fact)
           /\ q.outcome = "succeeded" => s.status = "completed"
      /\ q.op \notin {"accept", "return"} =>
           s.result = r.result /\ s.outcome = r.outcome
  BY <1>1, <1>2, ChangeSound
<1> HIDE DEF s, stamp, r
<1>4. s # Nil /\ r # Nil
  BY <1>1, <1>3, NilAssumption
<1>5. /\ calls' \in [Callers -> CallStates]
      /\ lanes' \in [Lanes -> LaneStates]
      /\ LanesCall'
      /\ calls'[c] = Idle
      /\ \A d \in Callers \ {c} : calls'[d] = calls[d]
      /\ \A l \in Lanes :
           \/ lanes'[l] = lanes[l]
           \/ /\ l = c
              /\ lanes'[l].h = lanes[l].h
              /\ lanes'[l].fact = lanes[l].fact
              /\ lanes'[l].stage = "running" => lanes[l].stage = "accepting" /\ ok
              /\ lanes'[l].stage = "completed" =>
                   /\ lanes[l].stage = "returning"
                   /\ ok
                   /\ calls[l].q.outcome # "failed"
              /\ lanes'[l].stage # "returning"
  BY <1>1, <1>2, AnswerSound DEF IInv
<1>6. LocalTypeOK'
  <2>1. LedgerTypeOK'
    BY <1>1, <1>3 DEF IInv, LocalTypeOK, LedgerTypeOK, Maybe
  <2>2. stamps' \in [Handoffs -> Nat]
    BY <1>1 DEF IInv, LocalTypeOK
  <2>3. r.claim \in Maybe(Claims)
    BY <1>1 DEF Assignment
  <2>4. failed' \subseteq Maybe(Claims)
    BY <1>1, <2>3 DEF IInv, LocalTypeOK
  <2> QED
    BY <1>5, <2>1, <2>2, <2>4 DEF LocalTypeOK
<1>7. /\ records'[h] = s
      /\ \A g \in Handoffs \ {h} : records'[g] = records[g] /\ stamps'[g] = stamps[g]
  BY <1>1, <1>2 DEF IInv, LocalTypeOK, LedgerTypeOK
<1>8. failed \subseteq failed'
  BY <1>1
<1>9. CallsFresh'
  <2> SUFFICES ASSUME NEW d \in Callers, calls'[d].pc = "loaded"
              PROVE  Fresh(calls[d])'
    BY DEF CallsFresh
  <2>1. d # c /\ calls'[d] = calls[d] /\ calls[d].pc = "loaded"
    BY <1>5 DEF Idle
  <2>2. calls[d] \in Decided /\ Fresh(calls[d])
    BY <2>1, DecidedCalls DEF IInv, CallsFresh
  <2>3. calls[d].h \in Handoffs /\ calls[d].stamp \in Nat
    BY <2>2 DEF Decided
  <2>4. Allowed(calls[d].seen, calls[d].q)'
    BY <1>1, <2>1, <2>2 DEF Fresh, Allowed, Evidence, Repeats
  <2>5. CASE calls[d].h = h
    <3>1. calls[d].stamp <= stamps[h] /\ stamps[h] \in Nat
      BY <1>2, <2>2, <2>5 DEF Fresh, IInv, LocalTypeOK
    <3>2. calls[d].stamp < stamp
      BY <1>1, <2>3, <3>1
    <3> QED
      BY <1>1, <1>4, <1>7, <2>1, <2>3, <2>4, <2>5, <3>2 DEF Fresh, stamp
  <2>6. CASE calls[d].h # h
    BY <1>7, <2>1, <2>2, <2>3, <2>4, <2>6 DEF Fresh
  <2> QED
    BY <2>5, <2>6
<1>10. RecordsSound'
  <2> SUFFICES ASSUME NEW g \in Handoffs, records'[g] # Nil
              PROVE  LET x == records'[g]
                     IN /\ x.status = "pending" => x.claim = Nil /\ x.outcome = Nil
                        /\ x.outcome = "failed" => x.claim \in failed'
                        /\ x.result # Nil =>
                             facts[x.result] = [session |-> x.session, actor |-> x.to]
    BY <1>1 DEF RecordsSound, Evidence
  <2>1. CASE g = h
    <3>1. /\ r.status = "pending" => r.claim = Nil /\ r.outcome = Nil
          /\ r.outcome = "failed" => r.claim \in failed
          /\ r.result # Nil =>
               facts[r.result] = [session |-> r.session, actor |-> r.to]
      BY <1>2, <1>4 DEF IInv, RecordsSound, Evidence, r
    <3>2. Nil # "failed"
      BY NilAssumption DEF Outcomes
    <3>3. s.outcome = "failed" => s.claim \in failed'
      BY <1>1, <1>3, <1>8, <3>1, <3>2
    <3>4. s.result # Nil =>
            facts[s.result] = [session |-> s.session, actor |-> s.to]
      BY <1>3, <3>1 DEF Evidence
    <3> QED
      BY <1>3, <1>7, <2>1, <3>3, <3>4
  <2>2. CASE g # h
    BY <1>7, <1>8, <2>2 DEF IInv, RecordsSound, Evidence
  <2> QED
    BY <2>1, <2>2
<1>11. \A l \in Lanes :
         lanes[l].stage \in Active \cup {"accepting", "completed"} => lanes[l].h \in Handoffs
  BY DEF IInv, LocalTypeOK, LaneStates, Free, Active
<1>12. ClaimsHeld'
  <2> SUFFICES ASSUME NEW l \in Lanes, lanes'[l].stage \in Active
              PROVE  /\ records'[lanes'[l].h] # Nil
                     /\ records'[lanes'[l].h].claim = l \/ l \in failed'
    BY DEF ClaimsHeld
  <2>1. CASE lanes'[l] = lanes[l]
    <3>1. /\ lanes[l].h \in Handoffs
          /\ records[lanes[l].h] # Nil
          /\ records[lanes[l].h].claim = l \/ l \in failed
      BY <1>11, <2>1 DEF IInv, ClaimsHeld
    <3>2. CASE lanes[l].h = h
      <4>1. s.claim = r.claim \/ r.claim = Nil \/ r.claim \in failed
        BY <1>2, <1>3, <1>4 DEF IInv, RecordsSound, r
      <4>2. l # Nil
        BY NilAssumption, CallersAssumption
      <4>3. r.claim = l \/ l \in failed
        BY <3>1, <3>2 DEF r
      <4> QED
        BY <1>4, <1>7, <1>8, <2>1, <3>2, <4>1, <4>2, <4>3
    <3>3. CASE lanes[l].h # h
      BY <1>7, <1>8, <2>1, <3>1, <3>3
    <3> QED
      BY <3>2, <3>3
  <2>2. CASE lanes'[l] # lanes[l]
    <3>1. /\ l = c
          /\ lanes'[l].h = lanes[l].h
          /\ lanes[l].stage = "accepting"
      BY <1>5, <2>2 DEF Active
    <3>2. /\ lanes[l].h = h
          /\ q.op = "accept"
          /\ q.claim = l
      BY <3>1 DEF IInv, LanesCall
    <3> QED
      BY <1>3, <1>4, <1>7, <3>1, <3>2
  <2> QED
    BY <2>1, <2>2
<1>13. ReportsHold'
  <2> SUFFICES ASSUME NEW l \in Lanes, lanes'[l].stage = "completed"
              PROVE  Reported(lanes[l])'
    BY DEF ReportsHold
  <2>1. CASE lanes'[l] = lanes[l]
    <3>1. lanes[l].h \in Handoffs /\ Reported(lanes[l])
      BY <1>11, <2>1 DEF IInv, ReportsHold
    <3>2. lanes[l].h # h
      BY <1>3, <3>1 DEF Reported, r
    <3>3. records'[lanes[l].h] = records[lanes[l].h]
      BY <1>7, <3>1, <3>2
    <3> QED
      BY <1>1, <2>1, <3>1, <3>3 DEF Reported, Evidence
  <2>2. CASE lanes'[l] # lanes[l]
    <3>1. /\ l = c
          /\ lanes'[l].h = lanes[l].h
          /\ lanes'[l].fact = lanes[l].fact
          /\ lanes[l].stage = "returning"
          /\ calls[l].q.outcome # "failed"
      BY <1>5, <2>2
    <3>2. /\ lanes[l].h = h
          /\ q.op = "return"
          /\ q.fact = lanes[l].fact
      BY <3>1 DEF IInv, LanesCall
    <3>3. q.outcome = "succeeded"
      BY <1>3, <3>1, <3>2 DEF Outcomes
    <3>4. facts[q.fact] = [session |-> s.session, actor |-> s.to]
      BY <1>3, <3>2 DEF Evidence
    <3> QED
      BY <1>1, <1>3, <1>4, <1>7, <3>1, <3>2, <3>3, <3>4 DEF Reported, Evidence
  <2> QED
    BY <2>1, <2>2
<1> QED
  BY <1>5, <1>6, <1>9, <1>10, <1>12, <1>13 DEF IInv

(* The steps that write a fact, or change a caller and nothing else.       *)
LEMMA NoteKeeps ==
  ASSUME IInv, NEW f \in Facts, NEW session \in Sessions, NEW actor \in Actors,
         Note(f, session, actor)
  PROVE  IInv'
<1>1. /\ FactAdded(f, session, actor)
      /\ UNCHANGED <<stamps, calls, lanes, failed>>
  BY DEF Note
<1>2. /\ LedgerTypeOK'
      /\ records' = records
      /\ \A g \in Facts : facts[g] # Nil => facts'[g] = facts[g]
  BY <1>1, FactsStay DEF IInv, LocalTypeOK
<1>3. LocalTypeOK'
  BY <1>1, <1>2 DEF IInv, LocalTypeOK
<1>4. CallsFresh'
  BY <1>1, <1>2, DecisionsKept
<1>5. RecordsSound'
  BY <1>1, <1>2, RecordsKept
<1>6. LanesCall'
  BY <1>1 DEF IInv, LanesCall
<1>7. ClaimsHeld' /\ ReportsHold'
  <2>1. lanes' \in [Lanes -> LaneStates]
    BY <1>3 DEF LocalTypeOK
  <2> QED
    BY <1>1, <1>2, <2>1, LanesKept
<1> QED
  BY <1>3, <1>4, <1>5, <1>6, <1>7 DEF IInv

LEMMA AskKeeps ==
  ASSUME IInv, NEW p \in People, NEW h \in Handoffs, NEW q \in Requests, Ask(p, h, q)
  PROVE  IInv'
<1>1. /\ calls' = [calls EXCEPT ![p] = Asked(h, q)]
      /\ UNCHANGED <<records, facts, stamps, lanes, failed>>
  BY DEF Ask, ledger
<1>2. LocalTypeOK' /\ LedgerTypeOK'
  BY <1>1 DEF IInv, LocalTypeOK, LedgerTypeOK, CallStates, Asked
<1>3. \A d \in Callers : calls'[d].pc = "loaded" => calls'[d] = calls[d]
  BY <1>1 DEF IInv, LocalTypeOK, Asked
<1>4. CallsFresh' /\ RecordsSound'
  BY <1>1, <1>2, <1>3, DecisionsKept, RecordsKept
<1>5. LanesCall'
  <2>1. \A l \in Lanes : l # p /\ l \in Callers
    BY CallersAssumption DEF Callers
  <2>2. \A l \in Lanes : calls'[l] = calls[l]
    BY <1>1, <2>1 DEF IInv, LocalTypeOK
  <2> QED
    BY <1>1, <2>2 DEF IInv, LanesCall
<1>6. ClaimsHeld' /\ ReportsHold'
  <2>1. lanes' \in [Lanes -> LaneStates]
    BY <1>2 DEF LocalTypeOK
  <2> QED
    BY <1>1, <1>2, <2>1, LanesKept
<1> QED
  BY <1>2, <1>4, <1>5, <1>6 DEF IInv

LEMMA LoadKeeps ==
  ASSUME IInv, NEW c \in Callers, Load(c)
  PROVE  IInv'
<1> DEFINE call == calls[c]
           seen == records[call.h]
<1>1. /\ call.pc = "asked" /\ call # Idle
      /\ seen # Nil
      /\ UNCHANGED <<records, facts, stamps, failed>>
  BY DEF Load, ledger, Idle
<1>2. /\ call.h \in Handoffs /\ call.q \in Requests /\ seen \in Assignment
      /\ stamps[call.h] \in Nat
  BY <1>1 DEF IInv, LocalTypeOK, LedgerTypeOK, CallStates, Idle, Maybe
<1>3. CASE Allowed(seen, call.q)
  <2> DEFINE new == [pc |-> "loaded", h |-> call.h, q |-> call.q,
                     seen |-> seen, stamp |-> stamps[call.h]]
  <2>1. /\ calls' = [calls EXCEPT ![c] = new]
        /\ UNCHANGED lanes
    BY <1>3 DEF Load
  <2>2. new \in Decided /\ new \in CallStates
    BY <1>2 DEF Decided, CallStates
  <2>3. /\ new.pc = "loaded" /\ new.h = call.h /\ new.q = call.q
        /\ new.seen = seen /\ new.stamp = stamps[call.h]
        /\ new # Idle
    BY DEF Idle
  <2> HIDE DEF new
  <2>4. LocalTypeOK' /\ LedgerTypeOK'
    BY <1>1, <2>1, <2>2 DEF IInv, LocalTypeOK, LedgerTypeOK
  <2>5. /\ calls'[c] = new
        /\ \A d \in Callers \ {c} : calls'[d] = calls[d]
    BY <2>1 DEF IInv, LocalTypeOK
  <2>6. CallsFresh'
    <3>1. Fresh(new)
      BY <1>1, <1>2, <1>3, <2>3 DEF Fresh
    <3> SUFFICES ASSUME NEW d \in Callers, calls'[d].pc = "loaded"
                PROVE  Fresh(calls[d])'
      BY DEF CallsFresh
    <3>2. CASE d = c
      BY <1>1, <2>5, <3>1, <3>2 DEF Fresh, Allowed, Evidence, Repeats
    <3>3. CASE d # c
      BY <1>1, <2>5, <3>3 DEF IInv, CallsFresh, Fresh, Allowed, Evidence, Repeats
    <3> QED
      BY <3>2, <3>3
  <2>7. LanesCall'
    BY <1>1, <2>1, <2>3, <2>5 DEF IInv, LanesCall, Callers
  <2>8. RecordsSound'
    BY <1>1, <2>4, RecordsKept
  <2>9. ClaimsHeld' /\ ReportsHold'
    <3>1. lanes' \in [Lanes -> LaneStates]
      BY <2>4 DEF LocalTypeOK
    <3> QED
      BY <1>1, <2>1, <2>4, <3>1, LanesKept
  <2> QED
    BY <2>4, <2>6, <2>7, <2>8, <2>9 DEF IInv
<1>4. CASE ~Allowed(seen, call.q)
  <2>1. PICK ok \in BOOLEAN : ok = Repeats(seen, call.q)
    BY DEF Repeats
  <2>2. Answered(c, ok)
    BY <1>4, <2>1 DEF Load
  <2>3. UNCHANGED <<ledger, stamps, failed>>
    BY DEF Load
  <2> QED
    BY <1>1, <2>1, <2>2, <2>3, AnswerKept
<1> QED
  BY <1>3, <1>4

(* A step of a lane that changes the lane and its request, and no record:  *)
(* it is enough that both are what the lane's stage calls for.             *)
LEMMA LaneKeeps ==
  ASSUME IInv, NEW l \in Lanes, LedgerTypeOK', UNCHANGED <<records, stamps, failed>>,
         \A f \in Facts : facts[f] # Nil => facts'[f] = facts[f],
         NEW lane \in LaneStates, lanes' = [lanes EXCEPT ![l] = lane],
         NEW call \in CallStates, calls' = [calls EXCEPT ![l] = call],
         call.pc # "loaded" \/ call = calls[l],
         lane.stage # "completed",
         lane.stage \in Active =>
           lanes[l].stage \in Active /\ lane.h = lanes[l].h,
         /\ lane.stage = "accepting" =>
              /\ call # Idle
              /\ call.h = lane.h
              /\ call.q.op = "accept"
              /\ call.q.claim = l
         /\ lane.stage = "running" =>
              \/ call = Idle
              \/ call.h = lane.h /\ call.q.op = "heartbeat"
         /\ lane.stage = "returning" =>
              /\ call # Idle
              /\ call.h = lane.h
              /\ call.q.op = "return"
              /\ call.q.fact = lane.fact
         /\ lane.stage \notin Active \cup {"accepting"} => call = Idle
  PROVE  IInv'
<1>1. l \in Callers
  BY DEF Callers
<1>2. LocalTypeOK'
  BY <1>1 DEF IInv, LocalTypeOK
<1>3. /\ calls'[l] = call
      /\ lanes'[l] = lane
      /\ \A d \in Callers \ {l} : calls'[d] = calls[d]
      /\ \A k \in Lanes \ {l} : lanes'[k] = lanes[k]
  BY <1>1 DEF IInv, LocalTypeOK
<1>4. CallsFresh'
  <2>1. \A d \in Callers : calls'[d].pc = "loaded" => calls'[d] = calls[d]
    BY <1>3
  <2> QED
    BY <2>1, DecisionsKept
<1>5. LanesCall'
  <2> SUFFICES ASSUME NEW k \in Lanes, k # l
              PROVE  lanes'[k] = lanes[k] /\ calls'[k] = calls[k]
    BY <1>3 DEF IInv, LanesCall
  <2> QED
    BY <1>3 DEF Callers
<1>6. RecordsSound'
  BY RecordsKept
<1>7. ClaimsHeld' /\ ReportsHold'
  <2>1. \A k \in Lanes :
          lanes'[k].stage \in Active =>
            lanes[k].stage \in Active /\ lanes'[k].h = lanes[k].h
    BY <1>3
  <2>2. \A k \in Lanes : lanes'[k].stage = "completed" => lanes'[k] = lanes[k]
    BY <1>3
  <2>3. lanes' \in [Lanes -> LaneStates]
    BY <1>2 DEF LocalTypeOK
  <2> QED
    BY <2>1, <2>2, <2>3, LanesKept
<1> QED
  BY <1>2, <1>4, <1>5, <1>6, <1>7 DEF IInv

LEMMA LaneStartKeeps ==
  ASSUME IInv, NEW l \in Lanes, NEW h \in Handoffs, NEW actor \in Actors,
         LaneStart(l, h, actor)
  PROVE  IInv'
<1> DEFINE lane == [stage |-> "accepting", h |-> h, actor |-> actor, fact |-> Nil]
           call == Asked(h, [op |-> "accept", actor |-> actor, claim |-> l])
<1>1. /\ lanes' = [lanes EXCEPT ![l] = lane]
      /\ calls' = [calls EXCEPT ![l] = call]
      /\ UNCHANGED <<records, facts, stamps, failed>>
  BY DEF LaneStart, ledger
<1>2. lane \in LaneStates /\ call \in CallStates
  BY CallersAssumption DEF LaneStates, Stages, Maybe, CallStates, Requests, Asked
<1>3. /\ lane.stage = "accepting" /\ lane.h = h
      /\ call # Idle /\ call.h = h /\ call.pc = "asked"
      /\ call.q.op = "accept" /\ call.q.claim = l
  BY DEF Asked, Idle
<1>4. LedgerTypeOK'
  BY <1>1 DEF IInv, LocalTypeOK, LedgerTypeOK
<1> HIDE DEF lane, call
<1> QED
  BY <1>1, <1>2, <1>3, <1>4, LaneKeeps DEF Active

LEMMA LanePulseKeeps ==
  ASSUME IInv, NEW l \in Lanes, LanePulse(l)
  PROVE  IInv'
<1> DEFINE lane == lanes[l]
           call == Asked(lane.h, [op |-> "heartbeat", actor |-> lane.actor])
<1>1. /\ lane.stage = "running"
      /\ calls' = [calls EXCEPT ![l] = call]
      /\ UNCHANGED <<records, facts, stamps, lanes, failed>>
  BY DEF LanePulse, ledger
<1>2. /\ lane \in LaneStates
      /\ lane.h \in Handoffs /\ lane.actor \in Actors
      /\ lanes' = [lanes EXCEPT ![l] = lane]
  BY <1>1 DEF IInv, LocalTypeOK, LaneStates, Free
<1>3. call \in CallStates
  BY <1>2 DEF CallStates, Requests, Asked
<1>4. /\ call.h = lane.h /\ call.pc = "asked"
      /\ call.q.op = "heartbeat"
  BY DEF Asked
<1>5. LedgerTypeOK'
  BY <1>1 DEF IInv, LocalTypeOK, LedgerTypeOK
<1> HIDE DEF lane, call
<1>6. lane.stage = lanes[l].stage /\ lane.h = lanes[l].h
  BY DEF lane
<1> QED
  BY <1>1, <1>2, <1>3, <1>4, <1>5, <1>6, LaneKeeps DEF Active

LEMMA LaneRecordKeeps ==
  ASSUME IInv, NEW l \in Lanes, NEW f \in Facts, NEW outcome \in Outcomes,
         LaneRecord(l, f, outcome)
  PROVE  IInv'
<1>1. lanes[l].stage = "running"
  BY DEF LaneRecord
<1>2. lanes[l] \in [stage : Stages, h : Handoffs, actor : Actors, fact : Maybe(Facts)]
  BY <1>1 DEF IInv, LocalTypeOK, LaneStates, Free
<1> DEFINE h == lanes[l].h
           actor == lanes[l].actor
           lane == [stage |-> "returning", h |-> h, actor |-> actor, fact |-> f]
           call == Asked(h, [op |-> "return", actor |-> actor,
                             fact |-> f, outcome |-> outcome])
<1>3. /\ FactAdded(f, records[h].session, actor)
      /\ UNCHANGED <<stamps, failed>>
      /\ calls' = [calls EXCEPT ![l] = call]
  BY DEF LaneRecord
<1>4. lanes' = [lanes EXCEPT ![l] = lane]
  BY DEF LaneRecord
<1>5. records[h].session \in Sessions /\ actor \in Actors /\ h \in Handoffs
  <2>1. records[h] # Nil
    BY <1>1 DEF IInv, ClaimsHeld, Active
  <2> QED
    BY <1>2, <2>1 DEF IInv, LocalTypeOK, LedgerTypeOK, Maybe, Assignment
<1>6. /\ LedgerTypeOK'
      /\ records' = records
      /\ \A g \in Facts : facts[g] # Nil => facts'[g] = facts[g]
  BY <1>3, <1>5, FactsStay DEF IInv, LocalTypeOK
<1>7. lane \in LaneStates /\ call \in CallStates
  BY <1>5 DEF LaneStates, Stages, Active, Maybe, CallStates, Requests, Asked
<1>8. /\ lane.stage = "returning" /\ lane.h = lanes[l].h /\ lane.fact = f
      /\ call # Idle /\ call.h = lane.h /\ call.pc = "asked"
      /\ call.q.op = "return" /\ call.q.fact = f
  BY DEF Asked, Idle
<1> HIDE DEF lane, call
<1> QED
  BY <1>1, <1>3, <1>4, <1>6, <1>7, <1>8, LaneKeeps DEF Active

LEMMA LaneEndKeeps ==
  ASSUME IInv, NEW l \in Lanes,
         \/ \E outcome \in Outcomes : LaneRecordFails(l, outcome)
         \/ LaneStops(l)
  PROVE  IInv'
<1>1. PICK stage \in {"failed", "record_failed", "stopped"} :
        lanes' = [lanes EXCEPT ![l].stage = stage]
  BY DEF LaneRecordFails, LaneStops
<1>2. /\ lanes[l].stage \in Active \cup {"accepting"}
      /\ UNCHANGED <<records, facts, stamps, failed>>
  BY DEF LaneRecordFails, LaneStops, ledger, Active
<1>3. calls' = [calls EXCEPT ![l] = Idle]
  BY DEF LaneRecordFails, LaneStops, IInv, LocalTypeOK, Callers
<1> DEFINE lane == [lanes[l] EXCEPT !.stage = stage]
<1>4. lanes[l] \in [stage : Stages, h : Handoffs, actor : Actors, fact : Maybe(Facts)]
  BY <1>2 DEF IInv, LocalTypeOK, LaneStates, Free, Active
<1>5. lane \in LaneStates /\ lane.stage = stage
  BY <1>4 DEF LaneStates, Stages
<1>6. LedgerTypeOK' /\ Idle \in CallStates /\ Idle.pc # "loaded"
  BY <1>2 DEF IInv, LocalTypeOK, LedgerTypeOK, CallStates, Idle
<1>7. lanes' = [lanes EXCEPT ![l] = lane]
  BY <1>1
<1> HIDE DEF lane
<1> QED
  BY <1>2, <1>3, <1>5, <1>6, <1>7, LaneKeeps DEF Active

LEMMA NextHolds == IInv /\ [LocalNext]_vars => IInv'
<1> SUFFICES ASSUME IInv, [LocalNext]_vars
            PROVE  IInv'
  OBVIOUS
<1>1. ASSUME NEW h \in Handoffs, NEW session \in Sessions, NEW to \in Actors,
             NEW clock \in Clock, Dispatch(h, session, to, clock)
      PROVE  IInv'
  BY <1>1, DispatchKeeps
<1>2. ASSUME NEW f \in Facts, NEW session \in Sessions, NEW actor \in Actors,
             Note(f, session, actor)
      PROVE  IInv'
  BY <1>2, NoteKeeps
<1>3. ASSUME NEW p \in People, NEW h \in Handoffs, NEW q \in Requests, Ask(p, h, q)
      PROVE  IInv'
  BY <1>3, AskKeeps
<1>4. ASSUME NEW c \in Callers, LoadMissing(c) \/ Conflict(c) \/ Fail(c)
      PROVE  IInv'
  <2>1. /\ calls[c] # Idle
        /\ Answered(c, FALSE)
        /\ UNCHANGED <<ledger, stamps, failed>>
    <3>1. calls[c] # Idle
      <4>1. calls[c].pc \in {"asked", "loaded"} \/ calls[c] # Idle
        BY <1>4, Zenon DEF LoadMissing, Conflict, Fail
      <4>2. Idle.pc = "idle"
        BY DEF Idle
      <4> QED
        BY <4>1, <4>2
    <3>2. Answered(c, FALSE) /\ UNCHANGED <<ledger, stamps, failed>>
      BY <1>4, Zenon DEF LoadMissing, Conflict, Fail
    <3> QED
      BY <3>1, <3>2
  <2>2. PICK ok \in BOOLEAN : ok = FALSE
    OBVIOUS
  <2>3. Answered(c, ok)
    BY <2>1, <2>2, Zenon
  <2> QED
    BY <2>1, <2>2, <2>3, AnswerKept
<1>5. ASSUME NEW c \in Callers, Load(c)
      PROVE  IInv'
  BY <1>5, LoadKeeps
<1>6. ASSUME NEW c \in Callers, NEW clock \in Clock, NEW ok \in BOOLEAN,
             Persist(c, clock, ok)
      PROVE  IInv'
  BY <1>6, PersistKeeps
<1>7. ASSUME NEW l \in Lanes, NEW h \in Handoffs, NEW actor \in Actors,
             LaneStart(l, h, actor)
      PROVE  IInv'
  BY <1>7, LaneStartKeeps
<1>8. ASSUME NEW l \in Lanes, LanePulse(l)
      PROVE  IInv'
  BY <1>8, LanePulseKeeps
<1>9. ASSUME NEW l \in Lanes, NEW f \in Facts, NEW outcome \in Outcomes,
             LaneRecord(l, f, outcome)
      PROVE  IInv'
  BY <1>9, LaneRecordKeeps
<1>10. ASSUME NEW l \in Lanes,
              \/ \E outcome \in Outcomes : LaneRecordFails(l, outcome)
              \/ LaneStops(l)
       PROVE  IInv'
  BY <1>10, LaneEndKeeps
<1>11. CASE UNCHANGED vars
  <2>1. UNCHANGED <<records, facts, stamps, calls, lanes, failed>>
    BY <1>11 DEF vars, ledger
  <2>2. LocalTypeOK' /\ LedgerTypeOK'
    BY <2>1 DEF IInv, LocalTypeOK, LedgerTypeOK
  <2>3. CallsFresh' /\ RecordsSound'
    BY <2>1, <2>2, DecisionsKept, RecordsKept
  <2>4. LanesCall'
    BY <2>1 DEF IInv, LanesCall
  <2>5. ClaimsHeld' /\ ReportsHold'
    <3>1. lanes' \in [Lanes -> LaneStates]
      BY <2>2 DEF LocalTypeOK
    <3> QED
      BY <2>1, <2>2, <3>1, LanesKept
  <2> QED
    BY <2>2, <2>3, <2>4, <2>5 DEF IInv
<1> QED
  BY <1>1, <1>2, <1>3, <1>4, <1>5, <1>6, <1>7, <1>8, <1>9, <1>10, <1>11
  DEF LocalNext

-----------------------------------------------------------------------------

LEMMA Invariance == LocalSpec => []IInv
<1> QED
  BY InitHolds, NextHolds, PTL DEF LocalSpec

(* Every record, request and lane is of its type in every reachable state. *)
THEOREM LocalTypeCorrect == LocalSpec => []LocalTypeOK
<1>1. IInv => LocalTypeOK
  BY DEF IInv
<1> QED
  BY Invariance, <1>1, PTL

(* A lane at work has the claim on record, or its own failed return was    *)
(* recorded: the optimistic write of Persist lets no second claim in.      *)
THEOREM NoLaneLosesItsClaim == LocalSpec => []ClaimsAreExclusive
<1>1. IInv => ClaimsAreExclusive
  BY DEF IInv, ClaimsHeld, ClaimsAreExclusive
<1> QED
  BY Invariance, <1>1, PTL

(* A lane that reported success left the assignment completed by its own   *)
(* fact, and it stays so.                                                  *)
THEOREM LanesTellTheTruth == LocalSpec => []LanesReportTruth
<1>1. IInv => LanesReportTruth
  BY DEF IInv, ReportsHold, Reported, LanesReportTruth
<1> QED
  BY Invariance, <1>1, PTL

(* Reading, deciding and writing in separate steps implements the          *)
(* indivisible changes of Assignments: no update is lost.                  *)
THEOREM LocalImplements == LocalSpec => ImplementsAssignments
<1>1. LocalInit => Init
  BY DEF LocalInit
<1>2. IInv /\ [LocalNext]_vars => [Next]_ledger
  <2> SUFFICES ASSUME IInv, LocalNext
              PROVE  Next \/ UNCHANGED ledger
    BY DEF vars
  <2>1. ASSUME NEW c \in Callers, NEW clock \in Clock, NEW ok \in BOOLEAN,
               Persist(c, clock, ok)
        PROVE  Next
    <3>1. calls[c].h \in Handoffs /\ calls[c].q \in Requests
      BY <2>1, PersistChanges DEF Decided
    <3>2. records[calls[c].h] # Nil
      BY <2>1, PersistChanges, NilAssumption
    <3>3. Change(calls[c].h, calls[c].q)
      BY <2>1, <3>2, PersistChanges DEF Change
    <3> QED
      BY <3>1, <3>3 DEF Next
  <2>2. ASSUME NEW l \in Lanes, NEW f \in Facts, NEW outcome \in Outcomes,
               LaneRecord(l, f, outcome)
        PROVE  Next
    <3>1. /\ lanes[l].stage = "running"
          /\ FactAdded(f, records[lanes[l].h].session, lanes[l].actor)
      BY <2>2 DEF LaneRecord
    <3>2. lanes[l].h \in Handoffs /\ lanes[l].actor \in Actors
      BY <3>1 DEF IInv, LocalTypeOK, LaneStates, Free
    <3>3. records[lanes[l].h] \in Assignment
      BY <3>1, <3>2 DEF IInv, ClaimsHeld, Active, LocalTypeOK, LedgerTypeOK, Maybe
    <3> QED
      BY <3>1, <3>2, <3>3 DEF Next, Assignment
  <2>3. CASE \/ \E h \in Handoffs, session \in Sessions, to \in Actors, clock \in Clock :
                  Dispatch(h, session, to, clock)
             \/ \E f \in Facts, session \in Sessions, actor \in Actors :
                  Note(f, session, actor)
    BY <2>3 DEF Dispatch, Note, Next
  <2> QED
    BY <2>1, <2>2, <2>3
    DEF LocalNext, Ask, LoadMissing, Load, Conflict, Fail, LaneStart, LanePulse,
        LaneRecordFails, LaneStops
<1> QED
  BY <1>1, <1>2, Invariance, PTL DEF LocalSpec, ImplementsAssignments, Spec
=============================================================================
