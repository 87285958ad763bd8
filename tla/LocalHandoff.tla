---------------------------- MODULE LocalHandoff ----------------------------
(***************************************************************************)
(* The assignment ledger as it runs: a request reads its handoff's entity  *)
(* in one call of the store, decides on what it read, and writes the       *)
(* record back in another if the entity's stamp is still the one it read.  *)
(*                                                                         *)
(* The callers are people, who send any request without a claim token, and *)
(* worker lanes.  A lane runs once, under a token of its own: it accepts a *)
(* handoff, runs an external agent, pulses heartbeats meanwhile, writes    *)
(* the result or the error as a fact and returns it.  Any caller may stop  *)
(* at any point, and a store call may fail.  Facts are not deleted.        *)
(***************************************************************************)
EXTENDS Assignments

CONSTANTS
  Lanes,
  People,
  MaxClock,     \* bound: the readings of the callers' clocks
  MaxRevision   \* bound: changes of one record

ASSUME CallersAssumption == Claims = Lanes /\ Lanes \cap People = {}

ASSUME BoundsAssumption == MaxClock \in Nat /\ MaxRevision \in Nat

VARIABLES
  stamps,  \* updated_at of each handoff's entity
  calls,   \* the request each caller has under way
  lanes,   \* what each worker lane is doing
  failed   \* the claims a failed return was recorded for

vars == <<ledger, stamps, calls, lanes, failed>>

Callers == Lanes \cup People

Clock == 0..MaxClock

Idle == [pc |-> "idle"]

Asked(h, q) == [pc |-> "asked", h |-> h, q |-> q]

Active == {"running", "returning"}

Stages == Active \cup {"accepting", "completed", "failed", "record_failed", "stopped"}

Free == [stage |-> "free"]

CallStates ==
  {Idle}
    \cup [pc : {"asked"}, h : Handoffs, q : Requests]
    \cup [pc : {"loaded"}, h : Handoffs, q : Requests, seen : Assignment, stamp : Nat]

LaneStates ==
  {Free} \cup [stage : Stages, h : Handoffs, actor : Actors, fact : Maybe(Facts)]

LocalTypeOK ==
  /\ LedgerTypeOK
  /\ stamps \in [Handoffs -> Nat]
  /\ calls \in [Callers -> CallStates]
  /\ lanes \in [Lanes -> LaneStates]
  /\ failed \subseteq Maybe(Claims)

-----------------------------------------------------------------------------

LocalInit ==
  /\ Init
  /\ stamps = [h \in Handoffs |-> 0]
  /\ calls = [c \in Callers |-> Idle]
  /\ lanes = [l \in Lanes |-> Free]
  /\ failed = {}

Dispatch(h, session, to, clock) ==
  /\ Dispatched(h, session, to)
  /\ stamps' = [stamps EXCEPT ![h] = clock]
  /\ UNCHANGED <<calls, lanes, failed>>

Note(f, session, actor) ==
  /\ FactAdded(f, session, actor)
  /\ UNCHANGED <<stamps, calls, lanes, failed>>

Ask(p, h, q) ==
  /\ calls[p] = Idle
  /\ q.op = "accept" => q.claim = Nil
  /\ calls' = [calls EXCEPT ![p] = Asked(h, q)]
  /\ UNCHANGED <<ledger, stamps, lanes, failed>>

-----------------------------------------------------------------------------

(* What the answer to a lane's request makes of the lane.  The answer to a *)
(* heartbeat is ignored.                                                   *)
StageAfter(stage, q, ok) ==
  CASE stage = "accepting" -> IF ok THEN "running" ELSE "stopped"
    [] stage = "returning" ->
         IF q.outcome = "failed" THEN "failed"
         ELSE IF ok THEN "completed" ELSE "record_failed"
    [] OTHER -> stage

Answered(c, ok) ==
  /\ calls' = [calls EXCEPT ![c] = Idle]
  /\ lanes' = [l \in Lanes |->
       IF l = c
       THEN [lanes[l] EXCEPT !.stage = StageAfter(@, calls[c].q, ok)]
       ELSE lanes[l]]

LoadMissing(c) ==
  /\ calls[c].pc = "asked"
  /\ records[calls[c].h] = Nil
  /\ Answered(c, FALSE)
  /\ UNCHANGED <<ledger, stamps, failed>>

(* The evidence of a return is read after the record, and before it is     *)
(* written; a fact that is there stays there.                              *)
Load(c) ==
  /\ calls[c].pc = "asked"
  /\ records[calls[c].h] # Nil
  /\ LET call == calls[c]
         seen == records[call.h]
     IN IF Allowed(seen, call.q)
        THEN /\ calls' = [calls EXCEPT ![c] =
                  [pc |-> "loaded", h |-> call.h, q |-> call.q,
                   seen |-> seen, stamp |-> stamps[call.h]]]
             /\ UNCHANGED lanes
        ELSE Answered(c, Repeats(seen, call.q))
  /\ UNCHANGED <<ledger, stamps, failed>>

Larger(a, b) == IF a < b THEN b ELSE a

(* Fault: the new stamp is the clock's reading alone.                      *)
StampedByClock(old, clock) == clock

Stamped(old, clock) == Larger(clock, old + 1)

(* The write of a decided request.                                         *)
Write(c, clock, ok) ==
  LET call == calls[c]
  IN /\ call.seen.revision < MaxRevision
     /\ records' = [records EXCEPT ![call.h] = Changed(call.seen, call.q)]
     /\ stamps' = [stamps EXCEPT ![call.h] = Stamped(@, clock)]
     /\ failed' = IF call.q.op = "return" /\ call.q.outcome = "failed"
                  THEN failed \cup {call.seen.claim} ELSE failed
     /\ Answered(c, ok)
     /\ UNCHANGED facts

(* Fault: the record is written whatever happened since it was read.       *)
PersistUnchecked(c, clock, ok) ==
  /\ calls[c].pc = "loaded"
  /\ Write(c, clock, ok)

(* An accept that was written may still be answered with an error: the     *)
(* packet it is answered with is built by further reads.                   *)
Persist(c, clock, ok) ==
  /\ calls[c].pc = "loaded"
  /\ stamps[calls[c].h] = calls[c].stamp
  /\ calls[c].q.op = "accept" \/ ok
  /\ Write(c, clock, ok)

Conflict(c) ==
  /\ calls[c].pc = "loaded"
  /\ stamps[calls[c].h] # calls[c].stamp
  /\ Answered(c, FALSE)
  /\ UNCHANGED <<ledger, stamps, failed>>

(* A store call fails, or a person's process is killed.                    *)
Fail(c) ==
  /\ calls[c] # Idle
  /\ Answered(c, FALSE)
  /\ UNCHANGED <<ledger, stamps, failed>>

-----------------------------------------------------------------------------

LaneStart(l, h, actor) ==
  /\ lanes[l] = Free
  /\ lanes' = [lanes EXCEPT ![l] =
       [stage |-> "accepting", h |-> h, actor |-> actor, fact |-> Nil]]
  /\ calls' = [calls EXCEPT ![l] =
       Asked(h, [op |-> "accept", actor |-> actor, claim |-> l])]
  /\ UNCHANGED <<ledger, stamps, failed>>

LanePulse(l) ==
  /\ lanes[l].stage = "running"
  /\ calls[l] = Idle
  /\ calls' = [calls EXCEPT ![l] =
       Asked(lanes[l].h, [op |-> "heartbeat", actor |-> lanes[l].actor])]
  /\ UNCHANGED <<ledger, stamps, lanes, failed>>

(* The agent ended: its result or its error becomes a fact of the session. *)
LaneRecord(l, f, outcome) ==
  /\ lanes[l].stage = "running"
  /\ calls[l] = Idle
  /\ FactAdded(f, records[lanes[l].h].session, lanes[l].actor)
  /\ lanes' = [lanes EXCEPT ![l] =
       [stage |-> "returning", h |-> lanes[l].h, actor |-> lanes[l].actor, fact |-> f]]
  /\ calls' = [calls EXCEPT ![l] =
       Asked(lanes[l].h, [op |-> "return", actor |-> lanes[l].actor,
                          fact |-> f, outcome |-> outcome])]
  /\ UNCHANGED <<stamps, failed>>

LaneRecordFails(l, outcome) ==
  /\ lanes[l].stage = "running"
  /\ calls[l] = Idle
  /\ lanes' = [lanes EXCEPT ![l].stage =
       IF outcome = "failed" THEN "failed" ELSE "record_failed"]
  /\ UNCHANGED <<ledger, stamps, calls, failed>>

(* The lane is killed, or it raises before the agent is started.           *)
LaneStops(l) ==
  /\ lanes[l].stage \in Active \cup {"accepting"}
  /\ lanes' = [lanes EXCEPT ![l].stage = "stopped"]
  /\ calls' = [calls EXCEPT ![l] = Idle]
  /\ UNCHANGED <<ledger, stamps, failed>>

LocalNext ==
  \/ \E h \in Handoffs, session \in Sessions, to \in Actors, clock \in Clock :
       Dispatch(h, session, to, clock)
  \/ \E f \in Facts, session \in Sessions, actor \in Actors :
       Note(f, session, actor)
  \/ \E p \in People, h \in Handoffs : \E q \in Requests : Ask(p, h, q)
  \/ \E c \in Callers : LoadMissing(c)
  \/ \E c \in Callers : Load(c)
  \/ \E c \in Callers, clock \in Clock, ok \in BOOLEAN : Persist(c, clock, ok)
  \/ \E c \in Callers : Conflict(c)
  \/ \E c \in Callers : Fail(c)
  \/ \E l \in Lanes, h \in Handoffs, actor \in Actors : LaneStart(l, h, actor)
  \/ \E l \in Lanes : LanePulse(l)
  \/ \E l \in Lanes, f \in Facts, outcome \in Outcomes : LaneRecord(l, f, outcome)
  \/ \E l \in Lanes, outcome \in Outcomes : LaneRecordFails(l, outcome)
  \/ \E l \in Lanes : LaneStops(l)

LocalSpec == LocalInit /\ [][LocalNext]_vars

-----------------------------------------------------------------------------

(* Concurrent accepts, heartbeats, returns and completions change a record *)
(* one at a time, each from the record that was there: no update is lost.  *)
ImplementsAssignments == Spec

(* Two lanes never work on one handoff: the claim of a lane at work is the *)
(* one on record, unless a failed return was recorded for it.              *)
ClaimsAreExclusive ==
  \A l \in Lanes :
    lanes[l].stage \in Active =>
      \/ records[lanes[l].h].claim = l
      \/ l \in failed

(* A lane that reports a completed assignment finds it completed, from     *)
(* then on, by the fact it wrote itself.                                   *)
LanesReportTruth ==
  \A l \in Lanes :
    lanes[l].stage = "completed" =>
      LET r == records[lanes[l].h]
      IN /\ r.status = "completed"
         /\ r.outcome = "succeeded"
         /\ r.result = lanes[l].fact
         /\ Evidence(r, lanes[l].fact)
=============================================================================
