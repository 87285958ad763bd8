--------------------------- MODULE ExecutorProofs ---------------------------
(***************************************************************************)
(* Proofs about Executor, for every set of executions, infinite ones too,  *)
(* and every finite set of connections.                                    *)
(***************************************************************************)
EXTENDS Executor, FiniteSetTheorems, TLAPS

Holding == {"taking"} \cup Tasks

Leasing == {"running", "finished"}

States ==
  [pc : {"idle", "waiting"} \cup Holding, conn : PoolConns \cup {None},
   result : {None, "ok", "error"}, waits : BOOLEAN,
   answer : {None, "ok", "error", "saturated", "timed_out"}]

(* Every call keeps the shape of its kind, and a result is there when the  *)
(* work is over.                                                           *)
PoolTypeOK ==
  /\ permits \in Nat
  /\ pool \in SUBSET PoolConns
  /\ broken \in SUBSET PoolConns
  /\ calls \in [Calls -> States]

(* Permits and connections, counted.                                       *)
Counted ==
  /\ IsFiniteSet(Holders)
  /\ permits + Cardinality(Holders) = PoolSize
  /\ Cardinality(pool) + Cardinality(Leased) = PoolSize

IInv == PoolTypeOK /\ Counted /\ ConnectionsConserved

-----------------------------------------------------------------------------

(* A subset of finitely many connections or holders can be counted.        *)
LEMMA Countable ==
  ASSUME IInv
  PROVE  /\ PoolSize \in Nat
         /\ IsFiniteSet(pool) /\ Cardinality(pool) \in Nat
         /\ IsFiniteSet(Leased) /\ Cardinality(Leased) \in Nat
         /\ Cardinality(Holders) \in Nat
<1>1. PoolSize \in Nat
  BY PoolAssumption, FS_CardinalityType DEF PoolSize
<1>2. IsFiniteSet(pool)
  BY PoolAssumption, FS_Subset DEF IInv, PoolTypeOK
<1>3. Leased \in SUBSET Holders
  BY DEF Leased, Holders, Tasks
<1>4. IsFiniteSet(Holders)
  BY DEF IInv, Counted
<1>5. IsFiniteSet(Leased)
  BY <1>3, <1>4, FS_Subset
<1>6. QED
  BY <1>1, <1>2, <1>4, <1>5, FS_CardinalityType

(* What one call's change of state does to the two sets.                   *)
LEMMA OneCallMoves ==
  ASSUME NEW k \in Calls, \A j \in Calls \ {k} : calls'[j] = calls[j]
  PROVE  /\ calls'[k].pc \in Holding => Holders' = Holders \cup {k}
         /\ calls'[k].pc \notin Holding => Holders' = Holders \ {k}
         /\ calls'[k].pc \in Leasing => Leased' = Leased \cup {k}
         /\ calls'[k].pc \notin Leasing => Leased' = Leased \ {k}
BY DEF Holders, Leased, Holding, Leasing

(* The connections stay accounted for when a call that has none, and gets  *)
(* none, changes.                                                          *)
LEMMA OthersConserved ==
  ASSUME PoolTypeOK, ConnectionsConserved, NEW k \in Calls, NEW r,
         calls' = [calls EXCEPT ![k] = r], pool' = pool,
         r.conn = calls[k].conn,
         r.pc \in Leasing <=> calls[k].pc \in Leasing
  PROVE  ConnectionsConserved'
<1>1. /\ calls'[k] = r
      /\ \A j \in Calls \ {k} : calls'[j] = calls[j]
  BY DEF PoolTypeOK
<1>2. \A j \in Calls : calls'[j].conn = calls[j].conn
  BY <1>1
<1>3. Leased' = Leased
  BY <1>1 DEF Leased, Leasing
<1>4. QED
  BY <1>2, <1>3 DEF ConnectionsConserved

-----------------------------------------------------------------------------

LEMMA InitHolds == PoolInit => IInv
<1> SUFFICES ASSUME PoolInit PROVE IInv
  OBVIOUS
<1>1. PoolSize \in Nat
  BY PoolAssumption, FS_CardinalityType DEF PoolSize
<1>2. Holders = {} /\ Leased = {}
  BY DEF PoolInit, IdleCall, Holders, Leased, Tasks
<1>3. PoolTypeOK
  BY <1>1 DEF PoolInit, IdleCall, PoolTypeOK, States
<1>4. Counted
  BY <1>1, <1>2, FS_EmptySet DEF PoolInit, Counted, PoolSize
<1>5. ConnectionsConserved
  BY <1>2, PoolAssumption DEF PoolInit, IdleCall, ConnectionsConserved, Leased
<1>6. QED
  BY <1>3, <1>4, <1>5 DEF IInv

(* Steps that neither take nor give back anything.                         *)
LEMMA QuietStep ==
  ASSUME IInv, NEW k \in Calls, NEW r \in States,
         calls' = [calls EXCEPT ![k] = r], permits' = permits, pool' = pool,
         broken' \in SUBSET PoolConns, r.conn = calls[k].conn,
         r.pc \in Holding <=> calls[k].pc \in Holding,
         r.pc \in Leasing <=> calls[k].pc \in Leasing
  PROVE  IInv'
<1>1. PoolTypeOK'
  BY DEF IInv, PoolTypeOK
<1>2. Holders' = Holders /\ Leased' = Leased
  <2>1. /\ calls'[k].pc = r.pc
        /\ \A j \in Calls \ {k} : calls'[j] = calls[j]
    BY DEF IInv, PoolTypeOK
  <2>2. QED
    BY <2>1 DEF Holders, Leased, Holding, Leasing
<1>3. Counted'
  BY <1>2 DEF IInv, Counted, PoolSize
<1>4. ConnectionsConserved'
  BY OthersConserved DEF IInv
<1>5. QED
  BY <1>1, <1>3, <1>4 DEF IInv

(* A permit goes back from a call that has no connection.                  *)
LEMMA PermitGiven ==
  ASSUME IInv, NEW k \in Calls, NEW r \in States,
         calls' = [calls EXCEPT ![k] = r], permits' = permits + 1,
         pool' = pool, broken' = broken,
         k \in Holders, k \notin Leased, r.pc \notin Holding, r.conn = None
  PROVE  IInv'
<1>1. permits + 1 \in Nat
  BY DEF IInv, PoolTypeOK
<1>2. PoolTypeOK'
  BY <1>1 DEF IInv, PoolTypeOK
<1>3. Holders' = Holders \ {k} /\ Leased' = Leased
  <2>1. /\ calls'[k].pc = r.pc
        /\ \A j \in Calls \ {k} : calls'[j] = calls[j]
    BY DEF IInv, PoolTypeOK
  <2>2. calls'[k].pc \notin Leasing
    BY <2>1 DEF Holding, Leasing, Tasks
  <2>3. QED
    BY <2>1, <2>2, OneCallMoves
<1>4. /\ IsFiniteSet(Holders \ {k})
      /\ Cardinality(Holders \ {k}) = Cardinality(Holders) - 1
  BY FS_RemoveElement DEF IInv, Counted
<1>5. permits + 1 + (Cardinality(Holders) - 1) = PoolSize
  BY Countable DEF IInv, Counted, PoolTypeOK
<1>6. Counted'
  BY <1>3, <1>4, <1>5 DEF IInv, Counted, PoolSize
<1>7. calls[k].conn = None
  BY DEF IInv, ConnectionsConserved
<1>8. ConnectionsConserved'
  BY <1>7, OthersConserved DEF IInv, Leased, Leasing, Holding, Tasks
<1>9. QED
  BY <1>2, <1>6, <1>8 DEF IInv

LEMMA AcquireKeeps ==
  ASSUME IInv, NEW k \in Calls, AcquirePermit(k)
  PROVE  IInv'
<1> DEFINE r == [calls[k] EXCEPT !.pc = "taking"]
<1>1. /\ calls[k] \in States
      /\ calls' = [calls EXCEPT ![k] = r]
      /\ permits' = permits - 1 /\ permits > 0
      /\ pool' = pool /\ broken' = broken
      /\ calls[k].pc = "waiting"
  BY DEF IInv, PoolTypeOK, AcquirePermit
<1>2. r \in States /\ r.pc = "taking" /\ r.conn = calls[k].conn
  BY <1>1 DEF States, Holding
<1>3. permits - 1 \in Nat
  BY <1>1 DEF IInv, PoolTypeOK
<1> HIDE DEF r
<1>4. PoolTypeOK'
  BY <1>1, <1>2, <1>3 DEF IInv, PoolTypeOK
<1>5. k \notin Holders /\ k \notin Leased
  BY <1>1 DEF Holders, Leased, Tasks
<1>6. Holders' = Holders \cup {k} /\ Leased' = Leased
  <2>1. /\ calls'[k].pc = "taking"
        /\ \A j \in Calls \ {k} : calls'[j] = calls[j]
    BY <1>1, <1>2 DEF IInv, PoolTypeOK
  <2>2. calls'[k].pc \in Holding /\ calls'[k].pc \notin Leasing
    BY <2>1 DEF Holding, Leasing
  <2>3. QED
    BY <1>5, <2>1, <2>2, OneCallMoves
<1>7. /\ IsFiniteSet(Holders \cup {k})
      /\ Cardinality(Holders \cup {k}) = Cardinality(Holders) + 1
  BY <1>5, FS_AddElement DEF IInv, Counted
<1>8. permits - 1 + (Cardinality(Holders) + 1) = PoolSize
  BY Countable DEF IInv, Counted, PoolTypeOK
<1>9. Counted'
  BY <1>1, <1>6, <1>7, <1>8 DEF IInv, Counted, PoolSize
<1>10. ConnectionsConserved'
  BY <1>1, <1>2, OthersConserved DEF IInv, Leasing
<1>11. QED
  BY <1>4, <1>9, <1>10 DEF IInv

LEMMA TakeKeeps ==
  ASSUME IInv, NEW k \in Calls, TakeConnection(k)
  PROVE  IInv'
<1>1. PICK c \in pool :
        /\ pool' = pool \ {c}
        /\ calls' = [calls EXCEPT ![k] =
             [@ EXCEPT !.pc = "running", !.conn = c]]
  BY DEF TakeConnection
<1> DEFINE r == [calls[k] EXCEPT !.pc = "running", !.conn = c]
<1>2. /\ calls[k] \in States
      /\ calls[k].pc = "taking"
      /\ permits' = permits /\ broken' = broken
      /\ c \in PoolConns
  BY DEF IInv, PoolTypeOK, TakeConnection
<1>3. calls' = [calls EXCEPT ![k] = r]
  BY <1>1
<1>4. r \in States /\ r.pc = "running" /\ r.conn = c
  BY <1>2 DEF States, Holding, Tasks
<1> HIDE DEF r
<1>5. PoolTypeOK'
  BY <1>1, <1>2, <1>3, <1>4 DEF IInv, PoolTypeOK
<1>6. k \in Holders /\ k \notin Leased
  BY <1>2 DEF Holders, Leased
<1>7. Holders' = Holders /\ Leased' = Leased \cup {k}
  <2>1. /\ calls'[k].pc = "running"
        /\ \A j \in Calls \ {k} : calls'[j] = calls[j]
    BY <1>3, <1>4 DEF IInv, PoolTypeOK
  <2>2. calls'[k].pc \in Holding /\ calls'[k].pc \in Leasing
    BY <2>1 DEF Holding, Leasing, Tasks
  <2>3. QED
    BY <1>6, <2>1, <2>2, OneCallMoves
<1>8. Cardinality(Leased \cup {k}) = Cardinality(Leased) + 1
  BY <1>6, Countable, FS_AddElement
<1>9. Cardinality(pool \ {c}) = Cardinality(pool) - 1
  BY Countable, FS_RemoveElement
<1>10. Cardinality(pool) - 1 + (Cardinality(Leased) + 1) = PoolSize
  BY Countable DEF IInv, Counted
<1>11. Counted'
  BY <1>1, <1>2, <1>7, <1>8, <1>9, <1>10 DEF IInv, Counted, PoolSize
<1>12. /\ calls'[k].conn = c
       /\ \A j \in Calls \ {k} : calls'[j] = calls[j]
  BY <1>3, <1>4 DEF IInv, PoolTypeOK
<1>13. ConnectionsConserved'
  <2>1. ConnectionsConserved
    BY DEF IInv
  <2>2. c # None
    BY <1>2, PoolAssumption
  <2>3. \A j \in Calls : j \in Leased' <=> calls'[j].conn # None
    BY <1>7, <1>12, <2>1, <2>2 DEF ConnectionsConserved
  <2>4. \A j \in Calls : calls'[j].conn \notin pool'
    BY <1>1, <1>12, <2>1 DEF ConnectionsConserved
  <2>5. \A i, j \in Leased' : calls'[i].conn = calls'[j].conn => i = j
    <3>1. \A i \in Leased : i \in Calls /\ i # k /\ calls[i].conn # c
      BY <1>6, <2>1 DEF ConnectionsConserved, Leased
    <3>2. QED
      BY <1>7, <1>12, <2>1, <3>1 DEF ConnectionsConserved
  <2>6. \A d \in PoolConns \ pool' : \E j \in Leased' : calls'[j].conn = d
    <3>1. TAKE d \in PoolConns \ pool'
    <3>2. CASE d = c
      BY <1>7, <1>12, <3>2
    <3>3. CASE d # c
      <4>1. PICK j \in Leased : calls[j].conn = d
        BY <1>1, <2>1, <3>3 DEF ConnectionsConserved
      <4>2. j \in Calls \ {k}
        BY <1>6 DEF Leased
      <4>3. QED
        BY <1>7, <1>12, <4>1, <4>2
    <3>4. QED
      BY <3>2, <3>3
  <2>7. QED
    BY <2>3, <2>4, <2>5, <2>6 DEF ConnectionsConserved
<1>14. QED
  BY <1>5, <1>11, <1>13 DEF IInv

LEMMA PutBackKeeps ==
  ASSUME IInv, NEW k \in Calls, PutBack(k)
  PROVE  IInv'
<1> DEFINE r == [calls[k] EXCEPT !.pc = "returned", !.conn = None]
           c == calls[k].conn
<1>1. /\ calls[k] \in States
      /\ calls[k].pc = "finished"
      /\ permits' = permits /\ broken' = broken
      /\ calls' = [calls EXCEPT ![k] = r]
  BY DEF IInv, PoolTypeOK, PutBack
<1>2. r \in States /\ r.pc = "returned" /\ r.conn = None
  BY <1>1 DEF States, Holding, Tasks
<1>3. ConnectionsConserved
  BY DEF IInv
<1>4. k \in Holders /\ k \in Leased
  BY <1>1 DEF Holders, Leased, Tasks
<1>5. c \in PoolConns /\ c \notin pool
  BY <1>1, <1>3, <1>4 DEF ConnectionsConserved, States
<1>6. Cardinality(Leased \ {k}) = Cardinality(Leased) - 1
  BY <1>4, Countable, FS_RemoveElement
<1>7. Cardinality(Leased) > 0
  BY <1>4, Countable, FS_EmptySet
<1>8. Cardinality(pool) < PoolSize
  BY <1>7, Countable DEF IInv, Counted
<1>9. pool' = pool \cup {c}
  BY <1>8 DEF PutBack
<1>10. Cardinality(pool \cup {c}) = Cardinality(pool) + 1
  BY <1>5, Countable, FS_AddElement
<1> HIDE DEF r
<1>11. PoolTypeOK'
  BY <1>1, <1>2, <1>5, <1>9 DEF IInv, PoolTypeOK
<1>12. Holders' = Holders /\ Leased' = Leased \ {k}
  <2>1. /\ calls'[k].pc = "returned"
        /\ \A j \in Calls \ {k} : calls'[j] = calls[j]
    BY <1>1, <1>2 DEF IInv, PoolTypeOK
  <2>2. calls'[k].pc \in Holding /\ calls'[k].pc \notin Leasing
    BY <2>1 DEF Holding, Leasing, Tasks
  <2>3. QED
    BY <1>4, <2>1, <2>2, OneCallMoves
<1>13. Cardinality(pool) + 1 + (Cardinality(Leased) - 1) = PoolSize
  BY Countable DEF IInv, Counted
<1>14. Counted'
  BY <1>1, <1>6, <1>9, <1>10, <1>12, <1>13 DEF IInv, Counted, PoolSize
<1>15. /\ calls'[k].conn = None
       /\ \A j \in Calls \ {k} : calls'[j] = calls[j]
  BY <1>1, <1>2 DEF IInv, PoolTypeOK
<1>16. ConnectionsConserved'
  <2>1. \A j \in Calls : j \in Leased' <=> calls'[j].conn # None
    BY <1>3, <1>12, <1>15 DEF ConnectionsConserved
  <2>2. \A j \in Leased \ {k} : j \in Calls \ {k} /\ calls[j].conn # c
    BY <1>3, <1>4 DEF ConnectionsConserved, Leased
  <2>3. \A j \in Calls : calls'[j].conn \notin pool'
    <3>1. TAKE j \in Calls
    <3>2. CASE j = k
      BY <1>5, <1>9, <1>15, <3>2, PoolAssumption DEF IInv, PoolTypeOK
    <3>3. CASE j # k
      <4>1. calls[j].conn \notin pool /\ calls'[j] = calls[j]
        BY <1>3, <1>15, <3>3 DEF ConnectionsConserved
      <4>2. calls[j].conn # c
        BY <1>3, <1>4, <1>5, <2>2, <3>3, PoolAssumption
           DEF ConnectionsConserved
      <4>3. QED
        BY <1>9, <4>1, <4>2
    <3>4. QED
      BY <3>2, <3>3
  <2>4. \A i, j \in Leased' : calls'[i].conn = calls'[j].conn => i = j
    BY <1>3, <1>12, <1>15, <2>2 DEF ConnectionsConserved
  <2>5. \A d \in PoolConns \ pool' : \E j \in Leased' : calls'[j].conn = d
    <3>1. TAKE d \in PoolConns \ pool'
    <3>2. PICK j \in Leased : calls[j].conn = d
      BY <1>3, <1>9 DEF ConnectionsConserved
    <3>3. j # k
      BY <1>9, <3>2
    <3>4. QED
      BY <1>12, <1>15, <2>2, <3>2, <3>3
  <2>6. QED
    BY <2>1, <2>3, <2>4, <2>5 DEF ConnectionsConserved
<1>17. QED
  BY <1>11, <1>14, <1>16 DEF IInv

(* What the other actions do is one of the lemmas above.                   *)
LEMMA ActionsKeep ==
  ASSUME IInv, NEW k \in Calls,
         \/ Call(k)
         \/ AcquireTimeout(k)
         \/ Work(k)
         \/ EndTask(k)
         \/ OperationTimeout(k)
         \/ Disconnect(k)
  PROVE  IInv'
<1>0. /\ calls[k] \in States
      /\ broken \in SUBSET PoolConns
      /\ calls[k].pc \notin Leasing => calls[k].conn = None
  BY DEF IInv, PoolTypeOK, ConnectionsConserved, Leased, Leasing
<1>1. CASE Call(k)
  <2> DEFINE r == [IdleCall(None) EXCEPT !.pc = "waiting", !.waits = TRUE]
  <2>1. r \in States /\ r.pc = "waiting" /\ r.conn = None
    BY DEF States, IdleCall
  <2>2. /\ calls' = [calls EXCEPT ![k] = r]
        /\ calls[k].pc = "idle"
        /\ permits' = permits /\ pool' = pool /\ broken' = broken
    BY <1>1 DEF Call
  <2> HIDE DEF r
  <2>3. QED
    BY <1>0, <2>1, <2>2, QuietStep DEF Holding, Leasing, Tasks
<1>2. CASE AcquireTimeout(k)
  <2> DEFINE r == IdleCall("saturated")
  <2>1. r \in States /\ r.pc = "idle" /\ r.conn = None
    BY DEF States, IdleCall
  <2>2. /\ calls' = [calls EXCEPT ![k] = r]
        /\ calls[k].pc = "waiting"
        /\ permits' = permits /\ pool' = pool /\ broken' = broken
    BY <1>2 DEF AcquireTimeout
  <2> HIDE DEF r
  <2>3. QED
    BY <1>0, <2>1, <2>2, QuietStep DEF Holding, Leasing, Tasks
<1>3. CASE Work(k)
  <2>1. PICK result \in {"ok", "error"} :
          calls' = [calls EXCEPT ![k] =
                      [@ EXCEPT !.pc = "finished", !.result = result]]
    BY <1>3 DEF Work
  <2> DEFINE r == [calls[k] EXCEPT !.pc = "finished", !.result = result]
  <2>2. r \in States /\ r.pc = "finished" /\ r.conn = calls[k].conn
    BY <1>0 DEF States, Holding, Tasks
  <2>3. calls' = [calls EXCEPT ![k] = r]
    BY <2>1
  <2>4. /\ calls[k].pc = "running"
        /\ permits' = permits /\ pool' = pool
    BY <1>3 DEF Work
  <2>5. calls[k].conn \in PoolConns
    BY <1>0, <2>4 DEF IInv, ConnectionsConserved, Leased, States
  <2>6. broken' \in SUBSET PoolConns
    BY <1>0, <1>3, <2>5 DEF Work
  <2> HIDE DEF r
  <2>7. QED
    BY <2>2, <2>3, <2>4, <2>6, QuietStep DEF Holding, Leasing, Tasks
<1>4. CASE EndTask(k)
  <2> DEFINE r == IdleCall(IF calls[k].waits THEN calls[k].result
                       ELSE calls[k].answer)
  <2>1. r \in States /\ r.pc = "idle" /\ r.conn = None
    BY <1>0 DEF States, IdleCall
  <2>2. /\ calls' = [calls EXCEPT ![k] = r]
        /\ calls[k].pc = "returned"
        /\ permits' = permits + 1 /\ pool' = pool /\ broken' = broken
    BY <1>4 DEF EndTask
  <2>3. k \in Holders /\ k \notin Leased
    BY <2>2 DEF Holders, Leased, Tasks
  <2> HIDE DEF r
  <2>4. QED
    BY <2>1, <2>2, <2>3, PermitGiven DEF Holding, Tasks
<1>5. CASE OperationTimeout(k)
  <2> DEFINE r == [calls[k] EXCEPT !.waits = FALSE, !.answer = "timed_out"]
  <2>1. r \in States /\ r.pc = calls[k].pc /\ r.conn = calls[k].conn
    BY <1>0 DEF States
  <2>2. /\ calls' = [calls EXCEPT ![k] = r]
        /\ permits' = permits /\ pool' = pool /\ broken' = broken
    BY <1>5 DEF OperationTimeout
  <2> HIDE DEF r
  <2>3. QED
    BY <1>0, <2>1, <2>2, QuietStep
<1>6. CASE Disconnect(k)
  <2>1. pool' = pool /\ broken' = broken
    BY <1>6 DEF Disconnect
  <2>2. /\ IdleCall(None) \in States
        /\ IdleCall(None).pc = "idle" /\ IdleCall(None).conn = None
    BY DEF States, IdleCall
  <2>3. CASE /\ calls[k].pc = "waiting"
             /\ calls' = [calls EXCEPT ![k] = IdleCall(None)]
             /\ permits' = permits
    BY <1>0, <2>1, <2>2, <2>3, QuietStep DEF Holding, Leasing, Tasks
  <2>4. CASE /\ calls[k].pc = "taking"
             /\ calls' = [calls EXCEPT ![k] = IdleCall(None)]
             /\ permits' = permits + 1
    <3>1. k \in Holders /\ k \notin Leased
      BY <2>4 DEF Holders, Leased
    <3>2. QED
      BY <2>1, <2>2, <2>4, <3>1, PermitGiven DEF Holding, Tasks
  <2>5. CASE /\ calls[k].pc \in Tasks
             /\ calls' = [calls EXCEPT ![k].waits = FALSE]
             /\ permits' = permits
    <3> DEFINE r == [calls[k] EXCEPT !.waits = FALSE]
    <3>1. r \in States /\ r.pc = calls[k].pc /\ r.conn = calls[k].conn
      BY <1>0 DEF States
    <3>2. calls' = [calls EXCEPT ![k] = r]
      BY <2>5
    <3> HIDE DEF r
    <3>3. QED
      BY <1>0, <2>1, <2>5, <3>1, <3>2, QuietStep
  <2>6. QED
    BY <1>6, <2>3, <2>4, <2>5 DEF Disconnect
<1>7. QED
  BY <1>1, <1>2, <1>3, <1>4, <1>5, <1>6

LEMMA StepHolds == IInv /\ [PoolNext]_poolVars => IInv'
<1> SUFFICES ASSUME IInv, [PoolNext]_poolVars PROVE IInv'
  OBVIOUS
<1>1. CASE UNCHANGED poolVars
  BY <1>1 DEF poolVars, IInv, PoolTypeOK, Counted, ConnectionsConserved,
              Holders, Leased, PoolSize
<1>2. ASSUME NEW c \in PoolConns, Break(c) PROVE IInv'
  <2>1. /\ permits' = permits /\ pool' = pool /\ calls' = calls
        /\ broken' = broken \cup {c}
    BY <1>2 DEF Break
  <2>2. PoolTypeOK'
    BY <2>1 DEF IInv, PoolTypeOK
  <2>3. Counted' /\ ConnectionsConserved'
    BY <2>1 DEF IInv, Counted, ConnectionsConserved, Holders, Leased, PoolSize
  <2>4. QED
    BY <2>2, <2>3 DEF IInv
<1>3. QED
  BY <1>1, <1>2, AcquireKeeps, TakeKeeps, PutBackKeeps, ActionsKeep DEF PoolNext

(* The counts leave a connection for everyone who holds a permit and none  *)
(* yet.                                                                    *)
LEMMA InvImplies == IInv => PoolConserved
<1> SUFFICES ASSUME IInv PROVE PoolConserved
  OBVIOUS
<1> DEFINE Taking == {k \in Calls : calls[k].pc = "taking"}
<1>1. Taking \cup Leased \in SUBSET Holders /\ Taking \cap Leased = {}
  BY DEF Holders, Leased, Tasks
<1>2. IsFiniteSet(Holders)
  BY DEF IInv, Counted
<1>3. /\ IsFiniteSet(Taking) /\ IsFiniteSet(Leased)
      /\ IsFiniteSet(Taking \cup Leased)
      /\ Cardinality(Taking \cup Leased) <= Cardinality(Holders)
  BY <1>1, <1>2, FS_Subset
<1>4. Cardinality(Taking \cup Leased)
        = Cardinality(Taking) + Cardinality(Leased)
  <2> HIDE DEF Taking
  <2>1. Cardinality(Taking \cup Leased)
          = Cardinality(Taking) + Cardinality(Leased)
              - Cardinality(Taking \cap Leased)
    BY <1>3, FS_Union
  <2>2. Cardinality(Taking \cap Leased) = 0
    BY <1>1, FS_EmptySet
  <2>3. Cardinality(Taking) \in Nat /\ Cardinality(Leased) \in Nat
    BY <1>3, FS_CardinalityType
  <2>4. QED
    BY <2>1, <2>2, <2>3
<1>5. Cardinality(Taking) \in Nat
  BY <1>3, FS_CardinalityType
<1>6. Cardinality(Taking) <= Cardinality(pool)
  BY <1>3, <1>4, <1>5, Countable DEF IInv, Counted, PoolTypeOK
<1>7. QED
  BY <1>6 DEF IInv, Counted, PoolConserved, PermitsConserved,
              PermitFindsConnection

(* Every call keeps the shape of its kind, for every number of calls and   *)
(* connections.                                                            *)
THEOREM PoolTypeCorrect == PoolSpec => []PoolTypeOK
<1>1. IInv => PoolTypeOK
  BY DEF IInv
<1>2. QED
  BY <1>1, InitHolds, StepHolds, PTL DEF PoolSpec

(* Whatever callers time out, disconnect or panic, no permit and no        *)
(* connection is lost or shared, and a permit finds its connection.        *)
THEOREM PoolIsConserved == PoolSpec => []PoolConserved
BY InitHolds, StepHolds, InvImplies, PTL DEF PoolSpec
=============================================================================
