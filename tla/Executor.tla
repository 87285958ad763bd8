------------------------------ MODULE Executor ------------------------------
(***************************************************************************)
(* The bounded bridge between asynchronous request handlers and the        *)
(* blocking stores (aidememo-server/src/executor.rs).  A call acquires a   *)
(* permit, takes a pooled connection, and moves both into a blocking task; *)
(* the task runs the operation, puts the connection back and only then     *)
(* drops its permit.  The caller waits for all of it under timeouts, and   *)
(* may give up or be disconnected at any point while the task goes on.     *)
(*                                                                         *)
(* The SQLite executor is the instance with one connection: its single     *)
(* permit stands before a mutex that is therefore always free.             *)
(***************************************************************************)
EXTENDS Naturals, FiniteSets

CONSTANTS
  Calls,      \* executions the runtime holds at once
  PoolConns,      \* connections opened at startup: pool_size of them
  None

ASSUME PoolAssumption ==
  IsFiniteSet(PoolConns) /\ PoolConns # {} /\ None \notin PoolConns

VARIABLES
  permits,    \* available permits of the semaphore
  pool,       \* connections in the channel
  broken,     \* closed or poisoned connections; nothing ever reconnects one
  calls       \* what each execution is doing

poolVars == <<permits, pool, broken, calls>>

PoolSize == Cardinality(PoolConns)

(* "taking" holds a permit in the handler's future; the states of a task   *)
(* hold it on a blocking thread, whether or not the caller still waits.    *)
Tasks == {"running", "finished", "returned"}

Holders == {k \in Calls : calls[k].pc \in {"taking"} \cup Tasks}

Leased == {k \in Calls : calls[k].pc \in {"running", "finished"}}

IdleCall(answer) ==
  [pc |-> "idle", conn |-> None, result |-> None, waits |-> FALSE,
   answer |-> answer]

PoolInit ==
  /\ permits = PoolSize
  /\ pool = PoolConns
  /\ broken = {}
  /\ calls = [k \in Calls |-> IdleCall(None)]

Call(k) ==
  /\ calls[k].pc = "idle"
  /\ calls' = [calls EXCEPT ![k] =
       [IdleCall(None) EXCEPT !.pc = "waiting", !.waits = TRUE]]
  /\ UNCHANGED <<permits, pool, broken>>

AcquirePermit(k) ==
  /\ calls[k].pc = "waiting"
  /\ permits > 0
  /\ permits' = permits - 1
  /\ calls' = [calls EXCEPT ![k].pc = "taking"]
  /\ UNCHANGED <<pool, broken>>

(* Fault: a call waits for a permit without a timeout.                     *)
AcquireNoTimeout(k) == FALSE /\ UNCHANGED calls

AcquireTimeout(k) ==
  /\ calls[k].pc = "waiting"
  /\ permits = 0
  /\ calls' = [calls EXCEPT ![k] = IdleCall("saturated")]
  /\ UNCHANGED <<permits, pool, broken>>

(* PostgresPool::take, then spawn_blocking.  take's own timeout is not an  *)
(* action: PermitFindsConnection shows that nobody ever waits in it.       *)
TakeConnection(k) ==
  /\ calls[k].pc = "taking"
  /\ \E c \in pool :
       /\ pool' = pool \ {c}
       /\ calls' = [calls EXCEPT ![k] =
            [@ EXCEPT !.pc = "running", !.conn = c]]
  /\ UNCHANGED <<permits, broken>>

(* Fault: no statement timeout, so a dead connection is waited for.        *)
WorkOnLiveConnection(k) ==
  /\ calls[k].pc = "running"
  /\ calls[k].conn \notin broken
  /\ calls' = [calls EXCEPT ![k] =
       [@ EXCEPT !.pc = "finished", !.result = "ok"]]
  /\ UNCHANGED <<permits, pool, broken>>

(* run_operation: the closure returns, fails or panics; catch_unwind turns *)
(* a panic into an error, but one under the client's mutex poisons it.     *)
Work(k) ==
  /\ calls[k].pc = "running"
  /\ \/ /\ calls[k].conn \notin broken
        /\ calls' = [calls EXCEPT ![k] =
             [@ EXCEPT !.pc = "finished", !.result = "ok"]]
        /\ UNCHANGED broken
     \/ /\ calls' = [calls EXCEPT ![k] =
             [@ EXCEPT !.pc = "finished", !.result = "error"]]
        /\ broken' \in {broken, broken \cup {calls[k].conn}}
  /\ UNCHANGED <<permits, pool>>

(* PostgresPool::put: try_send fails on a full channel and drops the store.*)
PutBack(k) ==
  /\ calls[k].pc = "finished"
  /\ pool' = IF Cardinality(pool) < PoolSize
             THEN pool \cup {calls[k].conn} ELSE pool
  /\ calls' = [calls EXCEPT ![k] =
       [@ EXCEPT !.pc = "returned", !.conn = None]]
  /\ UNCHANGED <<permits, broken>>

(* Fault: the permit is dropped before the connection is back.             *)
EndTaskEarly(k) ==
  /\ calls[k].pc \in {"finished", "returned"}
  /\ permits' = permits + 1
  /\ calls' = [calls EXCEPT ![k] = IdleCall(None)]
  /\ UNCHANGED <<pool, broken>>

(* The closure ends: the permit is dropped and the join handle resolves.   *)
EndTask(k) ==
  /\ calls[k].pc = "returned"
  /\ permits' = permits + 1
  /\ calls' = [calls EXCEPT ![k] =
       IdleCall(IF calls[k].waits THEN calls[k].result ELSE calls[k].answer)]
  /\ UNCHANGED <<pool, broken>>

(* operation_timeout: the caller is told, the task keeps what it holds.    *)
OperationTimeout(k) ==
  /\ calls[k].pc \in Tasks
  /\ calls[k].waits
  /\ calls' = [calls EXCEPT ![k] =
       [@ EXCEPT !.waits = FALSE, !.answer = "timed_out"]]
  /\ UNCHANGED <<permits, pool, broken>>

(* The client disconnects and the handler's future is dropped.             *)
Disconnect(k) ==
  /\ calls[k].waits
  /\ \/ /\ calls[k].pc = "waiting"
        /\ calls' = [calls EXCEPT ![k] = IdleCall(None)]
        /\ UNCHANGED permits
     \/ /\ calls[k].pc = "taking"
        /\ calls' = [calls EXCEPT ![k] = IdleCall(None)]
        /\ permits' = permits + 1
     \/ /\ calls[k].pc \in Tasks
        /\ calls' = [calls EXCEPT ![k].waits = FALSE]
        /\ UNCHANGED permits
  /\ UNCHANGED <<pool, broken>>

(* The database closes a connection.                                       *)
Break(c) ==
  /\ c \notin broken
  /\ broken' = broken \cup {c}
  /\ UNCHANGED <<permits, pool, calls>>

PoolNext ==
  \/ \E k \in Calls :
       \/ Call(k)
       \/ AcquirePermit(k)
       \/ AcquireTimeout(k)
       \/ TakeConnection(k)
       \/ Work(k)
       \/ PutBack(k)
       \/ EndTask(k)
       \/ OperationTimeout(k)
       \/ Disconnect(k)
  \/ \E c \in PoolConns : Break(c)

PoolSpec == PoolInit /\ [][PoolNext]_poolVars

(* acquire_timeout bounds the wait for a permit; statement_timeout and     *)
(* lock_timeout, which validate_postgres_policy makes nonzero, bound the   *)
(* operation; the rest is running code.                                    *)
PoolFairness ==
  \A k \in Calls :
    /\ WF_poolVars(AcquirePermit(k) \/ AcquireTimeout(k))
    /\ WF_poolVars(TakeConnection(k))
    /\ WF_poolVars(Work(k))
    /\ WF_poolVars(PutBack(k))
    /\ WF_poolVars(EndTask(k))

-----------------------------------------------------------------------------

(* Every permit is available or held by one call: a timed-out caller or a  *)
(* disconnect never frees the permit of a running task, so at most         *)
(* pool_size tasks ever exist, and none is lost.                           *)
PermitsConserved == permits + Cardinality(Holders) = PoolSize

(* Every connection is in the pool or leased by exactly one task.          *)
ConnectionsConserved ==
  /\ \A k \in Calls : k \in Leased <=> calls[k].conn # None
  /\ \A k \in Calls : calls[k].conn \notin pool
  /\ \A j, k \in Leased : calls[j].conn = calls[k].conn => j = k
  /\ \A c \in PoolConns \ pool : \E k \in Leased : calls[k].conn = c

(* A permit is a promise of a connection, because a task puts its          *)
(* connection back before it drops its permit: everyone between the two    *)
(* acquisitions finds one waiting.                                         *)
PermitFindsConnection ==
  Cardinality({k \in Calls : calls[k].pc = "taking"}) <= Cardinality(pool)

(* However calls time out, disconnect, panic or break their connections,   *)
(* neither permits nor connections are lost or shared.                     *)
PoolConserved ==
  /\ PermitsConserved
  /\ ConnectionsConserved
  /\ PermitFindsConnection

(* Whoever calls is told something.                                        *)
EveryCallerAnswered == \A k \in Calls : calls[k].waits ~> ~calls[k].waits

(* An exhausted executor serves again, whatever its callers did.           *)
PermitsComeBack == (permits = 0) ~> (permits > 0)
=============================================================================
