-------------------------- MODULE MCServiceStorage --------------------------
(***************************************************************************)
(* The two layers of the service's store, one at a time.  For the SQL      *)
(* transactions: two connections and a handful of commands chosen so that  *)
(* the same id meets itself, a different actor and a different             *)
(* fingerprint, and so that creates, compare-and-swap updates and deletes  *)
(* race on one resource.  For the executor that runs them: two connections *)
(* and three calls, so that every permit can be held while another call    *)
(* waits, and a detached task can overlap the retry of its caller.         *)
(***************************************************************************)
EXTENDS LedgerTx, Executor

CONSTANTS k1, k2, k3, k4, alice, bob, fp1, fp2, r1, r2, d1, d2

Cmd(id, actor, fp, r, expected, d) ==
  [id |-> id, actor |-> actor, fingerprint |-> fp, resource |-> r,
   expected |-> expected, document |-> d]

MCCommands ==
  { Cmd(k1, alice, fp1, r1, 0, d1),
    Cmd(k1, bob, fp1, r1, 0, d1),
    Cmd(k1, alice, fp2, r1, 0, d2),
    Cmd(k2, bob, fp1, r1, 0, d2),
    Cmd(k3, alice, fp1, r1, 1, d2),
    Cmd(k4, bob, fp2, r1, 1, Nil),
    Cmd(k4, bob, fp1, r2, 0, d1) }

VARIABLE scene

storageVars == <<txVars, poolVars, scene>>

StorageInit == TxInit /\ PoolInit /\ scene \in {"transactions", "pool"}

StorageNext ==
  \/ scene = "transactions" /\ TxNext /\ UNCHANGED <<poolVars, scene>>
  \/ scene = "pool" /\ PoolNext /\ UNCHANGED <<txVars, scene>>

StorageSpec ==
  StorageInit /\ [][StorageNext]_storageVars /\ TxFairness /\ PoolFairness
=============================================================================
