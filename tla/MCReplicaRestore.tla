-------------------------- MODULE MCReplicaRestore --------------------------
(***************************************************************************)
(* A shared resource and a handoff only alice may see, each created once:  *)
(* with one entry to a batch there is a batch that bob sees nothing of.    *)
(***************************************************************************)
EXTENDS ReplicaRestore

CONSTANTS k1, k2, alice, bob, fp, shared, private, d1

Cmd(id, r, expected, d) ==
  [id |-> id, actor |-> alice, fingerprint |-> fp, resource |-> r,
   expected |-> expected, document |-> d]

MCCommands == { Cmd(k1, shared, 0, d1), Cmd(k2, private, 0, d1) }

MCAudience ==
  [r \in {shared, private} |-> IF r = shared THEN {alice, bob} ELSE {alice}]
=============================================================================
