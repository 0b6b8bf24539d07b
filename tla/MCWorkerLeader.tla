--------------------------- MODULE MCWorkerLeader ---------------------------
(* Model-checking instance of WorkerLeader: three replicas.                *)
EXTENDS WorkerLeader
=============================================================================
