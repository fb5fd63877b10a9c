---------------------------- MODULE MCWorkerPool -----------------------------
(* Small instances of WorkerPool. *)
EXTENDS WorkerPool

CONSTANTS w1, w2, v1, v2, j1, j2, j3
=============================================================================
