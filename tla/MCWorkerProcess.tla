-------------------------- MODULE MCWorkerProcess --------------------------
(***************************************************************************)
(* Two tasks that a worker may run together, and each once more: a retry   *)
(* can meet the handler of the attempt before it.                          *)
(***************************************************************************)
EXTENDS WorkerProcess

CONSTANTS t1, t2
=============================================================================
