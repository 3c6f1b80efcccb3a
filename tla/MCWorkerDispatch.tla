-------------------------- MODULE MCWorkerDispatch --------------------------
(* WorkerDispatch for TLC: two children, three dispatches between them.     *)
EXTENDS WorkerDispatch

=============================================================================
