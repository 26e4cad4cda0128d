------------------------------ MODULE MCTaskSweep ------------------------------
(***************************************************************************)
(* An instance of TaskSweep: two processes, two tasks, batches of one.     *)
(***************************************************************************)
EXTENDS TaskSweep
================================================================================
