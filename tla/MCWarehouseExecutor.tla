------------------------ MODULE MCWarehouseExecutor ------------------------
(* One thread and two tasks for one slot, and two calls of close.           *)
EXTENDS WarehouseExecutor, TLC

CONSTANTS sync, task1, task2, closer1, closer2

=============================================================================
