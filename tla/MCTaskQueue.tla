---------------------------- MODULE MCTaskQueue ----------------------------
(* TaskQueue on a few runs. *)
EXTENDS TaskQueue
=============================================================================
