------------------------------ MODULE MCQueue -------------------------------
(* The queue, its lists and their pointers for TLC. *)
EXTENDS QueueList
=============================================================================
