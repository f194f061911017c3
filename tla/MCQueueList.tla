----------------------------- MODULE MCQueueList -----------------------------
(* A small instance of QueueList for TLC. *)
EXTENDS QueueList
=============================================================================
