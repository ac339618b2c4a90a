-------------------------- MODULE MCThreadQueueList ----------------------------
(* Instance of ThreadQueueList for TLC.                                       *)
EXTENDS ThreadQueueList
================================================================================
