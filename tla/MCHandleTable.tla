---------------------------- MODULE MCHandleTable ------------------------------
(* Instance of HandleTable for TLC: three slots, four generations.            *)
EXTENDS HandleTable
================================================================================
