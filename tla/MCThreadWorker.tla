---------------------------- MODULE MCThreadWorker -----------------------------
(* Instances of ThreadWorker for TLC. *)
EXTENDS ThreadWorker

CONSTANTS w1, w2, t1, t2, t3, t4
================================================================================
