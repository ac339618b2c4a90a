------------------------------- MODULE MCAsyncGPU ------------------------------
(* Instances of AsyncGPU for TLC. *)
EXTENDS AsyncGPU
================================================================================
