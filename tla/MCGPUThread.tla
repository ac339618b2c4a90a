------------------------------ MODULE MCGPUThread ------------------------------
(* Instances of GPUThread for TLC. *)
EXTENDS GPUThread
================================================================================
