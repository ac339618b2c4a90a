----------------------------- MODULE MCCoreTiming ------------------------------
(* Instances of CoreTiming for TLC. *)
EXTENDS CoreTiming
================================================================================
