----------------------------- MODULE MCKernelWaits -----------------------------
(* Instances of KernelWaits for TLC: clients c1 and c2, a server sv. *)
EXTENDS KernelWaits

CONSTANTS c1, c2, sv, guest, hle

Priorities  == [t \in Thread |-> IF t = c1 THEN 1 ELSE 0]
MaxSessions == [p \in Port |-> 1]
================================================================================
